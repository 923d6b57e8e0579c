----------------------------- MODULE MCEnvelope -----------------------------
(* Instances of Envelope for TLC: all messages of at most four bytes. *)
EXTENDS Envelope, TLC

MCMessage == UNION {[1 .. n -> Byte] : n \in 1 .. 4}
MCIdentity == <<Other>>
=============================================================================
