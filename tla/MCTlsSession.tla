---------------------------- MODULE MCTlsSession ----------------------------
(* Instances of TlsSession for TLC. *)
EXTENDS TlsSession, TLC
=============================================================================
