------------------------------ MODULE MCTrust ------------------------------
(* Instances of Trust for TLC. *)
EXTENDS Trust, TLC
=============================================================================
