---------------------------- MODULE MCTransport ----------------------------
(* Instances of Transport for TLC. *)
EXTENDS Transport, TLC

(* Deployments of node 1, which accepts, and of node 2, which dials: set up  *)
(* wholly and then interrupted, or interrupted first and then repaired.      *)
Both(g, h) == 1 :> g @@ 2 :> h

Interrupted == {
    Both(<<"valid", "unsigned">>, <<"valid", "blank">>),
    Both(<<"blank", "valid">>, <<"unverifiable", "valid">>),
    Both(<<"unsigned", "valid">>, <<"blank", "valid">>),
    Both(<<"valid", "unverifiable">>, <<"valid", "valid">>),
    Both(<<"valid", "valid">>, <<"valid", "unsigned">>)}

Repaired == {
    Both(<<"unsigned", "valid">>, <<"valid", "blank">>),
    Both(<<"valid", "blank">>, <<"unverifiable", "valid">>)}

Completed == {Both(<<"valid">>, <<"valid">>)}

(* Sockets between two nodes are interchangeable. *)
IdSymmetry == Permutations(Id)
=============================================================================
