---- MODULE MCCommitLoop ----
(* The commit measurement on a small instance. *)
EXTENDS CommitLoop
====
