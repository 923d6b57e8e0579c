----------------------------- MODULE Elections -----------------------------
(* The measurement of leader elections that the program makes in both of its *)
(* modes: the thread of SyncObj reports each election this node wins through *)
(* onStateChanged, to a list and to the end of election_measurements.csv;    *)
(* the main thread replaces that file with the list when it ends.            *)
(*                                                                           *)
(* SyncObj is external: it may change its role and find or lose a leader at  *)
(* any time.  CommitLoop and Bootstrap say what the main thread does, and    *)
(* when the two threads run.                                                 *)
EXTENDS Integers, Sequences

CONSTANTS
    MaxElection,    \* bound: elections one process wins
    MaxRun          \* bound: starts of the program

VARIABLES
    main,           \* where the main thread is
    run,            \* the number of starts so far
    role, leader,   \* the Raft role; does _getLeader() return a node?
    elected,        \* the number of rows of election_monitor._results_list
    reporting,      \* is onStateChanged between this list and the file?
    snapshot,       \* the number of elections save_file is writing
    electionFile    \* election_measurements.csv

raft == <<role, leader, elected, reporting>>
elections == <<snapshot, electionFile>>
-----------------------------------------------------------------------------
Row(number) == [run |-> run, number |-> number]

Rows(count) == [i \in 1 .. count |-> Row(i)]

Election == [run: 1 .. MaxRun, number: 1 .. MaxElection]

ElectionsType ==
    /\ run \in 0 .. MaxRun
    /\ role \in {"follower", "candidate", "leader"}
    /\ leader \in BOOLEAN
    /\ elected \in 0 .. MaxElection
    /\ reporting \in BOOLEAN
    /\ snapshot \in 0 .. MaxElection
    /\ electionFile \in Seq(Election)

ElectionsInit ==
    /\ main = "off" /\ run = 0
    /\ role = "follower" /\ leader = FALSE
    /\ elected = 0 /\ reporting = FALSE
    /\ snapshot = 0 /\ electionFile = <<>>

(* The process ends: the file remains.                                       *)
ForgetElections ==
    /\ main' = "off"
    /\ role' = "follower" /\ leader' = FALSE
    /\ elected' = 0 /\ reporting' = FALSE
    /\ snapshot' = 0
    /\ UNCHANGED <<run, electionFile>>
-----------------------------------------------------------------------------
(* The thread of SyncObj.  While it is in onStateChanged it does nothing     *)
(* else.  An election is timed from becoming a candidate.                    *)
Candidate ==
    /\ ~reporting /\ role # "candidate"
    /\ role' = "candidate" /\ leader' = FALSE
    /\ UNCHANGED <<elected, reporting, elections>>

(* Another node leads, or nobody yet. *)
Follower ==
    /\ ~reporting
    /\ role' = "follower" /\ leader' \in BOOLEAN
    /\ UNCHANGED <<elected, reporting, elections>>

(* onStateChanged for a candidate that becomes the leader: the row ... *)
Win ==
    /\ ~reporting /\ role = "candidate" /\ elected < MaxElection
    /\ role' = "leader" /\ leader' = TRUE
    /\ elected' = elected + 1 /\ reporting' = TRUE
    /\ UNCHANGED elections

(* Mutant: the file is opened to be written anew.                            *)
ReportElection_Anew ==
    /\ reporting
    /\ electionFile' = <<Row(elected)>>
    /\ reporting' = FALSE
    /\ UNCHANGED <<role, leader, elected, snapshot>>

(* ... and append_last. *)
ReportElection ==
    /\ reporting
    /\ electionFile' = Append(electionFile, Row(elected))
    /\ reporting' = FALSE
    /\ UNCHANGED <<role, leader, elected, snapshot>>

ElectionStep == Candidate \/ Follower \/ Win \/ ReportElection

(* The main thread's save_file: nothing if there are no elections, otherwise *)
(* it reads the list, and the file is replaced.                              *)
SaveElections ==
    /\ main = "saveElections"
    /\ snapshot' = elected
    /\ main' = IF elected = 0 THEN "ended" ELSE "rewriteElections"
    /\ UNCHANGED <<run, raft, electionFile>>

(* (The file is emptied and filled in one step here: what append_last puts   *)
(* there in between is overwritten like what it put there just before.)      *)
RewriteElections ==
    /\ main = "rewriteElections"
    /\ electionFile' = Rows(snapshot)
    /\ main' = "ended"
    /\ UNCHANGED <<run, raft, snapshot>>

(* A file that ends with t.                                                  *)
EndsWith(s, t) ==
    /\ Len(t) <= Len(s)
    /\ \A i \in 1 .. Len(t) : s[Len(s) - Len(t) + i] = t[i]

(* The elections whose append_last has returned.                             *)
Reported == IF reporting THEN elected - 1 ELSE elected
=============================================================================
