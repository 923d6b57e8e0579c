----------------------------- MODULE Bootstrap -----------------------------
(* The program in --bootstrap mode (Scalability Evaluation/scale_cryptobj.py *)
(* 234-273, cryptobj.py 240-279): rounds, each with a SyncObj of its own     *)
(* that is destroyed once it has found a leader, or 30 s have passed; the    *)
(* elections of all rounds are kept.  The transport of each SyncObj binds    *)
(* the same port anew, from the thread of that SyncObj.                      *)
EXTENDS Elections

CONSTANT Rounds     \* BOOTSTRAP_ITERATIONS

ASSUME BoundsAssumption ==
    MaxElection \in Nat /\ MaxRun \in Nat /\ Rounds \in Nat

VARIABLES
    round, completed,   \* the rounds begun, and those that found a leader
    alive,              \* is the thread of the last SyncObj running?
    closing,            \* has it been told to destroy itself?
    bound,              \* _ready: has its transport bound the port?
    interrupted         \* history: was there a KeyboardInterrupt?

rounds == <<round, completed, interrupted>>
instance == <<alive, closing, bound>>
vars == <<main, run, raft, elections, rounds, instance>>
-----------------------------------------------------------------------------
Place == {"off", "round", "waiting", "destroying", "cooldown",
          "saveElections", "rewriteElections", "ended"}

TypeOK ==
    /\ main \in Place /\ ElectionsType
    /\ round \in 0 .. Rounds /\ completed \in 0 .. Rounds
    /\ alive \in BOOLEAN /\ closing \in BOOLEAN /\ bound \in BOOLEAN
    /\ interrupted \in BOOLEAN

Init ==
    /\ ElectionsInit
    /\ round = 0 /\ completed = 0 /\ interrupted = FALSE
    /\ alive = FALSE /\ closing = FALSE /\ bound = FALSE

Start ==
    /\ main = "off" /\ run < MaxRun
    /\ main' = "round" /\ run' = run + 1
    /\ UNCHANGED <<raft, elections, rounds, instance>>

(* The process ends, at its end or at any time before it. *)
Exit ==
    /\ main # "off" /\ ForgetElections
    /\ round' = 0 /\ completed' = 0 /\ interrupted' = FALSE
    /\ alive' = FALSE /\ closing' = FALSE /\ bound' = FALSE
-----------------------------------------------------------------------------
(* The main thread.  A round begins with a new SyncObj, a follower that      *)
(* knows no leader.                                                          *)
NewInstance ==
    /\ main = "round" /\ round < Rounds
    /\ main' = "waiting" /\ round' = round + 1
    /\ alive' = TRUE /\ closing' = FALSE /\ bound' = FALSE
    /\ role' = "follower" /\ leader' = FALSE
    /\ UNCHANGED <<run, elected, reporting, elections, completed, interrupted>>

LeaderFound ==
    /\ main = "waiting" /\ leader
    /\ completed' = completed + 1
    /\ main' = "destroying" /\ closing' = TRUE
    /\ UNCHANGED <<run, raft, elections, round, interrupted, alive, bound>>

(* Mutant: the wait has no limit.                                            *)
RoundSkipped_Never == FALSE /\ UNCHANGED vars

(* LEADER_WAIT_TIMEOUT *)
RoundSkipped ==
    /\ main = "waiting" /\ ~leader
    /\ main' = "destroying" /\ closing' = TRUE
    /\ UNCHANGED <<run, raft, elections, rounds, alive, bound>>

(* Mutant: the thread is not waited for.                                     *)
Destroyed_NotJoined ==
    /\ main = "destroying"
    /\ main' = "cooldown"
    /\ UNCHANGED <<run, raft, elections, rounds, instance>>

(* destroy_synchronous returns when the thread has ended. *)
Destroyed ==
    /\ main = "destroying" /\ ~alive
    /\ main' = "cooldown"
    /\ UNCHANGED <<run, raft, elections, rounds, instance>>

Cooldown ==
    /\ main = "cooldown"
    /\ main' = "round"
    /\ UNCHANGED <<run, raft, elections, rounds, instance>>

RoundsDone ==
    /\ main = "round" /\ round = Rounds
    /\ main' = "saveElections"
    /\ UNCHANGED <<run, raft, elections, rounds, instance>>

(* SIGTERM or Ctrl+C leaves the rounds, and the SyncObj of the current one   *)
(* as it is.                                                                 *)
Interrupt ==
    /\ main \in {"round", "waiting", "destroying", "cooldown"}
    /\ main' = "saveElections" /\ interrupted' = TRUE
    /\ UNCHANGED <<run, raft, elections, round, completed, instance>>

ElectionsSaved ==
    /\ SaveElections \/ RewriteElections
    /\ UNCHANGED <<rounds, instance>>
-----------------------------------------------------------------------------
(* The thread of SyncObj: its ticks try to bind until that succeeds (an      *)
(* attempt that fails changes nothing; maxBindRetries is not set), and Raft  *)
(* goes on bound or not.  In the end it destroys the transport.              *)
Bind ==
    /\ alive /\ ~reporting /\ ~bound
    /\ bound' = TRUE
    /\ UNCHANGED <<main, run, raft, elections, rounds, alive, closing>>

Elect ==
    /\ alive /\ ElectionStep
    /\ UNCHANGED <<main, run, rounds, instance>>

ThreadEnds ==
    /\ alive /\ closing /\ ~reporting
    /\ alive' = FALSE /\ bound' = FALSE
    /\ UNCHANGED <<main, run, raft, elections, rounds, closing>>

MainStep ==
    \/ NewInstance \/ LeaderFound \/ RoundSkipped \/ Destroyed \/ Cooldown
    \/ RoundsDone \/ ElectionsSaved

Next ==
    \/ Start \/ Exit
    \/ MainStep \/ Interrupt
    \/ Bind \/ Elect \/ ThreadEnds

Spec == Init /\ [][Next]_vars

(* Both threads go on, and that of SyncObj looks at the request to destroy   *)
(* itself between two ticks; a leader is not promised, nor that the port is  *)
(* free.                                                                     *)
Fairness ==
    /\ WF_vars(MainStep)
    /\ SF_vars(ThreadEnds) /\ WF_vars(ReportElection /\ Elect)

LiveSpec == Spec /\ Fairness
-----------------------------------------------------------------------------
(* A SyncObj is gone, with its hold on the port and its callback, before the *)
(* next is made and before the file is replaced.                             *)
OneInstance ==
    /\ main = "round" => ~alive /\ ~bound /\ ~reporting
    /\ main \in {"saveElections", "rewriteElections", "ended"} /\ ~interrupted => ~alive

(* When all rounds are over the file has exactly the elections this node has *)
(* won in any of them (what it held before if there were none); while they   *)
(* go on, at its end those reported so far.                                  *)
AllRoundsSaved ==
    /\ main = "ended" /\ ~interrupted /\ elected > 0 => electionFile = Rows(elected)
    /\ main \in {"round", "waiting", "destroying", "cooldown"} =>
          EndsWith(electionFile, Rows(Reported))

(* The mode comes to its end, whatever becomes of the elections and of the   *)
(* port.                                                                     *)
BootstrapEnds == main # "off" ~> main \in {"ended", "off"}
=============================================================================
