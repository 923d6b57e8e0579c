----------------------------- MODULE CommitLoop -----------------------------
(* The measurement that src/cryptobj.py runs on top of Raft: its main thread *)
(* replicates one command after the other, waits for each with a timeout and *)
(* keeps the samples; the thread of SyncObj calls back and reports elections *)
(* meanwhile; both write CSV files with the latency monitor.                 *)
(*                                                                           *)
(* SyncObj is external: a command may be committed, a callback may come      *)
(* late or never, and a failed command may still be committed.               *)
EXTENDS Elections

CONSTANT MaxSeq     \* bound: commands sent by one process

ASSUME BoundsAssumption == MaxSeq \in Nat /\ MaxElection \in Nat /\ MaxRun \in Nat

VARIABLES
    due,            \* has --duration passed?
    seq,            \* seq of the main loop
    command,        \* command[k]: what became of the command k, cluster-wide
    outcome,        \* outcome[k]: what its callback has left
    results,        \* latency_monitor._results_list
    file            \* commit_measurements.csv

samples == <<seq, command, outcome, results, file>>
vars == <<main, run, due, samples, raft, elections>>
-----------------------------------------------------------------------------
(* settling: before the SIGTERM handler is installed.  top, waiting,         *)
(* measuring, appending: in the loop.  The rest: the two save_file, each     *)
(* before and while it replaces its file.                                    *)
Place == {"off", "settling", "top", "waiting", "measuring", "appending",
          "save", "rewrite", "saveElections", "rewriteElections", "ended"}
InLoop == main \in {"top", "waiting", "measuring", "appending"}

Sample == [run: 1 .. MaxRun, seq: 0 .. MaxSeq - 1, kind: {"latency", "TIMEOUT"}]

TypeOK ==
    /\ main \in Place /\ ElectionsType
    /\ due \in BOOLEAN
    /\ seq \in 0 .. MaxSeq
    /\ command \in [0 .. MaxSeq - 1 -> {"unsent", "pending", "committed"}]
    /\ outcome \in [0 .. MaxSeq - 1 -> {"none", "success", "failure"}]
    /\ results \in Seq(Sample)
    /\ file \in Seq(Sample)

NoCommand == [k \in 0 .. MaxSeq - 1 |-> "unsent"]
NoOutcome == [k \in 0 .. MaxSeq - 1 |-> "none"]

Init ==
    /\ ElectionsInit
    /\ due = FALSE /\ seq = 0
    /\ command = NoCommand /\ outcome = NoOutcome
    /\ results = <<>> /\ file = <<>>

Start ==
    /\ main = "off" /\ run < MaxRun
    /\ main' = "settling" /\ run' = run + 1
    /\ UNCHANGED <<due, samples, raft, elections>>

(* The process ends at once: a crash, SIGKILL, SIGTERM before its handler is *)
(* installed or once the loop has been left; or it has come to its end.      *)
(* Only the files remain for the next start.                                 *)
Exit ==
    /\ main # "off" /\ ForgetElections
    /\ due' = FALSE /\ seq' = 0
    /\ command' = NoCommand /\ outcome' = NoOutcome
    /\ results' = <<>>
    /\ UNCHANGED file
-----------------------------------------------------------------------------
(* The main thread.  It waits for a leader, and 10 s; the duration is looked *)
(* at between two samples only.                                              *)
Settled ==
    /\ main = "settling" /\ leader
    /\ main' = "top"
    /\ UNCHANGED <<run, due, samples, raft, elections>>

Duration ==
    /\ InLoop /\ ~due
    /\ due' = TRUE
    /\ UNCHANGED <<main, run, samples, raft, elections>>

Top ==
    /\ main = "top"
    /\ \/ due /\ main' = "save"
       \/ ~due /\ seq < MaxSeq /\ main' = "waiting"
    /\ UNCHANGED <<run, due, samples, raft, elections>>

(* addValue, with a callback of its own. *)
Submit ==
    /\ main = "waiting" /\ leader
    /\ main' = "measuring"
    /\ command' = [command EXCEPT ![seq] = "pending"]
    /\ UNCHANGED <<run, due, seq, outcome, results, file, raft, elections>>

Record(kind) ==
    results' = Append(results, [run |-> run, seq |-> seq, kind |-> kind])

(* Mutant: done.wait() without a timeout.                                    *)
TimedOut_Never == FALSE /\ UNCHANGED vars

(* Mutant: a command that timed out is passed over like one that failed.     *)
TimedOut_NotCensored ==
    /\ main = "measuring" /\ outcome[seq] = "none"
    /\ seq' = seq + 1 /\ main' = "top"
    /\ UNCHANGED <<run, due, command, outcome, results, file, raft, elections>>

(* done.wait(timeout=10) gives up; a callback that comes later is ignored. *)
TimedOut ==
    /\ main = "measuring" /\ outcome[seq] = "none"
    /\ Record("TIMEOUT")
    /\ seq' = seq + 1 /\ main' = "top"
    /\ UNCHANGED <<run, due, command, outcome, file, raft, elections>>

Failed ==
    /\ main = "measuring" /\ outcome[seq] = "failure"
    /\ seq' = seq + 1 /\ main' = "top"
    /\ UNCHANGED <<run, due, command, outcome, results, file, raft, elections>>

(* Mutant: the row is left to the save_file at the end.                      *)
Measured_NotAppended ==
    /\ main = "measuring" /\ outcome[seq] = "success"
    /\ Record("latency")
    /\ seq' = seq + 1 /\ main' = "top"
    /\ UNCHANGED <<run, due, command, outcome, file, raft, elections>>

Measured ==
    /\ main = "measuring" /\ outcome[seq] = "success"
    /\ Record("latency")
    /\ main' = "appending"
    /\ UNCHANGED <<run, due, seq, command, outcome, file, raft, elections>>

(* append_last *)
AppendSample ==
    /\ main = "appending"
    /\ file' = Append(file, results[Len(results)])
    /\ seq' = seq + 1 /\ main' = "top"
    /\ UNCHANGED <<run, due, command, outcome, results, raft, elections>>

(* SIGTERM or Ctrl+C: KeyboardInterrupt, anywhere in the loop. *)
Interrupt ==
    /\ InLoop
    /\ main' = "save"
    /\ UNCHANGED <<run, due, samples, raft, elections>>

(* save_file, first of the samples, then of the elections: nothing if there  *)
(* are none, otherwise the file is replaced.                                 *)
Save ==
    /\ main = "save"
    /\ \/ results = <<>> /\ main' = "saveElections" /\ UNCHANGED file
       \/ results # <<>> /\ main' = "rewrite" /\ file' = <<>>
    /\ UNCHANGED <<run, due, seq, command, outcome, results, raft, elections>>

Rewrite ==
    /\ main = "rewrite"
    /\ file' = results
    /\ main' = "saveElections"
    /\ UNCHANGED <<run, due, seq, command, outcome, results, raft, elections>>

ElectionsSaved ==
    /\ SaveElections \/ RewriteElections
    /\ UNCHANGED <<due, samples>>
-----------------------------------------------------------------------------
(* The thread of SyncObj, which runs as long as the process does.  While it  *)
(* is in onStateChanged it does nothing else.                                *)
Ticking == main # "off" /\ ~reporting

Commit(k) ==
    /\ command[k] = "pending"
    /\ command' = [command EXCEPT ![k] = "committed"]
    /\ UNCHANGED <<main, run, due, seq, outcome, results, file, raft, elections>>

Answer(k) == IF command[k] = "committed" THEN {"success", "failure"} ELSE {"failure"}

(* Mutant: one outcome and one event for all calls.                          *)
Callback_Shared(k) ==
    /\ Ticking /\ command[k] # "unsent" /\ outcome[k] = "none" /\ seq < MaxSeq
    /\ \E a \in Answer(k) : outcome' = [outcome EXCEPT ![seq] = a]
    /\ UNCHANGED <<main, run, due, seq, command, results, file, raft, elections>>

(* The callback of the command k.  What is reported as failed, because the   *)
(* leader has changed for instance, may have been committed.                 *)
Callback(k) ==
    /\ Ticking /\ command[k] # "unsent" /\ outcome[k] = "none"
    /\ \E a \in Answer(k) : outcome' = [outcome EXCEPT ![k] = a]
    /\ UNCHANGED <<main, run, due, seq, command, results, file, raft, elections>>

Elect == main # "off" /\ ElectionStep /\ UNCHANGED <<main, run, due, samples>>

MainStep ==
    \/ Settled \/ Top \/ Submit
    \/ TimedOut \/ Failed \/ Measured \/ AppendSample
    \/ Save \/ Rewrite \/ ElectionsSaved

SyncObjStep ==
    \/ \E k \in 0 .. MaxSeq - 1 : Commit(k) \/ Callback(k)
    \/ Elect

Next ==
    \/ Start \/ Exit
    \/ MainStep
    \/ Duration \/ Interrupt
    \/ SyncObjStep

Spec == Init /\ [][Next]_vars
-----------------------------------------------------------------------------
(* A sample is about its own command: a latency is recorded for a committed  *)
(* command only, whatever late callbacks of earlier ones come in meanwhile,  *)
(* and the samples are in the order of the commands, one for each at most.   *)
SamplesAreTrue ==
    /\ \A i \in 1 .. Len(results) :
          results[i].kind = "latency" => command[results[i].seq] = "committed"
    /\ \A i, j \in 1 .. Len(results) : i < j => results[i].seq < results[j].seq

(* Slow commands are not left out: of every command the loop is done with    *)
(* there is a sample, a censored one if need be ("recording as censored      *)
(* sample"), unless its callback has reported a failure.                     *)
HasSample(k) == \E i \in 1 .. Len(results) : results[i].seq = k

SamplesComplete ==
    \A k \in 0 .. seq - 1 : HasSample(k) \/ outcome[k] = "failure"

(* What a crash may cost: all latencies but the one being appended are at    *)
(* the end of the file, in their order, while the loop runs; (timeouts are   *)
(* only written at the end, and replacing the file puts everything at risk   *)
(* for a moment).  After an orderly end the file holds all samples of this   *)
(* process.                                                                  *)
Appended == IF main = "appending" THEN Len(results) - 1 ELSE Len(results)
Latencies == {results[i] : i \in {j \in 1 .. Appended : results[j].kind = "latency"}}

LastRows(n) == Len(file) - n + 1 .. Len(file)
OnDisk(n) ==
    /\ {file[i] : i \in LastRows(n)} = Latencies
    /\ \A i, j \in LastRows(n) : i < j => file[i].seq < file[j].seq

SamplesSurvive ==
    /\ InLoop => \E n \in 0 .. Len(file) : OnDisk(n)
    /\ main = "ended" /\ results # <<>> => file = results

(* Elections go on while main saves.  Those reported before are in the file  *)
(* once each; and the ones save_file has read stay in it.  (One won in       *)
(* between may be overwritten, or be there twice.)                           *)
ElectionsSurvive ==
    /\ main \in {"settling", "save", "rewrite", "saveElections"} \/ InLoop =>
          EndsWith(electionFile, Rows(Reported))
    /\ main = "ended" =>
          \A i \in 1 .. snapshot : \E j \in 1 .. Len(electionFile) :
              electionFile[j] = Row(i)
-----------------------------------------------------------------------------
(* The main thread goes on.  Nothing is assumed of Raft.                     *)
Fairness == WF_vars(MainStep)

LiveSpec == Spec /\ Fairness

(* --duration ends the run, callbacks that never come included, provided     *)
(* there is a leader from some time on: without one, and with one that comes *)
(* and goes between two looks at it, the loop waits (cryptobj.py:348).       *)
StopsWhenDue == <>[]leader => (due ~> main \in {"ended", "off"})
=============================================================================
