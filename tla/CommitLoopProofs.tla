-------------------------- MODULE CommitLoopProofs --------------------------
(* Proofs about CommitLoop, for any number of commands, elections and runs.  *)
(* The argument for the samples: the main thread records a sample for seq    *)
(* only while every earlier one has a smaller number, and only after seq's   *)
(* own callback, which alone writes its outcome.  For the elections: what    *)
(* onStateChanged appends extends the same list of rows at the file's end.   *)
EXTENDS CommitLoop, TLAPS

(* What the types leave open: a process that is off has forgotten its data,  *)
(* and the loop only works on a command within the bound.                    *)
Running ==
    /\ main # "off" => run \in 1 .. MaxRun
    /\ main = "off" => results = <<>> /\ elected = 0 /\ ~reporting
    /\ reporting => elected \in 1 .. MaxElection
    /\ main \in {"waiting", "measuring", "appending"} => seq < MaxSeq
    /\ main = "appending" => results # <<>>

Typed == TypeOK /\ Running

LEMMA RowsType ==
    ASSUME run \in 1 .. MaxRun, NEW count \in 0 .. MaxElection
    PROVE  Rows(count) \in Seq(Election) /\ Len(Rows(count)) = count
  <1>1. \A i \in 1 .. count : Row(i) \in Election
    BY BoundsAssumption DEF Row, Election
  <1> QED BY <1>1, BoundsAssumption DEF Rows

(* A sample is recorded with the number of the command waited for.           *)
LEMMA RecordType ==
    ASSUME Typed, main = "measuring", NEW kind \in {"latency", "TIMEOUT"}, Record(kind)
    PROVE  results' \in Seq(Sample) /\ results' # <<>>
  <1>1. run \in 1 .. MaxRun /\ seq \in 0 .. MaxSeq - 1 /\ results \in Seq(Sample)
    BY BoundsAssumption DEF Typed, TypeOK, Running
  <1>2. [run |-> run, seq |-> seq, kind |-> kind] \in Sample
    BY <1>1 DEF Sample
  <1> QED BY <1>1, <1>2 DEF Record

LEMMA TypedInit == Init => Typed
  <1> SUFFICES ASSUME Init PROVE Typed
    OBVIOUS
  <1>1. ElectionsType
    <2>1. electionFile \in Seq(Election)
      BY DEF Init, ElectionsInit
    <2>2. leader \in BOOLEAN /\ reporting \in BOOLEAN /\ role = "follower"
      BY DEF Init, ElectionsInit
    <2>3. run \in 0 .. MaxRun /\ elected \in 0 .. MaxElection /\ snapshot \in 0 .. MaxElection
      BY BoundsAssumption DEF Init, ElectionsInit
    <2> QED BY <2>1, <2>2, <2>3 DEF ElectionsType
  <1>2. TypeOK
    <2>1. results \in Seq(Sample) /\ file \in Seq(Sample)
      BY DEF Init
    <2>2. /\ command \in [0 .. MaxSeq - 1 -> {"unsent", "pending", "committed"}]
          /\ outcome \in [0 .. MaxSeq - 1 -> {"none", "success", "failure"}]
      BY DEF Init, NoCommand, NoOutcome
    <2>3. main = "off" /\ seq \in 0 .. MaxSeq
      BY BoundsAssumption DEF Init, ElectionsInit
    <2>4. due \in BOOLEAN
      BY DEF Init
    <2> QED BY <1>1, <2>1, <2>2, <2>3, <2>4 DEF TypeOK, Place
  <1> QED BY <1>2 DEF Init, ElectionsInit, Typed, Running

LEMMA TypedElect == ASSUME Typed, Elect PROVE Typed'
  <1>1. main # "off" /\ UNCHANGED <<main, run, due, samples>> /\ ElectionStep
    BY DEF Elect
  <1>2. CASE Candidate \/ Follower
    <2>1. /\ role' \in {"follower", "candidate"} /\ leader' \in BOOLEAN
          /\ UNCHANGED <<elected, reporting, snapshot, electionFile>>
      BY <1>2 DEF Candidate, Follower, elections
    <2>2. ElectionsType'
      BY <1>1, <2>1 DEF Typed, TypeOK, ElectionsType
    <2> QED BY <1>1, <2>1, <2>2 DEF Typed, TypeOK, Running, samples
  <1>3. CASE Win
    BY <1>1, <1>3, BoundsAssumption DEF Win, Typed, TypeOK, ElectionsType, Running, samples, elections
  <1>4. CASE ReportElection
    <2>1. Row(elected) \in Election
      BY <1>1, <1>4 DEF ReportElection, Typed, Running, Row, Election
    <2>2. electionFile' \in Seq(Election)
      BY <1>4, <2>1 DEF ReportElection, Typed, TypeOK, ElectionsType
    <2> QED BY <1>1, <1>4, <2>2 DEF ReportElection, Typed, TypeOK, ElectionsType, Running, samples
  <1> QED BY <1>1, <1>2, <1>3, <1>4 DEF ElectionStep

LEMMA TypedElectionsSaved == ASSUME Typed, ElectionsSaved PROVE Typed'
  <1>1. UNCHANGED <<due, samples>> /\ run' = run
    BY DEF ElectionsSaved, SaveElections, RewriteElections
  <1>2. CASE SaveElections
    BY <1>1, <1>2 DEF SaveElections, Typed, TypeOK, Place, ElectionsType, Running, samples, raft
  <1>3. CASE RewriteElections
    <2>1. electionFile' \in Seq(Election)
      BY <1>3, RowsType DEF RewriteElections, Typed, TypeOK, ElectionsType, Running
    <2> QED BY <1>1, <1>3, <2>1
            DEF RewriteElections, Typed, TypeOK, Place, ElectionsType, Running, samples, raft
  <1> QED BY <1>2, <1>3 DEF ElectionsSaved

LEMMA TypedMeasure ==
    ASSUME Typed, TimedOut \/ Failed \/ Measured \/ AppendSample
    PROVE  Typed'
  <1>1. CASE TimedOut
    <2>1. results' \in Seq(Sample) /\ results' # <<>>
      BY <1>1, RecordType DEF TimedOut
    <2> QED BY <1>1, <2>1, BoundsAssumption
            DEF TimedOut, Typed, TypeOK, Place, ElectionsType, Running, raft, elections
  <1>2. CASE Failed
    BY <1>2, BoundsAssumption
    DEF Failed, Typed, TypeOK, Place, ElectionsType, Running, raft, elections
  <1>3. CASE Measured
    <2>1. results' \in Seq(Sample) /\ results' # <<>>
      BY <1>3, RecordType DEF Measured
    <2> QED BY <1>3, <2>1
            DEF Measured, Typed, TypeOK, Place, ElectionsType, Running, raft, elections
  <1>4. CASE AppendSample
    <2>1. results \in Seq(Sample) /\ results # <<>> /\ file \in Seq(Sample)
      BY <1>4 DEF AppendSample, Typed, TypeOK, Running
    <2>2. file' \in Seq(Sample)
      BY <1>4, <2>1 DEF AppendSample
    <2> QED BY <1>4, <2>2, BoundsAssumption
            DEF AppendSample, Typed, TypeOK, Place, ElectionsType, Running, raft, elections
  <1> QED BY <1>1, <1>2, <1>3, <1>4

LEMMA TypedStep == Typed /\ [Next]_vars => Typed'
  <1> SUFFICES ASSUME Typed, [Next]_vars PROVE Typed'
    OBVIOUS
  <1> USE BoundsAssumption
  <1>1. CASE Start
    BY <1>1 DEF Start, Typed, TypeOK, Place, ElectionsType, Running, samples, raft, elections
  <1>2. CASE Exit
    <2>1. results' \in Seq(Sample) /\ file' \in Seq(Sample) /\ electionFile' \in Seq(Election)
      BY <1>2 DEF Exit, ForgetElections, Typed, TypeOK, ElectionsType
    <2>2. /\ command' \in [0 .. MaxSeq - 1 -> {"unsent", "pending", "committed"}]
          /\ outcome' \in [0 .. MaxSeq - 1 -> {"none", "success", "failure"}]
      BY <1>2 DEF Exit, NoCommand, NoOutcome
    <2>3. /\ main' = "off" /\ results' = <<>> /\ role' = "follower"
          /\ elected' = 0 /\ snapshot' = 0 /\ seq' = 0 /\ run' = run
      BY <1>2 DEF Exit, ForgetElections
    <2>4. due' \in BOOLEAN /\ leader' \in BOOLEAN /\ reporting' \in BOOLEAN /\ ~reporting'
      BY <1>2 DEF Exit, ForgetElections
    <2>5. ElectionsType'
      BY <2>1, <2>3, <2>4 DEF Typed, TypeOK, ElectionsType
    <2> QED BY <2>1, <2>2, <2>3, <2>4, <2>5 DEF TypeOK, Place, Typed, Running
  <1>3. CASE Settled \/ Top \/ Duration \/ Interrupt
    <2>1. UNCHANGED <<run, samples, raft, elections>> /\ due' \in BOOLEAN
      BY <1>3 DEF Settled, Top, Duration, Interrupt, Typed, TypeOK
    <2>2. /\ main # "off" /\ main' \in Place \ {"off"}
          /\ main' \in {"waiting", "measuring", "appending"} => seq < MaxSeq
          /\ main' = "appending" => results # <<>>
      BY <1>3 DEF Settled, Top, Duration, Interrupt, InLoop, Place, Typed, TypeOK, Running
    <2> QED BY <2>1, <2>2 DEF Typed, TypeOK, ElectionsType, Running, samples, raft, elections
  <1>4. CASE Submit
    BY <1>4 DEF Submit, Typed, TypeOK, Place, ElectionsType, Running, raft, elections
  <1>5. CASE Save \/ Rewrite
    <2>1. file' \in Seq(Sample)
      <3>1. file' = file \/ file' = <<>> \/ file' = results
        BY <1>5 DEF Save, Rewrite
      <3>2. file \in Seq(Sample) /\ results \in Seq(Sample) /\ <<>> \in Seq(Sample)
        BY DEF Typed, TypeOK
      <3> QED BY <3>1, <3>2
    <2>2. /\ main # "off" /\ main' \in {"saveElections", "rewrite"}
          /\ UNCHANGED <<run, due, seq, command, outcome, results, raft, elections>>
      BY <1>5 DEF Save, Rewrite
    <2> QED BY <2>1, <2>2 DEF Typed, TypeOK, Place, ElectionsType, Running, raft, elections
  <1>6. ASSUME NEW k \in 0 .. MaxSeq - 1, Commit(k) \/ Callback(k) PROVE Typed'
    <2>1. /\ command' \in [0 .. MaxSeq - 1 -> {"unsent", "pending", "committed"}]
          /\ outcome' \in [0 .. MaxSeq - 1 -> {"none", "success", "failure"}]
      BY <1>6 DEF Commit, Callback, Answer, Typed, TypeOK
    <2>2. UNCHANGED <<main, run, due, seq, results, file, raft, elections>>
      BY <1>6 DEF Commit, Callback
    <2> QED BY <2>1, <2>2 DEF Typed, TypeOK, ElectionsType, Running, raft, elections
  <1>7. CASE UNCHANGED vars
    BY <1>7 DEF vars, samples, raft, elections, Typed, TypeOK, ElectionsType, Running
  <1> QED BY <1>1, <1>2, <1>3, <1>4, <1>5, <1>6, <1>7, TypedElect, TypedElectionsSaved,
             TypedMeasure DEF Next, MainStep, SyncObjStep

LEMMA AlwaysTyped == Spec => []Typed
  BY TypedInit, TypedStep, PTL DEF Spec

(* Every variable of the measurement keeps its type.                         *)
THEOREM TypeCorrect == Spec => []TypeOK
  <1>1. Typed => TypeOK
    BY DEF Typed
  <1> QED BY <1>1, AlwaysTyped, PTL
-----------------------------------------------------------------------------
(* A success that a callback has left is about a committed command; the      *)
(* commands from the next number on are unsent; and until the main thread    *)
(* has gone on to that number, the samples are of smaller ones.              *)
Honest == \A k \in 0 .. MaxSeq - 1 : outcome[k] = "success" => command[k] = "committed"

Fresh ==
    \A k \in 0 .. MaxSeq - 1 :
        \/ main \in {"off", "settling", "top", "waiting"} /\ k >= seq
        \/ main \in {"measuring", "appending"} /\ k > seq
        => command[k] = "unsent" /\ outcome[k] = "none"

Numbered ==
    /\ main \in {"settling", "top", "waiting", "measuring"} =>
          \A i \in 1 .. Len(results) : results[i].seq < seq
    /\ main = "appending" => \A i \in 1 .. Len(results) : results[i].seq <= seq

Sampled == Honest /\ Fresh /\ Numbered /\ SamplesAreTrue

LEMMA SampleNumbers ==
    ASSUME Typed, NEW i \in 1 .. Len(results)
    PROVE  results[i].seq \in 0 .. MaxSeq - 1 /\ results[i].seq \in Int
  <1>1. results[i] \in Sample
    BY DEF Typed, TypeOK
  <1> QED BY <1>1, BoundsAssumption DEF Sample

LEMMA RecordTrue ==
    ASSUME Typed, Sampled, main = "measuring", NEW kind \in {"latency", "TIMEOUT"},
           Record(kind), kind = "latency" => command[seq] = "committed", command' = command
    PROVE  SamplesAreTrue' /\ \A i \in 1 .. Len(results') : results'[i].seq <= seq
  <1> DEFINE sample == [run |-> run, seq |-> seq, kind |-> kind]
  <1>1. sample.seq = seq /\ sample.kind = kind /\ sample \in Sample
    BY BoundsAssumption DEF Typed, TypeOK, Running, Sample
  <1>2. results \in Seq(Sample) /\ results' = Append(results, sample) /\ Len(results) \in Nat
    BY DEF Typed, TypeOK, Record
  <1> HIDE DEF sample
  <1>3. /\ Len(results') = Len(results) + 1 /\ results'[Len(results) + 1] = sample
        /\ \A i \in 1 .. Len(results) : results'[i] = results[i]
    BY <1>1, <1>2
  <1>4. \A i \in 1 .. Len(results) : results[i].seq < seq
    BY DEF Sampled, Numbered
  <1>5. seq \in Nat /\ \A i \in 1 .. Len(results) : results[i].seq \in Int
    BY BoundsAssumption, SampleNumbers DEF Typed, TypeOK
  <1>6. \A i \in 1 .. Len(results') : i \in 1 .. Len(results) \/ i = Len(results) + 1
    BY <1>2, <1>3
  <1>7. \A i \in 1 .. Len(results') :
           results'[i].kind = "latency" => command'[results'[i].seq] = "committed"
    BY <1>1, <1>3, <1>6 DEF Sampled, SamplesAreTrue
  <1>8. \A i, j \in 1 .. Len(results') : i < j => results'[i].seq < results'[j].seq
    <2> SUFFICES ASSUME NEW i \in 1 .. Len(results'), NEW j \in 1 .. Len(results'), i < j
                 PROVE  results'[i].seq < results'[j].seq
      OBVIOUS
    <2>1. i \in 1 .. Len(results)
      BY <1>2, <1>3
    <2>2. CASE j \in 1 .. Len(results)
      BY <1>3, <2>1, <2>2 DEF Sampled, SamplesAreTrue
    <2>3. CASE j = Len(results) + 1
      BY <1>1, <1>3, <1>4, <2>1, <2>3
    <2> QED BY <1>6, <2>2, <2>3
  <1>9. \A i \in 1 .. Len(results') : results'[i].seq <= seq
    BY <1>1, <1>3, <1>4, <1>5, <1>6
  <1> QED BY <1>7, <1>8, <1>9 DEF SamplesAreTrue

LEMMA SampledMeasure ==
    ASSUME Typed, Sampled, TimedOut \/ Failed \/ Measured \/ AppendSample
    PROVE  Sampled'
  <1>1. seq \in Nat /\ \A i \in 1 .. Len(results) : results[i].seq \in Int
    BY BoundsAssumption, SampleNumbers DEF Typed, TypeOK
  <1>2. CASE TimedOut
    <2>1. SamplesAreTrue' /\ \A i \in 1 .. Len(results') : results'[i].seq <= seq
      BY <1>2, RecordTrue DEF TimedOut
    <2>2. Typed'
      BY <1>2, TypedMeasure
    <2>3. \A i \in 1 .. Len(results') : results'[i].seq \in Int
      <3> SUFFICES ASSUME NEW i \in 1 .. Len(results') PROVE results'[i].seq \in Int
        OBVIOUS
      <3>1. results'[i] \in Sample
        BY <2>2 DEF Typed, TypeOK
      <3> QED BY <3>1, BoundsAssumption DEF Sample
    <2> QED BY <1>1, <1>2, <2>1, <2>3 DEF TimedOut, Sampled, Honest, Fresh, Numbered
  <1>3. CASE Failed
    BY <1>1, <1>3 DEF Failed, Sampled, Honest, Fresh, Numbered, SamplesAreTrue
  <1>4. CASE Measured
    <2>1. seq \in 0 .. MaxSeq - 1
      BY <1>4, BoundsAssumption DEF Measured, Typed, TypeOK, Running
    <2>2. SamplesAreTrue' /\ \A i \in 1 .. Len(results') : results'[i].seq <= seq
      BY <1>4, <2>1, RecordTrue DEF Measured, Sampled, Honest
    <2> QED BY <1>4, <2>2 DEF Measured, Sampled, Honest, Fresh, Numbered
  <1>5. CASE AppendSample
    BY <1>1, <1>5 DEF AppendSample, Sampled, Honest, Fresh, Numbered, SamplesAreTrue
  <1> QED BY <1>2, <1>3, <1>4, <1>5

LEMMA SampledStep == Typed /\ Sampled /\ [Next]_vars => Sampled'
  <1> SUFFICES ASSUME Typed, Sampled, [Next]_vars PROVE Sampled'
    OBVIOUS
  <1>1. CASE Exit
    <2>1. /\ main' = "off" /\ Len(results') = 0
          /\ \A k \in 0 .. MaxSeq - 1 : outcome'[k] = "none" /\ command'[k] = "unsent"
      BY <1>1 DEF Exit, ForgetElections, NoOutcome, NoCommand
    <2> QED BY <2>1 DEF Sampled, Honest, Fresh, Numbered, SamplesAreTrue
  <1>2. CASE Start
    <2>1. /\ main = "off" /\ main' = "settling"
          /\ Len(results') = 0 /\ UNCHANGED <<seq, command, outcome>>
      BY <1>2 DEF Start, samples, Typed, Running
    <2> QED BY <2>1 DEF Sampled, Honest, Fresh, Numbered, SamplesAreTrue
  <1>3. CASE \/ Settled \/ Top \/ Duration \/ Interrupt \/ Save \/ Rewrite
             \/ ElectionsSaved \/ Elect \/ UNCHANGED vars
    <2>1. UNCHANGED <<seq, command, outcome, results>>
      BY <1>3 DEF Settled, Top, Duration, Interrupt, Save, Rewrite, ElectionsSaved, Elect,
                  vars, samples
    <2>2. \/ main' = main
          \/ main \in {"settling", "top"} /\ main' \in {"top", "waiting", "save"}
          \/ main' \in {"save", "saveElections", "rewrite", "rewriteElections", "ended"}
      BY <1>3 DEF Settled, Top, Duration, Interrupt, Save, Rewrite, ElectionsSaved,
                  SaveElections, RewriteElections, Elect, vars
    <2> QED BY <2>1, <2>2 DEF Sampled, Honest, Fresh, Numbered, SamplesAreTrue
  <1>4. CASE Submit
    <2>1. /\ main = "waiting" /\ main' = "measuring" /\ UNCHANGED <<seq, outcome, results>>
          /\ command' = [command EXCEPT ![seq] = "pending"]
      BY <1>4 DEF Submit
    <2>2. seq \in 0 .. MaxSeq - 1 /\ outcome[seq] = "none"
      BY <2>1, BoundsAssumption DEF Typed, TypeOK, Running, Sampled, Fresh
    <2>3. \A k \in 0 .. MaxSeq - 1 : k # seq => command'[k] = command[k]
      BY <2>1 DEF Typed, TypeOK
    <2>4. Honest' /\ Fresh'
      BY <2>1, <2>2, <2>3 DEF Sampled, Honest, Fresh
    <2>5. \A i \in 1 .. Len(results) : results[i].seq # seq /\ results[i].seq \in 0 .. MaxSeq - 1
      BY <2>1, <2>2, SampleNumbers DEF Sampled, Numbered
    <2> QED BY <2>1, <2>3, <2>4, <2>5 DEF Sampled, Numbered, SamplesAreTrue
  <1>5. ASSUME NEW k \in 0 .. MaxSeq - 1, Commit(k) \/ Callback(k) PROVE Sampled'
    <2>1. UNCHANGED <<main, seq, results>>
      BY <1>5 DEF Commit, Callback
    <2>2. \A l \in 0 .. MaxSeq - 1 : command[l] = "committed" => command'[l] = "committed"
      BY <1>5 DEF Commit, Callback, Typed, TypeOK
    <2>3. Honest'
      BY <1>5, <2>2 DEF Commit, Callback, Answer, Typed, TypeOK, Sampled, Honest
    <2>4. Fresh'
      BY <1>5, <2>1 DEF Commit, Callback, Typed, TypeOK, Sampled, Fresh
    <2>5. \A i \in 1 .. Len(results) : results[i].seq \in 0 .. MaxSeq - 1
      BY SampleNumbers
    <2> QED BY <2>1, <2>2, <2>3, <2>4, <2>5 DEF Sampled, Numbered, SamplesAreTrue
  <1> QED BY <1>1, <1>2, <1>3, <1>4, <1>5, SampledMeasure DEF Next, MainStep, SyncObjStep
LEMMA SampledInit == Init => Sampled
  <1> SUFFICES ASSUME Init PROVE Sampled
    OBVIOUS
  <1>1. /\ main = "off" /\ Len(results) = 0
        /\ \A k \in 0 .. MaxSeq - 1 : outcome[k] = "none" /\ command[k] = "unsent"
    BY DEF Init, ElectionsInit, NoOutcome, NoCommand
  <1> QED BY <1>1 DEF Sampled, Honest, Fresh, Numbered, SamplesAreTrue

(* Late callbacks, timeouts, lost leaders and interrupts never make a sample *)
(* of a command that was not committed, nor two of one, nor any out of order.*)
THEOREM SamplesTrue == Spec => []SamplesAreTrue
  <1>1. Spec => []Sampled
    BY AlwaysTyped, SampledInit, SampledStep, PTL DEF Spec
  <1>2. Sampled => SamplesAreTrue
    BY DEF Sampled
  <1> QED BY <1>1, <1>2, PTL
-----------------------------------------------------------------------------
(* append_last writes the row after those the file ends with.                *)
LEMMA EndsLonger ==
    ASSUME NEW s \in Seq(Election), NEW count \in Nat, run \in 1 .. MaxRun,
           count + 1 \in 1 .. MaxElection, EndsWith(s, Rows(count))
    PROVE  EndsWith(Append(s, Row(count + 1)), Rows(count + 1))
  <1> DEFINE row == Row(count + 1)
  <1>1. row \in Election /\ row = Row(count + 1)
    BY BoundsAssumption DEF Row, Election
  <1>2. /\ Len(Rows(count)) = count /\ Len(Rows(count + 1)) = count + 1
        /\ \A i \in 1 .. count : Rows(count)[i] = Row(i)
        /\ \A i \in 1 .. count + 1 : Rows(count + 1)[i] = Row(i)
    BY BoundsAssumption, RowsType DEF Rows
  <1> HIDE DEF row
  <1>3. /\ Len(s) \in Nat /\ Len(Append(s, row)) = Len(s) + 1
        /\ Append(s, row)[Len(s) + 1] = row
        /\ \A i \in 1 .. Len(s) : Append(s, row)[i] = s[i]
    BY <1>1
  <1>4. /\ count <= Len(s)
        /\ \A i \in 1 .. count : s[Len(s) - count + i] = Row(i)
    BY <1>2 DEF EndsWith
  <1>5. ASSUME NEW i \in 1 .. count + 1
        PROVE  Append(s, row)[Len(s) + 1 - (count + 1) + i] = Row(i)
    <2>1. CASE i \in 1 .. count
      <3>1. Len(s) - count + i \in 1 .. Len(s) /\ Len(s) + 1 - (count + 1) + i = Len(s) - count + i
        BY <1>3, <1>4, <2>1
      <3> QED BY <1>3, <1>4, <2>1, <3>1
    <2>2. CASE i = count + 1
      <3>1. Len(s) + 1 - (count + 1) + i = Len(s) + 1
        BY <1>3, <2>2
      <3> QED BY <1>1, <1>3, <2>2, <3>1
    <2>3. i \in 1 .. count \/ i = count + 1
      OBVIOUS
    <2> QED BY <2>1, <2>2, <2>3
  <1>6. \A i \in 1 .. count + 1 : Append(s, row)[Len(s) + 1 - (count + 1) + i] = Rows(count + 1)[i]
    BY <1>2, <1>5
  <1>7. Len(Rows(count + 1)) <= Len(Append(s, row))
    BY <1>2, <1>3, <1>4
  <1>8. \A i \in 1 .. Len(Rows(count + 1)) :
           Append(s, row)[Len(Append(s, row)) - Len(Rows(count + 1)) + i] = Rows(count + 1)[i]
    <2>1. Len(Append(s, row)) - Len(Rows(count + 1)) = Len(s) + 1 - (count + 1)
      BY <1>2, <1>3
    <2>2. 1 .. Len(Rows(count + 1)) = 1 .. count + 1
      BY <1>2
    <2> QED BY <1>6, <2>1, <2>2
  <1> QED BY <1>7, <1>8 DEF EndsWith, row

(* Steps that leave the two lists, the file and the run as they are, and do  *)
(* not leave the rewriting of the file.                                      *)
LEMMA ElectionsKept ==
    ASSUME Typed, ElectionsSurvive, UNCHANGED <<run, elected, reporting, snapshot, electionFile>>,
           \/ main' = main
           \/ main' # "ended" /\ main # "off" /\ main \notin {"rewriteElections", "ended"}
    PROVE  ElectionsSurvive'
  <1>1. Reported' = Reported /\ Rows(Reported)' = Rows(Reported) /\ \A i \in 1 .. snapshot : Row(i)' = Row(i)
    BY DEF Reported, Rows, Row
  <1>2. EndsWith(electionFile, Rows(Reported))' <=> EndsWith(electionFile, Rows(Reported))
    BY <1>1 DEF EndsWith
  <1>3. CASE main' = main
    BY <1>1, <1>2, <1>3 DEF ElectionsSurvive, InLoop
  <1>4. CASE main' # "ended" /\ main # "off" /\ main \notin {"rewriteElections", "ended"}
    <2>1. main \in {"settling", "save", "rewrite", "saveElections"} \/ InLoop
            => EndsWith(electionFile, Rows(Reported))'
      BY <1>2 DEF ElectionsSurvive
    <2>2. main \in Place
      BY DEF Typed, TypeOK
    <2>3. main \in {"settling", "save", "rewrite", "saveElections"} \/ InLoop
      BY <1>4, <2>2 DEF Place, InLoop
    <2> QED BY <1>4, <2>1, <2>3 DEF ElectionsSurvive
  <1> QED BY <1>3, <1>4

LEMMA SurviveElect ==
    ASSUME Typed, ElectionsSurvive, Elect
    PROVE  ElectionsSurvive'
  <1>1. main # "off" /\ UNCHANGED <<main, run>> /\ ElectionStep
    BY DEF Elect
  <1>2. CASE Candidate \/ Follower
    BY <1>1, <1>2, ElectionsKept DEF Candidate, Follower, elections
  <1>3. CASE Win
    <2>1. /\ Reported' = Reported /\ UNCHANGED <<run, snapshot, electionFile>>
      BY <1>1, <1>3, BoundsAssumption
      DEF Win, Reported, elections, Typed, TypeOK, ElectionsType
    <2>2. Rows(Reported)' = Rows(Reported) /\ \A i \in 1 .. snapshot : Row(i)' = Row(i)
      BY <2>1 DEF Rows, Row
    <2> QED BY <1>1, <2>1, <2>2 DEF ElectionsSurvive, InLoop
  <1>4. CASE ReportElection
    <2>1. /\ run \in 1 .. MaxRun /\ electionFile \in Seq(Election) /\ elected \in 1 .. MaxElection
          /\ electionFile' = Append(electionFile, Row(elected))
          /\ UNCHANGED <<main, run, elected, snapshot>>
      BY <1>1, <1>4 DEF ReportElection, Typed, TypeOK, ElectionsType, Running
    <2>2. Reported = elected - 1 /\ Reported' = elected
      BY <1>4 DEF ReportElection, Reported
    <2>3. Row(elected) \in Election
      BY <2>1 DEF Row, Election
    <2>4. /\ Rows(Reported)' = Rows(elected)
          /\ \A i \in 1 .. snapshot : Row(i)' = Row(i)
      BY <2>1, <2>2 DEF Rows, Row
    <2>5. EndsWith(electionFile, Rows(Reported)) => EndsWith(electionFile', Rows(Reported)')
      <3>1. elected - 1 \in Nat /\ (elected - 1) + 1 = elected
        BY <2>1, BoundsAssumption
      <3> QED BY <2>1, <2>2, <2>4, <3>1, EndsLonger
    <2>6. \A j \in 1 .. Len(electionFile) : j \in 1 .. Len(electionFile') /\ electionFile'[j] = electionFile[j]
      BY <2>1, <2>3
    <2> QED BY <2>1, <2>4, <2>5, <2>6 DEF ElectionsSurvive, InLoop, EndsWith
  <1> QED BY <1>1, <1>2, <1>3, <1>4 DEF ElectionStep

LEMMA SurviveStep == Typed /\ ElectionsSurvive /\ [Next]_vars => ElectionsSurvive'
  <1> SUFFICES ASSUME Typed, ElectionsSurvive, [Next]_vars PROVE ElectionsSurvive'
    OBVIOUS
  <1>1. CASE Start
    <2>1. /\ main' = "settling" /\ Reported' = 0
          /\ electionFile' \in Seq(Election)
      BY <1>1 DEF Start, raft, elections, Typed, TypeOK, ElectionsType, Running, Reported
    <2>2. Rows(Reported)' = <<>>
      BY <2>1 DEF Rows
    <2>3. EndsWith(electionFile', Rows(Reported)')
      BY <2>1, <2>2 DEF EndsWith
    <2> QED BY <2>1, <2>3 DEF ElectionsSurvive, EndsWith
  <1>2. CASE Exit
    BY <1>2 DEF Exit, ForgetElections, ElectionsSurvive, InLoop
  <1>3. CASE \/ Settled \/ Top \/ Submit \/ TimedOut \/ Failed \/ Measured \/ AppendSample
             \/ Save \/ Rewrite \/ Duration \/ Interrupt \/ UNCHANGED vars
    <2>1. UNCHANGED <<run, elected, reporting, snapshot, electionFile>>
      BY <1>3 DEF Settled, Top, Submit, TimedOut, Failed, Measured, AppendSample, Save, Rewrite,
                  Duration, Interrupt, vars, raft, elections
    <2>2. \/ main' = main
          \/ main' # "ended" /\ main # "off" /\ main \notin {"rewriteElections", "ended"}
      BY <1>3 DEF Settled, Top, Submit, TimedOut, Failed, Measured, AppendSample, Save, Rewrite,
                  Duration, Interrupt, InLoop, vars
    <2> QED BY <2>1, <2>2, ElectionsKept
  <1>4. ASSUME NEW k \in 0 .. MaxSeq - 1, Commit(k) \/ Callback(k) PROVE ElectionsSurvive'
    BY <1>4, ElectionsKept DEF Commit, Callback, raft, elections
  <1>5. CASE SaveElections
    BY <1>5 DEF SaveElections, raft, ElectionsSurvive, InLoop
  <1>6. CASE RewriteElections
    <2>1. /\ main' = "ended" /\ electionFile' = Rows(snapshot) /\ snapshot' = snapshot /\ run' = run
          /\ run \in 1 .. MaxRun /\ snapshot \in 0 .. MaxElection
      BY <1>6 DEF RewriteElections, Typed, TypeOK, ElectionsType, Running
    <2>2. Len(electionFile') = snapshot /\ \A i \in 1 .. snapshot : electionFile'[i] = Row(i)'
      BY <2>1, RowsType DEF Rows, Row
    <2> QED BY <2>1, <2>2 DEF ElectionsSurvive, InLoop
  <1> QED BY <1>1, <1>2, <1>3, <1>4, <1>5, <1>6, SurviveElect
          DEF Next, MainStep, SyncObjStep, ElectionsSaved

(* A reported election is not lost to a save_file that runs at the same time,*)
(* to a crash, or to a second start.                                         *)
THEOREM ElectionsStay == Spec => []ElectionsSurvive
  <1>1. Init => ElectionsSurvive
    BY DEF Init, ElectionsInit, ElectionsSurvive, InLoop
  <1> QED BY <1>1, AlwaysTyped, SurviveStep, PTL DEF Spec
-----------------------------------------------------------------------------
(* The loop goes on from a command only once its outcome or sample is there; *)
(* what append_last writes is the sample of the present one.                 *)
Complete == SamplesComplete /\ (main = "appending" => HasSample(seq))

(* A sample that is recorded leaves the earlier ones in place.               *)
LEMMA RecordAdds ==
    ASSUME Typed, main = "measuring", NEW kind \in {"latency", "TIMEOUT"}, Record(kind)
    PROVE  /\ \E i \in 1 .. Len(results') : results'[i].seq = seq
           /\ \A k : HasSample(k) => HasSample(k)'
  <1> DEFINE sample == [run |-> run, seq |-> seq, kind |-> kind]
  <1>1. sample.seq = seq /\ sample \in Sample
    BY BoundsAssumption DEF Typed, TypeOK, Running, Sample
  <1>2. results \in Seq(Sample) /\ results' = Append(results, sample) /\ Len(results) \in Nat
    BY DEF Typed, TypeOK, Record
  <1> HIDE DEF sample
  <1>3. /\ Len(results') = Len(results) + 1 /\ results'[Len(results) + 1] = sample
        /\ \A i \in 1 .. Len(results) : results'[i] = results[i] /\ i \in 1 .. Len(results')
        /\ Len(results) + 1 \in 1 .. Len(results')
    BY <1>1, <1>2
  <1> QED BY <1>1, <1>3 DEF HasSample

LEMMA CompleteStep == Typed /\ Complete /\ [Next]_vars => Complete'
  <1> SUFFICES ASSUME Typed, Complete, [Next]_vars PROVE Complete'
    OBVIOUS
  <1>1. seq \in Nat /\ seq \in 0 .. MaxSeq
    BY BoundsAssumption DEF Typed, TypeOK
  <1>2. \A k \in 0 .. seq - 1 : HasSample(k) \/ outcome[k] = "failure"
    BY DEF Complete, SamplesComplete
  <1>3. CASE Exit
    BY <1>3 DEF Exit, ForgetElections, Complete, SamplesComplete
  <1>4. CASE \/ Start \/ Settled \/ Top \/ Submit \/ Duration \/ Interrupt \/ Save
             \/ Rewrite \/ ElectionsSaved \/ Elect \/ UNCHANGED vars
    <2>1. /\ UNCHANGED <<seq, outcome, results>>
          /\ main' = "appending" => main = "appending"
      BY <1>4 DEF Start, Settled, Top, Submit, Duration, Interrupt, Save, Rewrite,
                  ElectionsSaved, SaveElections, RewriteElections, Elect, vars, samples
    <2> QED BY <1>2, <2>1 DEF Complete, SamplesComplete, HasSample
  <1>5. CASE TimedOut
    <2>1. /\ seq' = seq + 1 /\ main' = "top" /\ outcome' = outcome
          /\ main = "measuring" /\ Record("TIMEOUT")
      BY <1>5 DEF TimedOut
    <2>2. /\ \A k : HasSample(k) => HasSample(k)'
          /\ \E i \in 1 .. Len(results') : results'[i].seq = seq
      BY <2>1, RecordAdds
    <2>3. ASSUME NEW k \in 0 .. seq PROVE HasSample(k)' \/ outcome'[k] = "failure"
      <3>1. CASE k = seq
        BY <2>2, <3>1 DEF HasSample
      <3>2. CASE k \in 0 .. seq - 1
        BY <1>2, <2>1, <2>2, <3>2
      <3> QED BY <1>1, <3>1, <3>2
    <2> QED BY <1>1, <2>1, <2>3 DEF Complete, SamplesComplete
  <1>6. CASE Failed
    <2>1. /\ seq' = seq + 1 /\ main' = "top" /\ UNCHANGED <<outcome, results>>
          /\ outcome[seq] = "failure"
      BY <1>6 DEF Failed
    <2>2. ASSUME NEW k \in 0 .. seq PROVE HasSample(k)' \/ outcome'[k] = "failure"
      <3>1. k = seq \/ k \in 0 .. seq - 1
        BY <1>1
      <3> QED BY <1>2, <2>1, <3>1 DEF HasSample
    <2> QED BY <1>1, <2>1, <2>2 DEF Complete, SamplesComplete
  <1>7. CASE Measured
    <2>1. /\ UNCHANGED <<seq, outcome>>
          /\ main = "measuring" /\ Record("latency")
      BY <1>7 DEF Measured
    <2>2. /\ \A k : HasSample(k) => HasSample(k)'
          /\ \E i \in 1 .. Len(results') : results'[i].seq = seq
      BY <2>1, RecordAdds
    <2>3. SamplesComplete'
      BY <1>2, <2>1, <2>2 DEF SamplesComplete
    <2>4. HasSample(seq)'
      BY <2>1, <2>2 DEF HasSample
    <2> QED BY <2>3, <2>4 DEF Complete
  <1>8. CASE AppendSample
    <2>1. /\ seq' = seq + 1 /\ main' = "top" /\ UNCHANGED <<outcome, results>>
          /\ HasSample(seq)
      BY <1>8 DEF AppendSample, Complete
    <2>2. ASSUME NEW k \in 0 .. seq PROVE HasSample(k)' \/ outcome'[k] = "failure"
      <3>1. k = seq \/ k \in 0 .. seq - 1
        BY <1>1
      <3> QED BY <1>2, <2>1, <3>1 DEF HasSample
    <2> QED BY <1>1, <2>1, <2>2 DEF Complete, SamplesComplete
  <1>9. ASSUME NEW k \in 0 .. MaxSeq - 1, Commit(k) \/ Callback(k) PROVE Complete'
    <2>1. UNCHANGED <<main, seq, results>>
      BY <1>9 DEF Commit, Callback
    <2>2. \A l \in 0 .. MaxSeq - 1 : outcome[l] = "failure" => outcome'[l] = "failure"
      BY <1>9 DEF Commit, Callback, Typed, TypeOK
    <2>3. \A l \in 0 .. seq - 1 : l \in 0 .. MaxSeq - 1
      BY <1>1, BoundsAssumption
    <2> QED BY <1>2, <2>1, <2>2, <2>3 DEF Complete, SamplesComplete, HasSample
  <1> QED BY <1>3, <1>4, <1>5, <1>6, <1>7, <1>8, <1>9 DEF Next, MainStep, SyncObjStep

(* The samples are complete: only commands that were reported as failed are  *)
(* missing, whatever is interrupted, late or censored.                       *)
THEOREM NoneLeftOut == Spec => []SamplesComplete
  <1>1. Init => Complete
    BY DEF Init, ElectionsInit, Complete, SamplesComplete
  <1>2. Complete => SamplesComplete
    BY DEF Complete
  <1> QED BY <1>1, <1>2, AlwaysTyped, CompleteStep, PTL DEF Spec
-----------------------------------------------------------------------------
(* What makes SamplesSurvive inductive: a process begins without samples,    *)
(* the sample being appended is a latency, and a file that has been replaced *)
(* stays as it is.                                                           *)
Appending ==
    /\ main = "settling" => results = <<>>
    /\ main = "appending" => results[Len(results)].kind = "latency"
    /\ main \in {"saveElections", "rewriteElections"} /\ results # <<>> => file = results

Written == SamplesSurvive /\ Appending

LEMMA Untouched ==
    ASSUME UNCHANGED <<results, file>>, Appended' = Appended, NEW n, OnDisk(n)
    PROVE  OnDisk(n)'
  <1>1. Latencies' = Latencies /\ LastRows(n)' = LastRows(n)
    BY DEF Latencies, LastRows
  <1> QED BY <1>1 DEF OnDisk

(* What the loop records does not touch the file: a timeout is not a latency,*)
(* and a latency has yet to be appended.                                     *)
LEMMA RecordedKept ==
    ASSUME Typed, NEW kind \in {"latency", "TIMEOUT"}, main = "measuring", Record(kind),
           kind = "TIMEOUT" => main' # "appending", kind = "latency" => main' = "appending",
           UNCHANGED file, NEW n, OnDisk(n)
    PROVE  OnDisk(n)'
  <1> DEFINE sample == [run |-> run, seq |-> seq, kind |-> kind]
  <1>1. sample.kind = kind /\ sample \in Sample
    BY BoundsAssumption DEF Typed, TypeOK, Running, Sample
  <1>2. results \in Seq(Sample) /\ results' = Append(results, sample) /\ Len(results) \in Nat
    BY DEF Typed, TypeOK, Record
  <1> HIDE DEF sample
  <1>3. /\ Len(results') = Len(results) + 1 /\ results'[Len(results) + 1] = sample
        /\ \A i \in 1 .. Len(results) : results'[i] = results[i]
    BY <1>1, <1>2
  <1>4. Latencies' = Latencies
    <2>1. Appended = Len(results)
      BY DEF Appended
    <2>2. CASE kind = "latency"
      <3>1. Appended' = Len(results)
        BY <1>2, <1>3, <2>2 DEF Appended
      <3> QED BY <1>2, <1>3, <2>1, <3>1 DEF Latencies
    <2>3. CASE kind = "TIMEOUT"
      <3>1. Appended' = Len(results) + 1
        BY <1>3, <2>3 DEF Appended
      <3>2. {j \in 1 .. Len(results) + 1 : results'[j].kind = "latency"}
              = {j \in 1 .. Len(results) : results[j].kind = "latency"}
        BY <1>1, <1>2, <1>3, <2>3
      <3> QED BY <1>3, <2>1, <3>1, <3>2 DEF Latencies
    <2> QED BY <2>2, <2>3
  <1>5. LastRows(n)' = LastRows(n)
    BY DEF LastRows
  <1> QED BY <1>4, <1>5 DEF OnDisk

(* append_last adds the latency recorded last after all earlier ones.        *)
LEMMA AppendedNext ==
    ASSUME Typed, Sampled, Appending, AppendSample, NEW n \in 0 .. Len(file), OnDisk(n)
    PROVE  n + 1 \in 0 .. Len(file') /\ OnDisk(n + 1)'
  <1> DEFINE last == results[Len(results)]
             size == Len(results)
             end == Len(file)
  <1>1. /\ results \in Seq(Sample) /\ file \in Seq(Sample)
        /\ size \in Nat /\ size >= 1 /\ end \in Nat
    BY DEF Typed, TypeOK, Running, AppendSample
  <1>2. last \in Sample /\ last.kind = "latency"
    BY <1>1 DEF Appending, AppendSample
  <1>3. \A i \in 1 .. size : results[i].seq \in Int
    BY SampleNumbers
  <1>4. Appended = size - 1 /\ Appended' = size
    BY DEF Appended, AppendSample
  <1>5. file' = Append(file, last) /\ results' = results
    BY DEF AppendSample
  <1> HIDE DEF last
  <1>6. /\ Len(file') = end + 1 /\ file'[end + 1] = last
        /\ \A i \in 1 .. end : file'[i] = file[i]
    BY <1>1, <1>2, <1>5
  <1>7. {j \in 1 .. size : results[j].kind = "latency"}
          = {j \in 1 .. size - 1 : results[j].kind = "latency"} \cup {size}
    BY <1>1, <1>2 DEF last
  <1>8. Latencies' = Latencies \cup {last}
    BY <1>4, <1>5, <1>7 DEF Latencies, last
  <1>9. LastRows(n) = end - n + 1 .. end /\ LastRows(n + 1)' = LastRows(n) \cup {end + 1}
    BY <1>1, <1>6 DEF LastRows
  <1>10. LastRows(n) \subseteq 1 .. end
    BY <1>1, <1>9
  <1>11. \A i \in LastRows(n) : file'[i] = file[i]
    BY <1>6, <1>10
  <1>12. {file'[i] : i \in LastRows(n + 1)'} = {file[i] : i \in LastRows(n)} \cup {last}
    BY <1>6, <1>9, <1>11
  <1>13. ASSUME NEW i \in LastRows(n) PROVE file[i].seq < last.seq
    <2>1. file[i] \in Latencies
      BY DEF OnDisk
    <2>2. PICK k \in 1 .. size - 1 : file[i] = results[k]
      BY <1>4, <2>1 DEF Latencies
    <2>3. k \in 1 .. size /\ size \in 1 .. size /\ k < size
      BY <1>1
    <2> QED BY <2>2, <2>3 DEF Sampled, SamplesAreTrue, last
  <1>14. ASSUME NEW i \in LastRows(n + 1)', NEW j \in LastRows(n + 1)', i < j
         PROVE  file'[i].seq < file'[j].seq
    <2>1. i \in LastRows(n)
      BY <1>1, <1>9, <1>14
    <2>2. CASE j \in LastRows(n)
      BY <1>11, <1>14, <2>1, <2>2 DEF OnDisk
    <2>3. CASE j = end + 1
      BY <1>6, <1>11, <1>13, <2>1, <2>3
    <2> QED BY <1>9, <2>2, <2>3
  <1>15. OnDisk(n + 1)'
    BY <1>8, <1>12, <1>14 DEF OnDisk
  <1> QED BY <1>1, <1>6, <1>15

LEMMA WrittenStep == Typed /\ Sampled /\ Written /\ [Next]_vars => Written'
  <1> SUFFICES ASSUME Typed, Sampled, Written, [Next]_vars PROVE Written'
    OBVIOUS
  <1>1. CASE Start \/ Exit
    BY <1>1 DEF Start, Exit, ForgetElections, samples, Written, SamplesSurvive, Appending,
                InLoop, Typed, Running
  <1>2. CASE Settled
    <2>1. results' = <<>> /\ main' = "top" /\ file' = file /\ Len(file) \in Nat
      BY <1>2 DEF Settled, samples, Written, Appending, Typed, TypeOK
    <2>2. Appended' = 0 /\ Latencies' = {}
      BY <2>1 DEF Appended, Latencies
    <2>3. LastRows(0)' = {}
      BY <2>1 DEF LastRows
    <2>4. OnDisk(0)'
      BY <2>2, <2>3 DEF OnDisk
    <2> QED BY <2>1, <2>4 DEF Written, SamplesSurvive, Appending
  <1>3. CASE \/ Top \/ Duration \/ Submit \/ Failed \/ Interrupt \/ Elect \/ UNCHANGED vars
             \/ \E k \in 0 .. MaxSeq - 1 : Commit(k) \/ Callback(k)
    <2>1. UNCHANGED <<results, file>>
      BY <1>3 DEF Top, Duration, Submit, Failed, Interrupt, Elect, Commit, Callback, vars, samples
    <2>2. \/ main' = main
          \/ main \in {"top", "waiting", "measuring"} /\ main' \in {"top", "waiting", "measuring"}
          \/ main' = "save"
      BY <1>3 DEF Top, Duration, Submit, Failed, Interrupt, Elect, Commit, Callback, vars
    <2>3. CASE main' = "save"
      BY <2>1, <2>3 DEF Written, SamplesSurvive, Appending, InLoop
    <2>4. CASE main' # "save"
      <3>1. Appended' = Appended /\ (InLoop' => InLoop)
        BY <2>1, <2>2, <2>4 DEF Appended, InLoop
      <3>2. InLoop' => \E n \in 0 .. Len(file') : OnDisk(n)'
        <4> SUFFICES ASSUME InLoop' PROVE \E n \in 0 .. Len(file') : OnDisk(n)'
          OBVIOUS
        <4>1. PICK n \in 0 .. Len(file) : OnDisk(n)
          BY <3>1 DEF Written, SamplesSurvive
        <4>2. OnDisk(n)'
          BY <2>1, <3>1, <4>1, Untouched
        <4> QED BY <2>1, <4>2
      <3> QED BY <2>1, <2>2, <2>4, <3>2 DEF Written, SamplesSurvive, Appending
    <2> QED BY <2>3, <2>4
  <1>4. CASE TimedOut \/ Measured
    <2>1. main = "measuring" /\ file' = file /\ main' \in {"top", "appending"}
      BY <1>4 DEF TimedOut, Measured
    <2>2. PICK n \in 0 .. Len(file) : OnDisk(n)
      BY <2>1 DEF Written, SamplesSurvive, InLoop
    <2>3. OnDisk(n)'
      BY <1>4, <2>1, <2>2, RecordedKept DEF TimedOut, Measured
    <2>4. SamplesSurvive'
      BY <2>1, <2>2, <2>3 DEF SamplesSurvive
    <2>5. main' = "appending" => results'[Len(results')].kind = "latency"
      <3> SUFFICES ASSUME main' = "appending" PROVE results'[Len(results')].kind = "latency"
        OBVIOUS
      <3> DEFINE sample == [run |-> run, seq |-> seq, kind |-> "latency"]
      <3>1. sample \in Sample /\ sample.kind = "latency"
        BY <2>1, BoundsAssumption DEF Typed, TypeOK, Running, Sample
      <3>2. results' = Append(results, sample) /\ results \in Seq(Sample)
        BY <1>4 DEF TimedOut, Measured, Record, Typed, TypeOK
      <3> HIDE DEF sample
      <3> QED BY <3>1, <3>2
    <2> QED BY <2>1, <2>4, <2>5 DEF Written, Appending
  <1>5. CASE AppendSample
    <2>1. PICK n \in 0 .. Len(file) : OnDisk(n)
      BY <1>5 DEF AppendSample, Written, SamplesSurvive, InLoop
    <2>2. n + 1 \in 0 .. Len(file') /\ OnDisk(n + 1)'
      BY <1>5, <2>1, AppendedNext DEF Written
    <2>3. main' = "top"
      BY <1>5 DEF AppendSample
    <2> QED BY <2>2, <2>3 DEF Written, SamplesSurvive, Appending
  <1>6. CASE Save \/ Rewrite \/ ElectionsSaved
    BY <1>6 DEF Save, Rewrite, ElectionsSaved, SaveElections, RewriteElections, samples,
                Written, SamplesSurvive, Appending, InLoop
  <1> QED BY <1>1, <1>2, <1>3, <1>4, <1>5, <1>6 DEF Next, MainStep, SyncObjStep

(* Whenever the process is killed in its loop, the file ends with every      *)
(* latency measured so far but the one being appended, in their order; and   *)
(* an orderly end leaves all samples in it.                                  *)
THEOREM SamplesStay == Spec => []SamplesSurvive
  <1>1. Init => Written
    BY DEF Init, ElectionsInit, Written, SamplesSurvive, Appending, InLoop
  <1>2. Spec => []Sampled
    BY AlwaysTyped, SampledInit, SampledStep, PTL DEF Spec
  <1>3. Written => SamplesSurvive
    BY DEF Written
  <1> QED BY <1>1, <1>2, <1>3, AlwaysTyped, WrittenStep, PTL DEF Spec
=============================================================================
