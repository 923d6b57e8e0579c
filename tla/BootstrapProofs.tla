-------------------------- MODULE BootstrapProofs --------------------------
(* Proofs about Bootstrap, for any number of rounds, elections and starts.   *)
(* The argument: the main thread passes from one round to the next only when *)
(* the thread of the last SyncObj has ended, which leaves neither a bound    *)
(* port nor an election that is still to be appended; so that what it reads  *)
(* at the end is complete, and nothing is appended to the file it replaces.  *)
EXTENDS Bootstrap, TLAPS

(* What the types leave open. *)
Counted ==
    /\ main # "off" => run \in 1 .. MaxRun
    /\ main = "off" => elected = 0
    /\ reporting => elected \in 1 .. MaxElection
    /\ completed <= round
    /\ main = "waiting" => completed < round

Typed == TypeOK /\ Counted

(* A thread that has ended left nothing behind; and in between two rounds,   *)
(* as after all of them, it has ended.                                       *)
ThreadGone ==
    /\ ~alive => ~bound /\ ~reporting
    /\ main \in {"off", "round", "cooldown"} => ~alive
    /\ main \in {"saveElections", "rewriteElections", "ended"} /\ ~interrupted => ~alive

LEMMA RowsType ==
    ASSUME run \in 1 .. MaxRun, NEW count \in 0 .. MaxElection
    PROVE  Rows(count) \in Seq(Election) /\ Len(Rows(count)) = count
  <1>1. \A i \in 1 .. count : Row(i) \in Election
    BY BoundsAssumption DEF Row, Election
  <1> QED BY <1>1, BoundsAssumption DEF Rows

LEMMA TypedInit == Init => Typed
  <1> SUFFICES ASSUME Init PROVE Typed
    OBVIOUS
  <1>1. ElectionsType
    <2>1. electionFile \in Seq(Election)
      BY DEF Init, ElectionsInit
    <2>2. leader \in BOOLEAN /\ reporting \in BOOLEAN /\ role = "follower"
      BY DEF Init, ElectionsInit
    <2>3. run \in 0 .. MaxRun /\ elected \in 0 .. MaxElection /\ snapshot \in 0 .. MaxElection
      BY BoundsAssumption DEF Init, ElectionsInit
    <2> QED BY <2>1, <2>2, <2>3 DEF ElectionsType
  <1>2. TypeOK
    <2>1. main = "off" /\ round \in 0 .. Rounds /\ completed \in 0 .. Rounds
      BY BoundsAssumption DEF Init, ElectionsInit
    <2>2. alive \in BOOLEAN /\ closing \in BOOLEAN /\ bound \in BOOLEAN /\ interrupted \in BOOLEAN
      BY DEF Init
    <2> QED BY <1>1, <2>1, <2>2 DEF TypeOK, Place
  <1> QED BY <1>2 DEF Init, ElectionsInit, Typed, Counted

LEMMA TypedElect == ASSUME Typed, ThreadGone, Elect PROVE Typed'
  <1>1. alive /\ main # "off" /\ UNCHANGED <<main, run, rounds, instance>> /\ ElectionStep
    BY DEF Elect, ThreadGone
  <1>2. CASE Candidate \/ Follower
    <2>1. /\ role' \in {"follower", "candidate"} /\ leader' \in BOOLEAN
          /\ UNCHANGED <<elected, reporting, snapshot, electionFile>>
      BY <1>2 DEF Candidate, Follower, elections
    <2>2. ElectionsType'
      BY <1>1, <2>1 DEF Typed, TypeOK, ElectionsType
    <2> QED BY <1>1, <2>1, <2>2 DEF Typed, TypeOK, Counted, rounds, instance
  <1>3. CASE Win
    BY <1>1, <1>3, BoundsAssumption
    DEF Win, Typed, TypeOK, ElectionsType, Counted, rounds, instance, elections
  <1>4. CASE ReportElection
    <2>1. Row(elected) \in Election
      BY <1>1, <1>4 DEF ReportElection, Typed, Counted, Row, Election
    <2>2. electionFile' \in Seq(Election)
      BY <1>4, <2>1 DEF ReportElection, Typed, TypeOK, ElectionsType
    <2> QED BY <1>1, <1>4, <2>2
            DEF ReportElection, Typed, TypeOK, ElectionsType, Counted, rounds, instance
  <1> QED BY <1>1, <1>2, <1>3, <1>4 DEF ElectionStep

LEMMA TypedElectionsSaved == ASSUME Typed, ElectionsSaved PROVE Typed'
  <1>1. UNCHANGED <<rounds, instance>> /\ run' = run
    BY DEF ElectionsSaved, SaveElections, RewriteElections
  <1>2. CASE SaveElections
    BY <1>1, <1>2 DEF SaveElections, Typed, TypeOK, Place, ElectionsType, Counted,
                      rounds, instance, raft
  <1>3. CASE RewriteElections
    <2>1. electionFile' \in Seq(Election)
      BY <1>3, RowsType DEF RewriteElections, Typed, TypeOK, ElectionsType, Counted
    <2> QED BY <1>1, <1>3, <2>1
            DEF RewriteElections, Typed, TypeOK, Place, ElectionsType, Counted,
                rounds, instance, raft
  <1> QED BY <1>2, <1>3 DEF ElectionsSaved

(* The steps between and in the rounds. *)
LEMMA TypedRounds ==
    ASSUME Typed, ThreadGone,
           \/ NewInstance \/ LeaderFound \/ RoundSkipped \/ Destroyed \/ Cooldown
           \/ RoundsDone \/ Interrupt \/ Bind \/ ThreadEnds
    PROVE  Typed'
  <1>1. UNCHANGED <<run, elected, reporting, snapshot, electionFile>>
    BY DEF NewInstance, LeaderFound, RoundSkipped, Destroyed, Cooldown, RoundsDone,
           Interrupt, Bind, ThreadEnds, raft, elections
  <1>2. role' \in {"follower", "candidate", "leader"} /\ leader' \in BOOLEAN
    BY DEF NewInstance, LeaderFound, RoundSkipped, Destroyed, Cooldown, RoundsDone,
           Interrupt, Bind, ThreadEnds, raft, Typed, TypeOK, ElectionsType
  <1>3. ElectionsType'
    BY <1>1, <1>2 DEF Typed, TypeOK, ElectionsType
  <1>4. main' \in Place /\ main # "off" /\ main' # "off"
    BY DEF NewInstance, LeaderFound, RoundSkipped, Destroyed, Cooldown, RoundsDone,
           Interrupt, Bind, ThreadEnds, Place, Typed, TypeOK, ThreadGone
  <1>5. /\ alive' \in BOOLEAN /\ closing' \in BOOLEAN /\ bound' \in BOOLEAN
        /\ interrupted' \in BOOLEAN
    BY DEF NewInstance, LeaderFound, RoundSkipped, Destroyed, Cooldown, RoundsDone,
           Interrupt, Bind, ThreadEnds, rounds, instance, Typed, TypeOK
  <1>6. /\ round' \in 0 .. Rounds /\ completed' \in 0 .. Rounds /\ completed' <= round'
        /\ main' = "waiting" => completed' < round'
    BY BoundsAssumption
    DEF NewInstance, LeaderFound, RoundSkipped, Destroyed, Cooldown, RoundsDone,
        Interrupt, Bind, ThreadEnds, rounds, Typed, TypeOK, Counted
  <1> QED BY <1>1, <1>3, <1>4, <1>5, <1>6 DEF Typed, TypeOK, Counted

LEMMA TypedStep == Typed /\ ThreadGone /\ [Next]_vars => Typed'
  <1> SUFFICES ASSUME Typed, ThreadGone, [Next]_vars PROVE Typed'
    OBVIOUS
  <1>1. CASE Start
    <2>1. /\ main' = "round" /\ run' = run + 1 /\ run < MaxRun
          /\ UNCHANGED <<role, leader, elected, reporting, snapshot, electionFile, rounds, instance>>
      BY <1>1 DEF Start, raft, elections
    <2>2. run' \in 1 .. MaxRun
      BY <2>1, BoundsAssumption DEF Typed, TypeOK, ElectionsType
    <2>3. ElectionsType'
      BY <2>1, <2>2 DEF Typed, TypeOK, ElectionsType
    <2> QED BY <2>1, <2>2, <2>3 DEF Typed, TypeOK, Place, Counted, rounds, instance
  <1>2. CASE Exit
    <2>1. /\ main' = "off" /\ role' = "follower" /\ elected' = 0 /\ snapshot' = 0
          /\ run' = run /\ electionFile' = electionFile /\ ~reporting'
      BY <1>2 DEF Exit, ForgetElections
    <2>2. leader' \in BOOLEAN /\ reporting' \in BOOLEAN
      BY <1>2 DEF Exit, ForgetElections
    <2>3. ElectionsType'
      BY <2>1, <2>2, BoundsAssumption DEF Typed, TypeOK, ElectionsType
    <2>4. /\ alive' \in BOOLEAN /\ closing' \in BOOLEAN /\ bound' \in BOOLEAN
          /\ interrupted' \in BOOLEAN
      BY <1>2 DEF Exit
    <2>5. round' = 0 /\ completed' = 0
      BY <1>2 DEF Exit
    <2>6. TypeOK'
      BY <2>1, <2>3, <2>4, <2>5, BoundsAssumption DEF TypeOK, Place
    <2> QED BY <2>1, <2>5, <2>6 DEF Typed, Counted
  <1>3. CASE UNCHANGED vars
    BY <1>3 DEF vars, Typed, TypeOK, ElectionsType, Counted, rounds, instance, raft, elections
  <1> QED BY <1>1, <1>2, <1>3, TypedRounds, TypedElectionsSaved, TypedElect
          DEF Next, MainStep

LEMMA GoneStep == Typed /\ ThreadGone /\ [Next]_vars => ThreadGone'
  <1> SUFFICES ASSUME Typed, ThreadGone, [Next]_vars PROVE ThreadGone'
    OBVIOUS
  <1>1. CASE Elect
    BY <1>1 DEF Elect, ThreadGone, rounds, instance
  <1>2. CASE ElectionsSaved
    BY <1>2 DEF ElectionsSaved, SaveElections, RewriteElections, ThreadGone, rounds,
                instance, raft
  <1>3. CASE Start \/ Exit
    BY <1>3 DEF Start, Exit, ForgetElections, ThreadGone, rounds, instance, raft
  <1>4. CASE \/ NewInstance \/ LeaderFound \/ RoundSkipped \/ Destroyed \/ Cooldown
             \/ RoundsDone \/ Interrupt \/ Bind \/ ThreadEnds \/ UNCHANGED vars
    BY <1>4 DEF NewInstance, LeaderFound, RoundSkipped, Destroyed, Cooldown, RoundsDone,
                Interrupt, Bind, ThreadEnds, vars, ThreadGone, rounds, instance, raft
  <1> QED BY <1>1, <1>2, <1>3, <1>4 DEF Next, MainStep

LEMMA AlwaysGone == Spec => [](Typed /\ ThreadGone)
  <1>1. Init => ThreadGone
    BY DEF Init, ElectionsInit, ThreadGone
  <1> QED BY <1>1, TypedInit, TypedStep, GoneStep, PTL DEF Spec

(* The variables keep their types, and no more rounds are counted as         *)
(* completed than have begun, interrupts and starts included.                *)
THEOREM TypeCorrect == Spec => [](TypeOK /\ completed <= round)
  <1>1. Typed => TypeOK /\ completed <= round
    BY DEF Typed, Counted
  <1> QED BY <1>1, AlwaysGone, PTL

(* Whenever the main thread makes the next SyncObj, or replaces the file at  *)
(* the end of an uninterrupted run, no thread, callback or bound port of an  *)
(* earlier one is left.                                                      *)
THEOREM AtMostOne == Spec => []OneInstance
  <1>1. ThreadGone => OneInstance
    BY DEF ThreadGone, OneInstance
  <1> QED BY <1>1, AlwaysGone, PTL
-----------------------------------------------------------------------------
(* append_last writes the row after those the file ends with.                *)
LEMMA EndsLonger ==
    ASSUME NEW s \in Seq(Election), NEW count \in Nat, run \in 1 .. MaxRun,
           count + 1 \in 1 .. MaxElection, EndsWith(s, Rows(count))
    PROVE  EndsWith(Append(s, Row(count + 1)), Rows(count + 1))
  <1> DEFINE row == Row(count + 1)
  <1>1. row \in Election /\ row = Row(count + 1)
    BY BoundsAssumption DEF Row, Election
  <1>2. /\ Len(Rows(count)) = count /\ Len(Rows(count + 1)) = count + 1
        /\ \A i \in 1 .. count : Rows(count)[i] = Row(i)
        /\ \A i \in 1 .. count + 1 : Rows(count + 1)[i] = Row(i)
    BY BoundsAssumption, RowsType DEF Rows
  <1> HIDE DEF row
  <1>3. /\ Len(s) \in Nat /\ Len(Append(s, row)) = Len(s) + 1
        /\ Append(s, row)[Len(s) + 1] = row
        /\ \A i \in 1 .. Len(s) : Append(s, row)[i] = s[i]
    BY <1>1
  <1>4. /\ count <= Len(s)
        /\ \A i \in 1 .. count : s[Len(s) - count + i] = Row(i)
    BY <1>2 DEF EndsWith
  <1>5. ASSUME NEW i \in 1 .. count + 1
        PROVE  Append(s, row)[Len(s) + 1 - (count + 1) + i] = Row(i)
    <2>1. CASE i \in 1 .. count
      <3>1. Len(s) - count + i \in 1 .. Len(s) /\ Len(s) + 1 - (count + 1) + i = Len(s) - count + i
        BY <1>3, <1>4, <2>1
      <3> QED BY <1>3, <1>4, <2>1, <3>1
    <2>2. CASE i = count + 1
      <3>1. Len(s) + 1 - (count + 1) + i = Len(s) + 1
        BY <1>3, <2>2
      <3> QED BY <1>1, <1>3, <2>2, <3>1
    <2>3. i \in 1 .. count \/ i = count + 1
      OBVIOUS
    <2> QED BY <2>1, <2>2, <2>3
  <1>6. \A i \in 1 .. count + 1 : Append(s, row)[Len(s) + 1 - (count + 1) + i] = Rows(count + 1)[i]
    BY <1>2, <1>5
  <1>7. Len(Rows(count + 1)) <= Len(Append(s, row))
    BY <1>2, <1>3, <1>4
  <1>8. \A i \in 1 .. Len(Rows(count + 1)) :
           Append(s, row)[Len(Append(s, row)) - Len(Rows(count + 1)) + i] = Rows(count + 1)[i]
    <2>1. Len(Append(s, row)) - Len(Rows(count + 1)) = Len(s) + 1 - (count + 1)
      BY <1>2, <1>3
    <2>2. 1 .. Len(Rows(count + 1)) = 1 .. count + 1
      BY <1>2
    <2> QED BY <1>6, <2>1, <2>2
  <1> QED BY <1>7, <1>8 DEF EndsWith, row

InRounds == {"round", "waiting", "destroying", "cooldown"}

(* save_file has read all elections, unless it was interrupted.              *)
SnapshotComplete ==
    main = "rewriteElections" /\ ~interrupted => snapshot = elected

Saved == AllRoundsSaved /\ SnapshotComplete

(* Steps that change neither the list nor the file.                          *)
LEMMA RoundsKept ==
    ASSUME Saved, UNCHANGED <<run, elected, reporting, snapshot, electionFile>>,
           \/ main' = main /\ interrupted' = interrupted
           \/ main' = "saveElections"
           \/ main \in InRounds /\ main' \in InRounds
    PROVE  Saved'
  <1>1. /\ Rows(Reported)' = Rows(Reported) /\ Rows(elected)' = Rows(elected)
    BY DEF Reported, Rows, Row
  <1>2. EndsWith(electionFile, Rows(Reported))' <=> EndsWith(electionFile, Rows(Reported))
    BY <1>1 DEF EndsWith
  <1>3. AllRoundsSaved'
    BY <1>1, <1>2 DEF Saved, AllRoundsSaved, InRounds
  <1>4. SnapshotComplete'
    BY DEF Saved, SnapshotComplete, InRounds
  <1> QED BY <1>3, <1>4 DEF Saved

LEMMA SavedElect == ASSUME Typed, ThreadGone, Saved, Elect PROVE Saved'
  <1>1. alive /\ UNCHANGED <<main, run, interrupted>> /\ ElectionStep
    BY DEF Elect, rounds
  <1>2. CASE Candidate \/ Follower
    BY <1>1, <1>2, RoundsKept DEF Candidate, Follower, elections
  <1>3. interrupted \/ main \notin {"saveElections", "rewriteElections", "ended"}
    BY <1>1 DEF ThreadGone
  <1>4. SnapshotComplete'
    BY <1>1, <1>3 DEF SnapshotComplete
  <1>5. CASE Win
    <2>1. Reported' = Reported /\ UNCHANGED electionFile
      BY <1>5, BoundsAssumption DEF Win, Reported, elections, Typed, TypeOK, ElectionsType
    <2>2. Rows(Reported)' = Rows(Reported)
      BY <1>1, <2>1 DEF Rows, Row
    <2> QED BY <1>1, <1>3, <1>4, <2>1, <2>2 DEF Saved, AllRoundsSaved
  <1>6. CASE ReportElection
    <2>1. /\ run \in 1 .. MaxRun /\ electionFile \in Seq(Election)
          /\ elected \in 1 .. MaxElection
          /\ electionFile' = Append(electionFile, Row(elected))
          /\ UNCHANGED elected
      BY <1>1, <1>6 DEF ReportElection, Typed, TypeOK, ElectionsType, Counted, ThreadGone
    <2>2. Reported = elected - 1 /\ Reported' = elected
      BY <1>6 DEF ReportElection, Reported
    <2>3. Rows(Reported)' = Rows(elected)
      BY <1>1, <2>2 DEF Rows, Row
    <2>4. EndsWith(electionFile, Rows(Reported)) => EndsWith(electionFile', Rows(Reported)')
      <3>1. elected - 1 \in Nat /\ (elected - 1) + 1 = elected
        BY <2>1, BoundsAssumption
      <3> QED BY <2>1, <2>2, <2>3, <3>1, EndsLonger
    <2> QED BY <1>1, <1>3, <1>4, <2>4 DEF Saved, AllRoundsSaved, EndsWith
  <1> QED BY <1>1, <1>2, <1>5, <1>6 DEF ElectionStep

LEMMA SavedStep == Typed /\ ThreadGone /\ Saved /\ [Next]_vars => Saved'
  <1> SUFFICES ASSUME Typed, ThreadGone, Saved, [Next]_vars PROVE Saved'
    OBVIOUS
  <1>1. CASE Start
    <2>1. /\ main' = "round" /\ Reported' = 0 /\ electionFile' \in Seq(Election)
      BY <1>1 DEF Start, raft, elections, Typed, TypeOK, ElectionsType, Counted, ThreadGone,
                  Reported
    <2>2. Rows(Reported)' = <<>>
      BY <2>1 DEF Rows
    <2>3. EndsWith(electionFile', Rows(Reported)')
      BY <2>1, <2>2 DEF EndsWith
    <2> QED BY <2>1, <2>3 DEF Saved, AllRoundsSaved, SnapshotComplete, EndsWith
  <1>2. CASE Exit
    BY <1>2 DEF Exit, ForgetElections, Saved, AllRoundsSaved, SnapshotComplete
  <1>3. CASE \/ NewInstance \/ LeaderFound \/ RoundSkipped \/ Destroyed \/ Cooldown
             \/ RoundsDone \/ Interrupt \/ Bind \/ ThreadEnds \/ UNCHANGED vars
    <2>1. UNCHANGED <<run, elected, reporting, snapshot, electionFile>>
      BY <1>3 DEF NewInstance, LeaderFound, RoundSkipped, Destroyed, Cooldown, RoundsDone,
                  Interrupt, Bind, ThreadEnds, vars, raft, elections
    <2>2. \/ main' = main /\ interrupted' = interrupted
          \/ main' = "saveElections"
          \/ main \in InRounds /\ main' \in InRounds
      BY <1>3 DEF NewInstance, LeaderFound, RoundSkipped, Destroyed, Cooldown, RoundsDone,
                  Interrupt, Bind, ThreadEnds, vars, rounds, InRounds
    <2> QED BY <2>1, <2>2, RoundsKept
  <1>4. CASE ElectionsSaved /\ SaveElections
    BY <1>4 DEF ElectionsSaved, SaveElections, rounds, raft, Saved, AllRoundsSaved,
                SnapshotComplete
  <1>5. CASE ElectionsSaved /\ RewriteElections
    <2>1. /\ main = "rewriteElections" /\ main' = "ended"
          /\ electionFile' = Rows(snapshot) /\ UNCHANGED <<run, elected, interrupted>>
      BY <1>5 DEF ElectionsSaved, RewriteElections, rounds, raft
    <2>2. Rows(elected)' = Rows(elected)
      BY <2>1 DEF Rows, Row
    <2> QED BY <2>1, <2>2 DEF Saved, AllRoundsSaved, SnapshotComplete
  <1> QED BY <1>1, <1>2, <1>3, <1>4, <1>5, SavedElect DEF Next, MainStep, ElectionsSaved

(* No round's elections are lost to a later one or to the save at the end,   *)
(* nor does a thread that outlives its round add any afterwards.             *)
THEOREM RoundsSaved == Spec => []AllRoundsSaved
  <1>1. Init => Saved
    BY DEF Init, ElectionsInit, Saved, AllRoundsSaved, SnapshotComplete
  <1>2. Saved => AllRoundsSaved
    BY DEF Saved
  <1> QED BY <1>1, <1>2, AlwaysGone, SavedStep, PTL DEF Spec
=============================================================================
