----------------------------- MODULE TrustProofs -----------------------------
(* Proofs about Trust, for any set of nodes, any number of workers and roots *)
(* and either way of starting the CA.                                        *)
EXTENDS Trust, TLAPS

LEMMA FileFacts ==
    /\ Missing \in File /\ Empty \in File /\ Missing # Empty
    /\ ~Whole(Missing) /\ ~Whole(Empty)
    /\ \A r, k \in Nat : r # 0 => [run |-> r, key |-> k] \in File
  BY DEF Missing, Empty, File, Root, Whole

LEMMA InitInv == Init => IndInv
  <1> SUFFICES ASSUME Init PROVE IndInv
    OBVIOUS
  <1>1. TypeOK
    BY FileFacts DEF Init, TypeOK
  <1>2. OneRootPerRun
    BY FileFacts DEF Init, OneRootPerRun, RunRoot
  <1> QED BY <1>1, <1>2 DEF Init, IndInv, DiskMatchesStep

(* The CA: with --preload only a start of the server makes a root, the one   *)
(* of the new run.                                                           *)
LEMMA CaKeeps ==
    ASSUME IndInv, CaStep
    PROVE  IndInv'
  <1>1. TypeOK /\ (up => run # 0) /\ OneRootPerRun /\ \A n \in Node : DiskMatchesStep(n)
    BY DEF IndInv
  <1>2. CASE CaStart
    <2>1. NewRoot \in File /\ Whole(NewRoot) /\ (made = run => RunRoot(NewRoot))
      BY <1>1 DEF TypeOK, NewRoot, File, Root, Whole, RunRoot
    <2>2. TypeOK'
      BY <1>1, <1>2, <2>1 DEF disk, TypeOK, CaStart
    <2>3. OneRootPerRun'
      <3>1. NewRoot # Empty /\ NewRoot # Missing
        BY <2>1, FileFacts
      <3> QED BY <1>1, <1>2, <2>1, <3>1 DEF disk, OneRootPerRun, CaStart, RunRoot, TypeOK
    <2> QED BY <1>1, <1>2, <2>2, <2>3 DEF disk, IndInv, CaStart, DiskMatchesStep, TypeOK
  <1>3. CASE CaStop
    <2>1. TypeOK'
      BY <1>1, <1>3, FileFacts DEF disk, TypeOK, CaStop
    <2>2. OneRootPerRun'
      BY <1>1, <1>3, FileFacts DEF disk, OneRootPerRun, CaStop, RunRoot
    <2> QED BY <1>1, <1>3, <2>1, <2>2 DEF disk, IndInv, CaStop, DiskMatchesStep
  <1>4. ASSUME NEW w \in Worker, Load(w) PROVE IndInv'
    <2>1. ~preload
      BY <1>1, <1>4 DEF Load, OneRootPerRun
    <2>2. TypeOK'
      BY <1>1, <1>4, FileFacts DEF disk, TypeOK, Load
    <2> QED BY <1>1, <1>4, <2>1, <2>2 DEF disk, IndInv, Load, DiskMatchesStep, OneRootPerRun
  <1>5. ASSUME NEW w \in Worker, Loaded(w) PROVE IndInv'
    <2>1. ~preload
      BY <1>1, <1>5 DEF disk, Loaded, OneRootPerRun
    <2>2. [run |-> run, key |-> made + 1] \in File
      <3>1. run \in Nat /\ run # 0 /\ made + 1 \in Nat
        BY <1>1, <1>5 DEF disk, TypeOK, Loaded
      <3> QED BY <3>1, FileFacts
    <2>3. TypeOK'
      BY <1>1, <1>5, <2>2 DEF disk, TypeOK, Loaded
    <2> QED BY <1>1, <1>5, <2>1, <2>3 DEF disk, IndInv, Loaded, DiskMatchesStep, OneRootPerRun
  <1>6. ASSUME NEW w \in Worker, Recycle(w) PROVE IndInv'
    <2>1. TypeOK'
      BY <1>1, <1>6, FileFacts DEF disk, TypeOK, Recycle
    <2> QED BY <1>1, <1>6, <2>1 DEF disk, IndInv, Recycle, DiskMatchesStep, OneRootPerRun
  <1> QED BY <1>2, <1>3, <1>4, <1>5, <1>6 DEF CaStep

(* A node: it takes over roots that the CA hands out, and no others.         *)
LEMMA NodeKeeps ==
    ASSUME IndInv, NEW n \in Node, NodeStep(n)
    PROVE  IndInv'
  <1>1. TypeOK /\ (up => run # 0) /\ OneRootPerRun /\ \A m \in Node : DiskMatchesStep(m)
    BY DEF IndInv
  <1>2. UNCHANGED <<preload, ca>>
    BY DEF NodeStep, Startup, Disturbed, Interrupted, Boot, FetchRoot, RootGivesUp, Enrol,
           EnrolGivesUp, Check, FetchInterrupted, EnrolInterrupted, CheckInterrupted, Crash,
           Redeploy, Handshake, Disconnect
  <1>3. CASE Boot(n)
    <2>1. TypeOK' /\ \A m \in Node : DiskMatchesStep(m)'
      BY <1>1, <1>3 DEF TypeOK, Boot, DiskMatchesStep, ca, disk
    <2> QED BY <1>1, <1>3, <2>1 DEF IndInv, OneRootPerRun, Boot, ca, disk
  <1>4. CASE FetchRoot(n)
    <2>1. TypeOK' /\ \A m \in Node : DiskMatchesStep(m)'
      BY <1>1, <1>4 DEF TypeOK, FetchRoot, DiskMatchesStep, AfterRoot, ca, disk
    <2>2. OneRootPerRun'
      BY <1>1, <1>4 DEF TypeOK, FetchRoot, OneRootPerRun, RunRoot, ca, disk
    <2> QED BY <1>1, <1>4, <2>1, <2>2 DEF IndInv, FetchRoot, ca, disk
  <1>5. CASE RootGivesUp(n)
    <2>1. TypeOK' /\ \A m \in Node : DiskMatchesStep(m)'
      BY <1>1, <1>5 DEF TypeOK, RootGivesUp, DiskMatchesStep, AfterRoot, ca, disk
    <2> QED BY <1>1, <1>5, <2>1 DEF IndInv, OneRootPerRun, RootGivesUp, ca, disk
  <1>6. CASE FetchInterrupted(n)
    <2>1. TypeOK' /\ \A m \in Node : DiskMatchesStep(m)'
      BY <1>1, <1>6, FileFacts DEF TypeOK, FetchInterrupted, DiskMatchesStep, ca, disk
    <2>2. OneRootPerRun'
      BY <1>1, <1>6, FileFacts DEF TypeOK, FetchInterrupted, OneRootPerRun, RunRoot, ca, disk
    <2> QED BY <1>1, <1>6, <2>1, <2>2 DEF IndInv, FetchInterrupted, ca, disk
  <1>7. ASSUME NEW w \in Worker, Enrol(n, w) PROVE IndInv'
    <2>1. TypeOK' /\ \A m \in Node : DiskMatchesStep(m)'
      BY <1>1, <1>7 DEF TypeOK, Enrol, DiskMatchesStep, ca, disk
    <2>2. OneRootPerRun'
      BY <1>1, <1>7 DEF TypeOK, Enrol, OneRootPerRun, RunRoot, ca, disk
    <2> QED BY <1>1, <1>7, <2>1, <2>2 DEF IndInv, Enrol, ca, disk
  <1>8. CASE EnrolGivesUp(n)
    <2>1. TypeOK' /\ \A m \in Node : DiskMatchesStep(m)'
      BY <1>1, <1>8 DEF TypeOK, EnrolGivesUp, DiskMatchesStep, ca, disk
    <2> QED BY <1>1, <1>8, <2>1 DEF IndInv, OneRootPerRun, EnrolGivesUp, ca, disk
  <1>9. CASE EnrolInterrupted(n)
    <2>1. TypeOK' /\ \A m \in Node : DiskMatchesStep(m)'
      BY <1>1, <1>9, FileFacts DEF TypeOK, EnrolInterrupted, DiskMatchesStep, ca, disk
    <2>2. OneRootPerRun'
      BY <1>1, <1>9, FileFacts DEF TypeOK, EnrolInterrupted, OneRootPerRun, RunRoot, ca, disk
    <2> QED BY <1>1, <1>9, <2>1, <2>2 DEF IndInv, EnrolInterrupted, ca, disk
  <1>10. CASE Check(n)
    <2>1. TypeOK'
      BY <1>1, <1>10 DEF TypeOK, Check, ca
    <2>2. ASSUME NEW m \in Node PROVE DiskMatchesStep(m)'
      <3>1. signs'[n] # "missing" /\ DiskMatchesStep(n) /\ DiskMatchesStep(m)
        BY <1>1, <1>10 DEF TypeOK, Check
      <3>2. CASE m = n
        BY <1>1, <1>10, <3>1, <3>2 DEF TypeOK, Check, DiskMatchesStep
      <3>3. CASE m # n
        BY <1>1, <1>10, <3>1, <3>3 DEF TypeOK, Check, DiskMatchesStep
      <3> QED BY <3>2, <3>3
    <2> QED BY <1>1, <1>10, <2>1, <2>2 DEF IndInv, OneRootPerRun, Check, ca
  <1>11. CASE Crash(n)
    <2>1. TypeOK' /\ \A m \in Node : DiskMatchesStep(m)'
      BY <1>1, <1>11 DEF TypeOK, Crash, Live, DiskMatchesStep, ca, disk
    <2> QED BY <1>1, <1>11, <2>1 DEF IndInv, OneRootPerRun, Crash, ca, disk
  <1>12. CASE Redeploy(n)
    <2>1. TypeOK' /\ \A m \in Node : DiskMatchesStep(m)'
      BY <1>1, <1>12, FileFacts DEF TypeOK, Redeploy, DiskMatchesStep, ca, disk
    <2>2. OneRootPerRun'
      BY <1>1, <1>12, FileFacts DEF TypeOK, Redeploy, OneRootPerRun, RunRoot, ca, disk
    <2> QED BY <1>1, <1>12, <2>1, <2>2 DEF IndInv, Redeploy, ca, disk
  <1>13. CASE CheckInterrupted(n)
    <2>1. TypeOK' /\ \A m \in Node : DiskMatchesStep(m)'
      BY <1>1, <1>13 DEF TypeOK, CheckInterrupted, DiskMatchesStep, ca, disk
    <2> QED BY <1>1, <1>13, <2>1 DEF IndInv, OneRootPerRun, CheckInterrupted, ca, disk
  <1>14. ASSUME NEW m \in Node, Handshake(n, m) PROVE IndInv'
    <2>1. UNCHANGED <<preload, ca, disk>> /\ IsClient(n, m)
      BY <1>14 DEF Handshake
    <2>2. OneRootPerRun' /\ (up => run # 0)'
      BY <1>1, <2>1 DEF OneRootPerRun, ca, disk
    <2>3. CASE UNCHANGED pc /\ secured' = secured \cup {<<n, m>>}
      <3>1. TypeOK' /\ \A a \in Node : DiskMatchesStep(a)'
        BY <1>1, <2>1, <2>3 DEF TypeOK, DiskMatchesStep, ca, disk
      <3> QED BY <2>2, <3>1 DEF IndInv
    <2>4. ASSUME NEW raises \in SUBSET {n, m}, n \in raises => ~Whole(trusted[n]),
                 m \in raises => ~Whole(issuer[m]),
                 pc' = [a \in Node |-> IF a \in raises THEN "dead" ELSE pc[a]],
                 secured' = Live(raises)
          PROVE  IndInv'
      <3>1. pc[n] = "running" /\ pc[m] = "running"
        BY <1>14 DEF Handshake
      <3>2. TypeOK'
        BY <1>1, <2>1, <2>4 DEF TypeOK, Live, ca, disk
      <3>3. ASSUME NEW a \in Node PROVE DiskMatchesStep(a)'
        <4>1. CASE a \in raises
          <5>1. a \in {n, m} /\ pc[a] = "running" /\ pc'[a] = "dead" /\ DiskMatchesStep(a)
            BY <1>1, <2>4, <3>1, <4>1
          <5>2. \/ ~Whole(issuer[a]) /\ \E c \in Node : IsClient(c, a)
                \/ ~Whole(trusted[a]) /\ \E c \in Node : IsClient(a, c)
            BY <2>1, <2>4, <4>1, <5>1
          <5> QED BY <2>1, <5>1, <5>2 DEF DiskMatchesStep, disk
        <4>2. CASE a \notin raises
          BY <1>1, <2>1, <2>4, <4>2 DEF DiskMatchesStep, disk
        <4> QED BY <4>1, <4>2
      <3> QED BY <2>2, <3>2, <3>3 DEF IndInv
    <2>5. \/ UNCHANGED pc /\ secured' = secured \cup {<<n, m>>}
          \/ \E raises \in SUBSET {n, m} :
                /\ n \in raises => ~Whole(trusted[n])
                /\ m \in raises => ~Whole(issuer[m])
                /\ pc' = [a \in Node |-> IF a \in raises THEN "dead" ELSE pc[a]]
                /\ secured' = Live(raises)
      <3>1. n # m
        BY <2>1, NodeAssumption DEF IsClient
      <3> QED BY <1>14, <3>1 DEF Handshake
    <2> QED BY <2>3, <2>4, <2>5
  <1>15. ASSUME NEW m \in Node, Disconnect(n, m) PROVE IndInv'
    <2>1. TypeOK'
      BY <1>1, <1>15 DEF TypeOK, Disconnect, ca, disk
    <2> QED BY <1>1, <1>15, <2>1 DEF IndInv, OneRootPerRun, DiskMatchesStep, Disconnect, ca, disk
  <1> QED BY <1>3, <1>4, <1>5, <1>6, <1>7, <1>8, <1>9, <1>10, <1>11, <1>12, <1>13, <1>14, <1>15
          DEF NodeStep, Startup, Disturbed, Interrupted

THEOREM Invariant == Spec => []IndInv
  <1>1. IndInv /\ [Next]_vars => IndInv'
    <2>1. CASE UNCHANGED vars
      BY <2>1 DEF vars, ca, disk, IndInv, TypeOK, OneRootPerRun, DiskMatchesStep
    <2> QED BY <2>1, CaKeeps, NodeKeeps DEF Next
  <1> QED BY <1>1, InitInv, PTL DEF Spec

(* With --preload, root and certificate from one run of the CA belong        *)
(* together, whichever workers handed them out.                              *)
THEOREM SameRun == Spec => []SameRunTrusts
  <1>1. IndInv => SameRunTrusts
    <2> SUFFICES ASSUME IndInv, preload, NEW c \in Node, NEW s \in Node,
                        Whole(trusted[c]), Whole(issuer[s]), trusted[c].run = issuer[s].run
                 PROVE  Trusts(c, s)
      BY DEF SameRunTrusts
    <2>1. trusted[c].key = issuer[s].key
      BY DEF IndInv, OneRootPerRun, RunRoot
    <2>2. trusted[c] \in File /\ issuer[s] \in File
      BY DEF IndInv, TypeOK
    <2>3. trusted[c] \in Root /\ issuer[s] \in Root
      BY <2>2, FileFacts DEF File
    <2> QED BY <2>1, <2>3 DEF Root, Trusts
  <1> QED BY <1>1, Invariant, PTL

(* Only a new deployment of one of two nodes makes a client stop accepting   *)
(* the server's certificate.                                                 *)
THEOREM Lasting == Spec => TrustLasts
  <1>1. IndInv /\ [Next]_vars =>
          [\A c, s \in Node : Trusts(c, s) => Trusts(c, s)' \/ Redeploy(c) \/ Redeploy(s)]_vars
    <2> SUFFICES ASSUME IndInv, Next, NEW c \in Node, NEW s \in Node, Trusts(c, s)
                 PROVE  Trusts(c, s)' \/ Redeploy(c) \/ Redeploy(s)
      OBVIOUS
    <2>1. trusted[c] # Missing /\ issuer[s] # Missing /\ pc[c] # "root" /\ pc[s] # "enrol"
          /\ trusted \in [Node -> File] /\ issuer \in [Node -> File]
      BY FileFacts DEF Trusts, IndInv, DiskMatchesStep, TypeOK
    <2>2. CASE CaStep
      BY <2>2 DEF CaStep, CaStart, CaStop, Load, Loaded, Recycle, Trusts, disk
    <2>3. ASSUME NEW n \in Node, NodeStep(n) PROVE Trusts(c, s)' \/ Redeploy(c) \/ Redeploy(s)
      <3>1. CASE Redeploy(n)
        <4>1. CASE n # c /\ n # s
          BY <2>1, <3>1, <4>1 DEF Redeploy, Trusts
        <4> QED BY <3>1, <4>1
      <3>2. CASE FetchRoot(n) \/ FetchInterrupted(n)
        BY <2>1, <3>2 DEF FetchRoot, FetchInterrupted, Trusts
      <3>3. CASE (\E w \in Worker : Enrol(n, w)) \/ EnrolInterrupted(n)
        BY <2>1, <3>3 DEF Enrol, EnrolInterrupted, Trusts
      <3>4. CASE UNCHANGED <<trusted, issuer>>
        BY <3>4 DEF Trusts
      <3> QED BY <2>3, <3>1, <3>2, <3>3, <3>4
              DEF NodeStep, Startup, Disturbed, Interrupted, Boot, RootGivesUp, EnrolGivesUp, Check,
                  CheckInterrupted, Crash, Handshake, Disconnect, disk
    <2> QED BY <2>2, <2>3 DEF Next
  <1> QED BY <1>1, Invariant, PTL DEF Spec, TrustLasts
=============================================================================
