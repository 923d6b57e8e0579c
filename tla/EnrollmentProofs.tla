-------------------------- MODULE EnrollmentProofs --------------------------
(* Proofs about Enrollment, for any set of nodes, any number of key          *)
(* generations, and any set of nodes that crash.                             *)
EXTENDS Enrollment, TLAPS

(* The steps of a startup. *)
LEMMA BootKeeps ==
    ASSUME IndInv, NEW n \in Node, Boot(n)
    PROVE  IndInv'
  <1> USE DEF IndInv, Boot
  <1>1. TypeOK'
    BY DEF TypeOK, Step, File, authority
  <1>2. \A p \in Node : DiskMatchesStep(p)'
    <2> TAKE p \in Node
    <2>1. DiskMatchesStep(p)
      OBVIOUS
    <2>2. CASE p = n
      BY <2>1, <2>2 DEF TypeOK, DiskMatchesStep, Peers, Missing, Empty, Whole
    <2>3. CASE p # n
      BY <2>1, <2>3 DEF TypeOK, DiskMatchesStep
    <2> QED BY <2>2, <2>3
  <1>3. KeysAreMade'
    <2>1. \A p \in Node : private'[p] \in {private[p], Empty} /\ made[p] \in Nat
      BY DEF TypeOK
    <2>2. \A p \in Node : private'[p] <= made[p]
      BY <2>1 DEF KeysAreMade, Empty
    <2> QED BY <2>2 DEF KeysAreMade, authority
  <1>4. KeysMatch'
    BY DEF TypeOK, KeysMatch
  <1>5. PeersAreWhole'
    BY DEF PeersAreWhole
  <1> QED BY <1>1, <1>2, <1>3, <1>4, <1>5

LEMMA WriteKeyKeeps ==
    ASSUME IndInv, NEW n \in Node, WriteKey(n)
    PROVE  IndInv'
  <1> USE DEF IndInv, WriteKey
  <1>1. TypeOK'
    BY DEF TypeOK, Step, File, authority
  <1>2. \A p \in Node : DiskMatchesStep(p)'
    <2> TAKE p \in Node
    <2>1. DiskMatchesStep(p)
      OBVIOUS
    <2>2. CASE p = n
      BY <2>1, <2>2 DEF TypeOK, DiskMatchesStep, Peers, Empty, Missing, Whole
    <2>3. CASE p # n
      BY <2>1, <2>3 DEF TypeOK, DiskMatchesStep
    <2> QED BY <2>2, <2>3
  <1>3. KeysAreMade'
    BY DEF TypeOK, KeysAreMade, File, Request, Empty, authority
  <1>4. KeysMatch'
    BY DEF KeysMatch, DiskMatchesStep
  <1>5. PeersAreWhole'
    BY DEF TypeOK, PeersAreWhole
  <1> QED BY <1>1, <1>2, <1>3, <1>4, <1>5

LEMMA PostKeeps ==
    ASSUME IndInv, NEW n \in Node, Post(n)
    PROVE  IndInv'
  <1> USE DEF IndInv, Post
  <1>1. TypeOK'
    BY DEF TypeOK, DiskMatchesStep, Step, File, Request, Empty, OwnRequest, Whole, keys
  <1>2. \A p \in Node : DiskMatchesStep(p)'
    BY DEF DiskMatchesStep, keys
  <1>3. KeysAreMade'
    BY DEF KeysAreMade, OwnRequest, keys
  <1>4. KeysMatch'
    BY DEF KeysMatch, keys
  <1>5. PeersAreWhole'
    BY DEF PeersAreWhole, keys
  <1> QED BY <1>1, <1>2, <1>3, <1>4, <1>5

LEMMA PostFailsKeeps ==
    ASSUME IndInv, NEW n \in Node, PostFails(n)
    PROVE  IndInv'
  <1> USE DEF IndInv, PostFails
  <1>1. TypeOK'
    BY DEF TypeOK, Step, keys, authority
  <1>2. \A p \in Node : DiskMatchesStep(p)'
    BY DEF DiskMatchesStep, keys
  <1>3. KeysAreMade'
    BY DEF KeysAreMade, keys, authority
  <1>4. KeysMatch'
    BY DEF KeysMatch, keys
  <1>5. PeersAreWhole'
    BY DEF PeersAreWhole, keys
  <1> QED BY <1>1, <1>2, <1>3, <1>4, <1>5

LEMMA GiveUpKeeps ==
    ASSUME IndInv, NEW n \in Node, GiveUp(n)
    PROVE  IndInv'
  <1> USE DEF IndInv, GiveUp
  <1>1. TypeOK'
    BY DEF TypeOK, Step, Peers, keys, authority
  <1>2. \A p \in Node : DiskMatchesStep(p)'
    BY DEF DiskMatchesStep, Peers, keys
  <1>3. KeysAreMade'
    BY DEF KeysAreMade, keys, authority
  <1>4. KeysMatch'
    BY DEF KeysMatch, keys
  <1>5. PeersAreWhole'
    BY DEF PeersAreWhole, keys
  <1> QED BY <1>1, <1>2, <1>3, <1>4, <1>5

LEMMA SaveCertificateKeeps ==
    ASSUME IndInv, NEW n \in Node, SaveCertificate(n)
    PROVE  IndInv'
  <1> USE DEF IndInv, SaveCertificate
  <1>1. TypeOK'
    BY DEF TypeOK, Step, Peers, keys, authority
  <1>2. \A p \in Node : DiskMatchesStep(p)'
    BY DEF TypeOK, DiskMatchesStep, Peers, keys
  <1>3. KeysAreMade'
    BY DEF KeysAreMade, keys, authority
  <1>4. KeysMatch'
    BY DEF KeysMatch, keys
  <1>5. PeersAreWhole'
    BY DEF PeersAreWhole, Peers, keys
  <1> QED BY <1>1, <1>2, <1>3, <1>4, <1>5

LEMMA FetchKeeps ==
    ASSUME IndInv, NEW n \in Node, NEW m \in Node, Fetch(n, m)
    PROVE  IndInv'
  <1> USE DEF IndInv, Fetch
  <1>1. TypeOK'
    BY DEF TypeOK, keys, authority
  <1>2. \A p \in Node : DiskMatchesStep(p)'
    <2> TAKE p \in Node
    <2>1. DiskMatchesStep(p) /\ DiskMatchesStep(n) /\ m \in Node \ {n}
      BY DEF DiskMatchesStep
    <2>2. CASE p = n
      BY <2>1, <2>2 DEF TypeOK, DiskMatchesStep, Peers, Whole, Missing, keys
    <2>3. CASE p # n
      BY <2>1, <2>3 DEF TypeOK, DiskMatchesStep, keys
    <2> QED BY <2>2, <2>3
  <1>3. KeysAreMade'
    BY DEF KeysAreMade, keys, authority
  <1>4. KeysMatch'
    BY DEF KeysMatch, DiskMatchesStep, keys
  <1>5. PeersAreWhole'
    BY DEF TypeOK, PeersAreWhole, KeysAreMade, File, Empty, Whole, keys
  <1> QED BY <1>1, <1>2, <1>3, <1>4, <1>5

LEMMA FetchGivesUpKeeps ==
    ASSUME IndInv, NEW n \in Node, NEW m \in Node, FetchGivesUp(n, m)
    PROVE  IndInv'
  <1> USE DEF IndInv, FetchGivesUp
  <1>1. TypeOK'
    BY DEF TypeOK, keys, authority
  <1>2. \A p \in Node : DiskMatchesStep(p)'
    BY DEF DiskMatchesStep, keys
  <1>3. KeysAreMade'
    BY DEF KeysAreMade, keys, authority
  <1>4. KeysMatch'
    BY DEF KeysMatch, keys
  <1>5. PeersAreWhole'
    BY DEF PeersAreWhole, keys
  <1> QED BY <1>1, <1>2, <1>3, <1>4, <1>5

LEMMA JoinedKeeps ==
    ASSUME IndInv, NEW n \in Node, Joined(n)
    PROVE  IndInv'
  <1> USE DEF IndInv, Joined
  <1>1. TypeOK'
    BY DEF TypeOK, Step, keys, authority
  <1>2. \A p \in Node : DiskMatchesStep(p)'
    BY DEF DiskMatchesStep, keys
  <1>3. KeysAreMade'
    BY DEF KeysAreMade, keys, authority
  <1>4. KeysMatch'
    BY DEF KeysMatch, keys
  <1>5. PeersAreWhole'
    BY DEF PeersAreWhole, keys
  <1> QED BY <1>1, <1>2, <1>3, <1>4, <1>5

LEMMA NeedSigningKeyKeeps ==
    ASSUME IndInv, NEW n \in Node, NeedSigningKey(n)
    PROVE  IndInv'
  <1> USE DEF IndInv, NeedSigningKey
  <1>1. TypeOK'
    BY DEF TypeOK, Step, File, authority
  <1>2. \A p \in Node : DiskMatchesStep(p)'
    BY DEF TypeOK, DiskMatchesStep, Missing, Whole
  <1>3. KeysAreMade'
    BY DEF KeysAreMade, authority
  <1>4. KeysMatch'
    BY DEF TypeOK, KeysMatch
  <1>5. PeersAreWhole'
    BY DEF PeersAreWhole
  <1> QED BY <1>1, <1>2, <1>3, <1>4, <1>5

LEMMA WriteSigningKeyKeeps ==
    ASSUME IndInv, NEW n \in Node, WriteSigningKey(n)
    PROVE  IndInv'
  <1>0. signPrivate[n] = Empty /\ signPublic[n] = Missing /\ made[n] + 1 > 0
    BY DEF IndInv, TypeOK, DiskMatchesStep, Empty, Whole, WriteSigningKey
  <1>1. TypeOK'
    BY DEF IndInv, WriteSigningKey, TypeOK, Step, File, authority
  <1>2. \A p \in Node : DiskMatchesStep(p)'
    <2> TAKE p \in Node
    <2>1. CASE p = n
      BY <1>0, <2>1 DEF IndInv, WriteSigningKey, TypeOK, DiskMatchesStep, Whole
    <2>2. CASE p # n
      BY <2>2 DEF IndInv, WriteSigningKey, TypeOK, DiskMatchesStep
    <2> QED BY <2>1, <2>2
  <1> USE DEF IndInv, WriteSigningKey
  <1>3. KeysAreMade'
    BY DEF TypeOK, KeysAreMade, File, Request, Empty, authority
  <1>4. KeysMatch'
    BY DEF KeysMatch, DiskMatchesStep, Empty, Whole
  <1>5. PeersAreWhole'
    BY DEF TypeOK, PeersAreWhole
  <1> QED BY <1>1, <1>2, <1>3, <1>4, <1>5

LEMMA PublishSigningKeyKeeps ==
    ASSUME IndInv, NEW n \in Node, PublishSigningKey(n)
    PROVE  IndInv'
  <1> USE DEF IndInv, PublishSigningKey
  <1>1. TypeOK'
    BY DEF TypeOK, Step, authority
  <1>2. \A p \in Node : DiskMatchesStep(p)'
    BY DEF TypeOK, DiskMatchesStep, Missing
  <1>3. KeysAreMade'
    BY DEF KeysAreMade, authority
  <1>4. KeysMatch'
    BY DEF KeysMatch
  <1>5. PeersAreWhole'
    BY DEF PeersAreWhole
  <1> QED BY <1>1, <1>2, <1>3, <1>4, <1>5

LEMMA CheckKeeps ==
    ASSUME IndInv, NEW n \in Node, Check(n)
    PROVE  IndInv'
  <1> USE DEF IndInv, Check
  <1>1. TypeOK'
    BY DEF TypeOK, Step, keys, authority
  <1>2. \A p \in Node : DiskMatchesStep(p)'
    BY DEF DiskMatchesStep, keys
  <1>3. KeysAreMade'
    BY DEF KeysAreMade, keys, authority
  <1>4. KeysMatch'
    BY DEF KeysMatch, DiskMatchesStep, keys
  <1>5. PeersAreWhole'
    BY DEF PeersAreWhole, keys
  <1> QED BY <1>1, <1>2, <1>3, <1>4, <1>5

(* Interrupting it, and the certificate authority. *)
LEMMA CrashKeeps ==
    ASSUME IndInv, NEW n \in Node, Crash(n)
    PROVE  IndInv'
  <1> USE DEF IndInv, Crash
  <1>1. TypeOK'
    BY DEF TypeOK, Step, keys, authority
  <1>2. \A p \in Node : DiskMatchesStep(p)'
    BY DEF DiskMatchesStep, keys
  <1>3. KeysAreMade'
    BY DEF KeysAreMade, keys, authority
  <1>4. KeysMatch'
    BY DEF KeysMatch, keys
  <1>5. PeersAreWhole'
    BY DEF PeersAreWhole, keys
  <1> QED BY <1>1, <1>2, <1>3, <1>4, <1>5

LEMMA RedeployKeeps ==
    ASSUME IndInv, NEW n \in Node, Redeploy(n)
    PROVE  IndInv'
  <1> USE DEF IndInv, Redeploy
  <1>1. TypeOK'
    BY DEF TypeOK, File, Missing, authority
  <1>2. \A p \in Node : DiskMatchesStep(p)'
    <2> TAKE p \in Node
    <2>1. CASE p = n
      BY <2>1 DEF TypeOK, DiskMatchesStep, Peers, Whole, Missing
    <2>2. CASE p # n
      BY <2>2 DEF TypeOK, DiskMatchesStep
    <2> QED BY <2>1, <2>2
  <1>3. KeysAreMade'
    BY DEF TypeOK, KeysAreMade, Missing, authority
  <1>4. KeysMatch'
    BY DEF TypeOK, KeysMatch
  <1>5. PeersAreWhole'
    BY DEF TypeOK, PeersAreWhole, Peers, Missing
  <1> QED BY <1>1, <1>2, <1>3, <1>4, <1>5

LEMMA CaSignKeeps ==
    ASSUME IndInv, NEW r \in requests, CaSign(r)
    PROVE  IndInv'
  <1> USE DEF IndInv, CaSign
  <1>1. TypeOK'
    BY DEF TypeOK, File, keys
  <1>2. \A p \in Node : DiskMatchesStep(p)'
    BY DEF DiskMatchesStep, keys
  <1>3. KeysAreMade'
    BY DEF TypeOK, KeysAreMade, Empty, keys
  <1>4. KeysMatch'
    BY DEF KeysMatch, keys
  <1>5. PeersAreWhole'
    BY DEF PeersAreWhole, keys
  <1> QED BY <1>1, <1>2, <1>3, <1>4, <1>5

LEMMA CaStoreKeeps ==
    ASSUME IndInv, NEW r \in writing, CaStore(r)
    PROVE  IndInv'
  <1> USE DEF IndInv, CaStore
  <1>1. TypeOK'
    <2>1. r.node \in Node /\ r.key \in Nat \ {0}
      BY DEF TypeOK, Request
    <2>2. CASE pc[r.node] = "posted" /\ private[r.node] = r.key
      <3> DEFINE own == [cert[r.node] EXCEPT ![r.node] = Empty]
      <3>1. own \in [Node -> File]
        BY <2>1 DEF TypeOK, File
      <3>2. cert' = [cert EXCEPT ![r.node] = own]
        BY <2>1, <2>2
      <3>3. cert' \in [Node -> [Node -> File]]
        BY <2>1, <3>1, <3>2 DEF TypeOK
      <3>4. /\ pc' \in [Node -> Step] /\ issued' \in [Node -> File]
            /\ writing' \in SUBSET Request
        BY <2>1, <2>2 DEF TypeOK, Step, File
      <3> QED BY <3>3, <3>4 DEF TypeOK, keys
    <2>3. CASE ~(pc[r.node] = "posted" /\ private[r.node] = r.key)
      BY <2>1, <2>3 DEF TypeOK, File, keys
    <2> QED BY <2>2, <2>3
  <1>2. \A p \in Node : DiskMatchesStep(p)'
    <2> TAKE p \in Node
    <2>1. DiskMatchesStep(p)
      OBVIOUS
    <2>2. CASE p = r.node
      <3>1. CASE UNCHANGED <<pc, cert>>
        BY <2>1, <3>1 DEF DiskMatchesStep, keys
      <3>2. CASE pc[p] = "posted" /\ pc' = [pc EXCEPT ![p] = "certify"]
                 /\ cert' = [cert EXCEPT ![p][p] = Empty]
        <4>1. /\ pc'[p] = "certify" /\ cert'[p][p] = Empty
              /\ \A m \in Node \ {p} : cert'[p][m] = cert[p][m]
          BY <3>2 DEF TypeOK
        <4> QED BY <2>1, <3>2, <4>1 DEF DiskMatchesStep, Peers, keys
      <3> QED BY <2>2, <3>1, <3>2
    <2>3. CASE p # r.node
      BY <2>1, <2>3 DEF TypeOK, DiskMatchesStep, keys
    <2> QED BY <2>2, <2>3
  <1>3. KeysAreMade'
    BY DEF KeysAreMade, keys
  <1>4. KeysMatch'
    BY DEF TypeOK, KeysMatch, keys
  <1>5. PeersAreWhole'
    BY DEF TypeOK, PeersAreWhole, Peers, keys
  <1> QED BY <1>1, <1>2, <1>3, <1>4, <1>5

LEMMA CaStopKeeps ==
    ASSUME IndInv, CaStop
    PROVE  IndInv'
  <1> USE DEF IndInv, CaStop
  <1>1. TypeOK'
    BY DEF TypeOK, keys
  <1>2. \A p \in Node : DiskMatchesStep(p)'
    BY DEF DiskMatchesStep, keys
  <1>3. KeysAreMade'
    BY DEF KeysAreMade, keys
  <1>4. KeysMatch'
    BY DEF KeysMatch, keys
  <1>5. PeersAreWhole'
    BY DEF PeersAreWhole, keys
  <1> QED BY <1>1, <1>2, <1>3, <1>4, <1>5

LEMMA CaStartKeeps ==
    ASSUME IndInv, CaStart
    PROVE  IndInv'
  <1> USE DEF IndInv, CaStart
  <1>1. TypeOK'
    BY DEF TypeOK, keys
  <1>2. \A p \in Node : DiskMatchesStep(p)'
    BY DEF DiskMatchesStep, keys
  <1>3. KeysAreMade'
    BY DEF KeysAreMade, keys
  <1>4. KeysMatch'
    BY DEF KeysMatch, keys
  <1>5. PeersAreWhole'
    BY DEF PeersAreWhole, keys
  <1> QED BY <1>1, <1>2, <1>3, <1>4, <1>5
-----------------------------------------------------------------------------
LEMMA NodeKeeps ==
    ASSUME IndInv, NEW n \in Node, NodeStep(n)
    PROVE  IndInv'
  <1>1. ASSUME NEW m \in Node, Fetch(n, m) \/ FetchGivesUp(n, m) PROVE IndInv'
    BY <1>1, FetchKeeps, FetchGivesUpKeeps
  <1>2. ASSUME \/ Boot(n) \/ WriteKey(n)
               \/ Post(n) \/ PostFails(n) \/ GiveUp(n) \/ SaveCertificate(n)
        PROVE  IndInv'
    BY <1>2, BootKeeps, WriteKeyKeeps, PostKeeps, PostFailsKeeps, GiveUpKeeps,
       SaveCertificateKeeps
  <1>3. ASSUME \/ Joined(n)
               \/ NeedSigningKey(n) \/ WriteSigningKey(n) \/ PublishSigningKey(n)
               \/ Check(n)
               \/ Crash(n) \/ Redeploy(n)
        PROVE  IndInv'
    BY <1>3, JoinedKeeps, NeedSigningKeyKeeps, WriteSigningKeyKeeps,
       PublishSigningKeyKeeps, CheckKeeps, CrashKeeps, RedeployKeeps
  <1> QED BY <1>1, <1>2, <1>3 DEF NodeStep

LEMMA IndStep == IndInv /\ [Next]_vars => IndInv'
  <1> SUFFICES ASSUME IndInv, [Next]_vars PROVE IndInv'
    OBVIOUS
  <1>1. CASE Next
    BY <1>1, NodeKeeps, CaSignKeeps, CaStoreKeeps, CaStopKeeps, CaStartKeeps DEF Next
  <1>2. CASE UNCHANGED vars
    <2>1. TypeOK' /\ (\A n \in Node : DiskMatchesStep(n)') /\ KeysAreMade'
      BY <1>2 DEF vars, keys, authority, IndInv, TypeOK, DiskMatchesStep, KeysAreMade
    <2>2. KeysMatch' /\ PeersAreWhole'
      BY <1>2 DEF vars, keys, authority, IndInv, KeysMatch, PeersAreWhole
    <2> QED BY <2>1, <2>2 DEF IndInv
  <1> QED BY <1>1, <1>2

LEMMA IndInit == Init => IndInv
  <1> SUFFICES ASSUME Init PROVE IndInv
    OBVIOUS
  <1> USE DEF Init, Missing
  <1>1. TypeOK
    BY DEF TypeOK, Step, File
  <1>2. \A n \in Node : DiskMatchesStep(n)
    BY DEF DiskMatchesStep, Peers, Whole
  <1>3. KeysAreMade
    BY DEF KeysAreMade
  <1>4. KeysMatch /\ PeersAreWhole
    BY DEF KeysMatch, PeersAreWhole, Peers
  <1> QED BY <1>1, <1>2, <1>3, <1>4 DEF IndInv

LEMMA Inductive == Spec => []IndInv
  BY IndInit, IndStep, PTL DEF Spec

(* The variables keep their types: in particular no request ever reaches     *)
(* sign_csr without a key.                                                   *)
THEOREM TypeCorrect == Spec => []TypeOK
  <1>1. IndInv => TypeOK
    BY DEF IndInv
  <1> QED BY <1>1, Inductive, PTL

(* Whatever crashed in between, the key files on a node's disk belong        *)
(* together: its certificate to its private key, its public signing key to   *)
(* the private one.                                                          *)
THEOREM FilesMatch == Spec => []KeysMatch
  <1>1. IndInv => KeysMatch
    BY DEF IndInv
  <1> QED BY <1>1, Inductive, PTL

(* No node saves an empty certificate of a peer, or one for a key the peer   *)
(* has not made, although the CA truncates the file before writing it.       *)
THEOREM FetchedAreWhole == Spec => []PeersAreWhole
  <1>1. IndInv => PeersAreWhole
    BY DEF IndInv
  <1> QED BY <1>1, Inductive, PTL

(* A node gets the certificate that the CA has to hand out; the CA goes on   *)
(* having a whole one for it, or rewriting it, however often it restarts and *)
(* whatever comes late, unless it stops during such a rewriting.             *)
THEOREM StaysListed == Spec => EnrolledIsListed
  <1> DEFINE Lists(n) ==
        /\ cert[n][n] = Missing /\ cert'[n][n] # Missing => issued'[n] = private[n]
        /\ cert[n][n] # Missing /\ Listed(n) =>
             Listed(n)' \/ (CaStop /\ \E r \in writing : r.node = n)
  <1>1. ASSUME IndInv, [Next]_vars, NEW n \in Node PROVE Lists(n)
    <2>1. TypeOK /\ DiskMatchesStep(n)
      BY <1>1 DEF IndInv
    <2>2. ASSUME UNCHANGED <<writing, issued>>, cert'[n][n] = Missing \/ cert[n][n] # Missing
          PROVE  Lists(n)
      BY <2>2 DEF Listed
    <2>3. ASSUME NEW p \in Node, NodeStep(p) PROVE Lists(n)
      <3>1. UNCHANGED <<writing, issued>>
        BY <2>3 DEF NodeStep, Boot, WriteKey, Post, PostFails, GiveUp, SaveCertificate, Fetch,
                    FetchGivesUp, Joined, NeedSigningKey, WriteSigningKey, PublishSigningKey,
                    Check, Crash, Redeploy, authority
      <3>2. CASE UNCHANGED cert
        BY <2>2, <3>1, <3>2
      <3>3. CASE SaveCertificate(p)
        <4>1. cert[p][p] = Empty /\ (p = n \/ cert'[n][n] = cert[n][n])
          BY <1>1, <3>3 DEF IndInv, TypeOK, DiskMatchesStep, SaveCertificate
        <4> QED BY <2>2, <3>1, <4>1 DEF Missing, Empty
      <3>4. ASSUME NEW m \in Node, Fetch(p, m) PROVE cert'[n][n] = cert[n][n]
        BY <1>1, <3>4 DEF IndInv, TypeOK, DiskMatchesStep, Fetch
      <3>5. CASE Redeploy(p)
        BY <2>1, <2>2, <3>1, <3>5 DEF Redeploy, TypeOK
      <3> QED BY <2>2, <2>3, <3>1, <3>2, <3>3, <3>4, <3>5
              DEF NodeStep, Boot, WriteKey, Post, PostFails, GiveUp, FetchGivesUp, Joined,
                  NeedSigningKey, WriteSigningKey, PublishSigningKey, Check, Crash
    <2>4. ASSUME NEW r \in requests, CaSign(r) PROVE Lists(n)
      <3>1. CASE r.node = n
        BY <2>4, <3>1 DEF CaSign, Listed
      <3>2. CASE r.node # n
        BY <2>1, <2>4, <3>2 DEF CaSign, Listed, TypeOK
      <3> QED BY <3>1, <3>2
    <2>5. ASSUME NEW r \in writing, CaStore(r) PROVE Lists(n)
      <3>1. r.node \in Node /\ Whole(r.key)
        BY <2>1 DEF TypeOK, Request, Whole
      <3>2. CASE r.node = n
        <4>1. issued'[n] = r.key
          BY <2>1, <2>5, <3>2 DEF CaStore, TypeOK
        <4>2. Listed(n)'
          BY <3>1, <4>1 DEF Listed
        <4>3. UNCHANGED cert \/ private[n] = r.key
          BY <2>5, <3>2 DEF CaStore
        <4> QED BY <4>1, <4>2, <4>3
      <3>3. CASE r.node # n
        <4>1. issued'[n] = issued[n] /\ cert'[n] = cert[n]
          BY <2>1, <2>5, <3>3 DEF CaStore, TypeOK
        <4>2. (\E q \in writing : q.node = n) => \E q \in writing' : q.node = n
          BY <2>5, <3>3 DEF CaStore
        <4> QED BY <4>1, <4>2 DEF Listed
      <3> QED BY <3>2, <3>3
    <2>6. CASE CaStop
      BY <2>6 DEF CaStop, Listed
    <2>7. CASE CaStart \/ UNCHANGED vars
      BY <2>2, <2>7 DEF CaStart, vars, authority
    <2> QED BY <1>1, <2>3, <2>4, <2>5, <2>6, <2>7 DEF Next
  <1>2. IndInv /\ [Next]_vars => [\A n \in Node : Lists(n)]_vars
    BY <1>1
  <1> QED BY <1>2, Inductive, PTL DEF Spec, EnrolledIsListed
-----------------------------------------------------------------------------
(* The refinement of Membership.                                             *)
LEMMA FilesTyped ==
    ASSUME IndInv
    PROVE  /\ private \in [Node -> File] /\ signPrivate \in [Node -> File]
           /\ signPublic \in [Node -> File] /\ cert \in [Node -> [Node -> File]]
  BY DEF IndInv, TypeOK

LEMMA MembersInit == Init => Members!Init
  <1> SUFFICES ASSUME Init PROVE Members!Init
    OBVIOUS
  <1>1. Content(Missing) = Missing /\ Missing = 0
    BY DEF Content, Missing
  <1>2. Running = [n \in Node |-> FALSE]
    BY DEF Init, Running
  <1>3. /\ Contents(private) = [n \in Node |-> 0]
        /\ Contents(signPrivate) = [n \in Node |-> 0]
        /\ Contents(signPublic) = [n \in Node |-> 0]
    BY <1>1 DEF Init, Contents
  <1>4. /\ OwnCertificates(cert) = [n \in Node |-> 0]
        /\ PeerCertificates(cert) = [n \in Node |-> [m \in Node |-> 0]]
    BY <1>1 DEF Init, OwnCertificates, PeerCertificates
  <1> QED BY <1>1, <1>2, <1>3, <1>4 DEF Init, Members!Init, Members!None, Members!NoPeers

LEMMA RunningChange ==
    ASSUME TypeOK, NEW n \in Node, NEW step, pc' = [pc EXCEPT ![n] = step]
    PROVE  /\ Running' = [Running EXCEPT ![n] = (step = "running")]
           /\ (step = "running" <=> pc[n] = "running") => Running' = Running
  BY DEF TypeOK, Running

(* A step of the startup that ends elsewhere than in "running". *)
LEMMA GoesOn ==
    ASSUME TypeOK, NEW n \in Node, pc[n] # "running", NEW step, step # "running",
           pc' = [pc EXCEPT ![n] = step]
    PROVE  Running' = Running
  BY RunningChange

(* One lemma per step that shows at the level of Membership.                 *)
LEMMA WriteKeyMakesKey ==
    ASSUME IndInv, NEW n \in Node, WriteKey(n)
    PROVE  Members!MakeKey(n)
  <1>1. private[n] = Empty /\ made[n] \in Nat
    BY DEF IndInv, TypeOK, DiskMatchesStep, WriteKey
  <1>2. Contents(private)[n] = Missing
    BY <1>1 DEF Contents, Content, Empty, Whole
  <1>3. Content(made[n] + 1) = made[n] + 1
    BY <1>1 DEF Content, Whole
  <1>4. Contents(private)' = [Contents(private) EXCEPT ![n] = made[n] + 1]
    BY <1>3, FilesTyped DEF WriteKey, Contents
  <1>5. Running' = Running
    BY GoesOn DEF IndInv, WriteKey
  <1>6. UNCHANGED <<OwnCertificates(cert), Contents(signPrivate), Contents(signPublic),
                    PeerCertificates(cert)>>
    BY DEF WriteKey, OwnCertificates, Contents, PeerCertificates
  <1> QED BY <1>2, <1>4, <1>5, <1>6 DEF WriteKey, Members!MakeKey, Members!None, Missing

LEMMA SaveCertifies ==
    ASSUME IndInv, NEW n \in Node, SaveCertificate(n)
    PROVE  Members!Certify(n)
  <1>1. Whole(private[n]) /\ cert[n][n] = Empty /\ private[n] \in File
    BY DEF IndInv, TypeOK, DiskMatchesStep, SaveCertificate
  <1>2. /\ Contents(private)[n] = private[n] /\ private[n] # Missing
        /\ OwnCertificates(cert)[n] = Missing
    BY <1>1 DEF Contents, OwnCertificates, Content, Empty, Missing, Whole
  <1>3. Content(private[n]) = private[n]
    BY <1>1 DEF Content
  <1>4. OwnCertificates(cert)' = [OwnCertificates(cert) EXCEPT ![n] = private[n]]
    BY <1>3, FilesTyped DEF SaveCertificate, OwnCertificates
  <1>5. PeerCertificates(cert)' = PeerCertificates(cert)
    BY FilesTyped DEF SaveCertificate, PeerCertificates
  <1>6. Running' = Running
    BY GoesOn DEF IndInv, SaveCertificate
  <1>7. UNCHANGED <<made, Contents(private), Contents(signPrivate), Contents(signPublic)>>
    BY DEF SaveCertificate, keys, Contents
  <1> QED BY <1>2, <1>4, <1>5, <1>6, <1>7 DEF Members!Certify, Members!None, Missing

LEMMA WriteSigningKeyMakes ==
    ASSUME IndInv, NEW n \in Node, WriteSigningKey(n)
    PROVE  Members!MakeSigningKey(n)
  <1>1. signPrivate[n] = Empty /\ made[n] \in Nat
    BY DEF IndInv, TypeOK, DiskMatchesStep, WriteSigningKey
  <1>2. Contents(signPrivate)[n] = Missing
    BY <1>1 DEF Contents, Content, Empty, Whole
  <1>3. Content(made[n] + 1) = made[n] + 1
    BY <1>1 DEF Content, Whole
  <1>4. Contents(signPrivate)' = [Contents(signPrivate) EXCEPT ![n] = made[n] + 1]
    BY <1>3, FilesTyped DEF WriteSigningKey, Contents
  <1>5. Running' = Running
    BY GoesOn DEF IndInv, WriteSigningKey
  <1>6. UNCHANGED <<OwnCertificates(cert), Contents(private), Contents(signPublic),
                    PeerCertificates(cert)>>
    BY DEF WriteSigningKey, OwnCertificates, Contents, PeerCertificates
  <1> QED BY <1>2, <1>4, <1>5, <1>6
          DEF WriteSigningKey, Members!MakeSigningKey, Members!None, Missing

LEMMA PublishSigningKeyPublishes ==
    ASSUME IndInv, NEW n \in Node, PublishSigningKey(n)
    PROVE  Members!Publish(n)
  <1>1. Whole(signPrivate[n]) /\ signPublic[n] = Missing /\ signPrivate[n] \in File
    BY DEF IndInv, TypeOK, DiskMatchesStep, PublishSigningKey
  <1>2. /\ Contents(signPrivate)[n] = signPrivate[n] /\ signPrivate[n] # Missing
        /\ Contents(signPublic)[n] = Missing
    BY <1>1 DEF Contents, Content, Missing, Whole
  <1>3. Content(signPrivate[n]) = signPrivate[n]
    BY <1>1 DEF Content
  <1>4. Contents(signPublic)' = [Contents(signPublic) EXCEPT ![n] = signPrivate[n]]
    BY <1>3, FilesTyped DEF PublishSigningKey, Contents
  <1>5. Running' = Running
    BY GoesOn DEF IndInv, PublishSigningKey
  <1>6. UNCHANGED <<OwnCertificates(cert), Contents(private), Contents(signPrivate),
                    PeerCertificates(cert)>>
    BY DEF PublishSigningKey, OwnCertificates, Contents, PeerCertificates
  <1> QED BY <1>2, <1>4, <1>5, <1>6
          DEF PublishSigningKey, Members!Publish, Members!None, Missing

LEMMA FetchLearns ==
    ASSUME IndInv, NEW n \in Node, NEW m \in Node, Fetch(n, m)
    PROVE  Members!Learn(n, m)
  <1>1. /\ n # m /\ issued[m] \in 1 .. made[m]
        /\ pc[n] # "running" /\ cert[n][m] = Missing
    BY DEF IndInv, TypeOK, DiskMatchesStep, KeysAreMade, Fetch, Whole, File, Empty
  <1>2. Content(issued[m]) = issued[m]
    BY DEF Fetch, Content
  <1>3. OwnCertificates(cert)' = OwnCertificates(cert)
    BY <1>1, FilesTyped DEF Fetch, OwnCertificates
  <1>4. PeerCertificates(cert)' = [PeerCertificates(cert) EXCEPT ![n][m] = issued[m]]
    BY <1>1, <1>2, FilesTyped DEF Fetch, PeerCertificates
  <1>5. ~Running[n]
    BY <1>1 DEF Running
  <1>6. PeerCertificates(cert)[n][m] = 0
    BY <1>1 DEF PeerCertificates, Content, Missing, Whole
  <1>7. UNCHANGED <<made, Contents(private), Contents(signPrivate), Contents(signPublic),
                    Running>>
    BY DEF Fetch, keys, Contents, Running
  <1>8. PeerCertificates(cert)'[n][m] = issued[m]
    BY <1>4 DEF PeerCertificates
  <1> QED BY <1>1, <1>3, <1>4, <1>5, <1>6, <1>7, <1>8 DEF Members!Learn, Members!None

LEMMA FilesStay ==
    ASSUME UNCHANGED <<keys, cert>>
    PROVE  UNCHANGED <<made, Contents(private), OwnCertificates(cert),
                       Contents(signPrivate), Contents(signPublic),
                       PeerCertificates(cert)>>
  BY DEF keys, Contents, OwnCertificates, PeerCertificates

LEMMA CheckRuns ==
    ASSUME IndInv, NEW n \in Node, Check(n)
    PROVE  Members!Run(n) \/ UNCHANGED Members!vars
  <1>1. UNCHANGED <<made, Contents(private), OwnCertificates(cert),
                    Contents(signPrivate), Contents(signPublic), PeerCertificates(cert)>>
    BY FilesStay DEF Check
  <1>2. CASE cert[n][n] = Missing
    <2>1. Running' = Running
      BY <1>2, GoesOn DEF IndInv, Check
    <2> QED BY <1>1, <2>1 DEF Members!vars
  <1>3. CASE cert[n][n] # Missing
    <2>1. Whole(private[n])
      BY <1>3 DEF IndInv, DiskMatchesStep
    <2>2. Contents(private)[n] # 0
      BY <2>1 DEF Contents, Content, Whole
    <2>3. ~Running[n] /\ Running' = [Running EXCEPT ![n] = TRUE]
      BY <1>3, RunningChange DEF IndInv, Check, Running
    <2> QED BY <1>1, <2>2, <2>3 DEF Members!Run, Members!None
  <1> QED BY <1>2, <1>3

LEMMA CrashStops ==
    ASSUME IndInv, NEW n \in Node, Crash(n)
    PROVE  Members!Stop(n) \/ UNCHANGED Members!vars
  <1>1. UNCHANGED <<made, Contents(private), OwnCertificates(cert),
                    Contents(signPrivate), Contents(signPublic), PeerCertificates(cert)>>
    BY FilesStay DEF Crash
  <1>2. CASE pc[n] = "running"
    <2>1. Running[n] /\ Running' = [Running EXCEPT ![n] = FALSE]
      BY <1>2, RunningChange DEF IndInv, Crash, Running
    <2> QED BY <1>1, <2>1 DEF Members!Stop
  <1>3. CASE pc[n] # "running"
    <2>1. Running' = Running
      BY <1>3, GoesOn DEF IndInv, Crash
    <2> QED BY <1>1, <2>1 DEF Members!vars
  <1> QED BY <1>2, <1>3

LEMMA RedeploySetsUpAnew ==
    ASSUME IndInv, NEW n \in Node, Redeploy(n)
    PROVE  Members!SetUpAnew(n)
  <1>1. Content(Missing) = 0 /\ Missing = 0
    BY DEF Content, Missing
  <1>2. Contents(private)' = [Contents(private) EXCEPT ![n] = 0]
    BY <1>1, FilesTyped DEF Redeploy, Contents
  <1>3. /\ Contents(signPrivate)' = [Contents(signPrivate) EXCEPT ![n] = 0]
        /\ Contents(signPublic)' = [Contents(signPublic) EXCEPT ![n] = 0]
    BY <1>1, FilesTyped DEF Redeploy, Contents
  <1>4. OwnCertificates(cert)' = [OwnCertificates(cert) EXCEPT ![n] = 0]
    BY <1>1 DEF IndInv, TypeOK, Redeploy, OwnCertificates
  <1>5. PeerCertificates(cert)'
            = [PeerCertificates(cert) EXCEPT ![n] = [m \in Node |-> 0]]
    BY <1>1 DEF IndInv, TypeOK, Redeploy, PeerCertificates
  <1>6. ~Running[n] /\ UNCHANGED <<made, Running>>
    BY DEF Redeploy, Running
  <1> QED BY <1>2, <1>3, <1>4, <1>5, <1>6 DEF Members!SetUpAnew, Members!None, Members!NoPeers
-----------------------------------------------------------------------------
(* The steps that do not show: requests and answers, attempts, waiting, and  *)
(* files that are created empty.                                             *)
LEMMA BootHidden ==
    ASSUME IndInv, NEW n \in Node, Boot(n)
    PROVE  UNCHANGED Members!vars
  <1>1. Running' = Running
    BY GoesOn DEF IndInv, Boot
  <1>2. Contents(private)' = Contents(private)
    <2>1. CASE private[n] = Missing /\ private' = [private EXCEPT ![n] = Empty]
      BY <2>1, FilesTyped DEF Contents, Content, Whole, Missing, Empty
    <2>2. CASE UNCHANGED private
      BY <2>2 DEF Contents
    <2> QED BY <2>1, <2>2 DEF Boot
  <1>3. UNCHANGED <<made, OwnCertificates(cert), Contents(signPrivate),
                    Contents(signPublic), PeerCertificates(cert)>>
    BY DEF Boot, Contents, OwnCertificates, PeerCertificates
  <1> QED BY <1>1, <1>2, <1>3 DEF Members!vars

LEMMA NeedSigningKeyHidden ==
    ASSUME IndInv, NEW n \in Node, NeedSigningKey(n)
    PROVE  UNCHANGED Members!vars
  <1>1. Running' = Running
    BY GoesOn DEF IndInv, NeedSigningKey
  <1>2. Contents(signPrivate)' = Contents(signPrivate)
    <2>1. CASE signPrivate[n] = Missing /\ signPrivate' = [signPrivate EXCEPT ![n] = Empty]
      BY <2>1, FilesTyped DEF Contents, Content, Whole, Missing, Empty
    <2>2. CASE UNCHANGED signPrivate
      BY <2>2 DEF Contents
    <2> QED BY <2>1, <2>2 DEF NeedSigningKey
  <1>3. UNCHANGED <<made, OwnCertificates(cert), Contents(private),
                    Contents(signPublic), PeerCertificates(cert)>>
    BY DEF NeedSigningKey, Contents, OwnCertificates, PeerCertificates
  <1> QED BY <1>1, <1>2, <1>3 DEF Members!vars

LEMMA AttemptsHidden ==
    ASSUME IndInv, NEW n \in Node,
           Post(n) \/ PostFails(n) \/ GiveUp(n) \/ Joined(n)
    PROVE  UNCHANGED Members!vars
  <1>1. UNCHANGED <<made, Contents(private), OwnCertificates(cert),
                    Contents(signPrivate), Contents(signPublic), PeerCertificates(cert)>>
    BY FilesStay DEF Post, PostFails, GiveUp, Joined
  <1>2. Running' = Running
    BY GoesOn DEF IndInv, Post, PostFails, GiveUp, Joined
  <1> QED BY <1>1, <1>2 DEF Members!vars

LEMMA FilesAndStepStay ==
    ASSUME UNCHANGED <<pc, keys, cert>>
    PROVE  UNCHANGED Members!vars
  <1>1. Running' = Running
    BY DEF Running
  <1> QED BY <1>1, FilesStay DEF Members!vars

LEMMA CaStoreHidden ==
    ASSUME IndInv, NEW r \in writing, CaStore(r)
    PROVE  UNCHANGED Members!vars
  <1>1. CASE UNCHANGED <<pc, cert>>
    BY <1>1, FilesAndStepStay DEF CaStore
  <1>2. CASE /\ pc[r.node] = "posted"
             /\ pc' = [pc EXCEPT ![r.node] = "certify"]
             /\ cert' = [cert EXCEPT ![r.node][r.node] = Empty]
    <2>1. r.node \in Node
      BY DEF IndInv, TypeOK, Request
    <2>2. Running' = Running
      BY <1>2, <2>1, GoesOn DEF IndInv
    <2>3. cert[r.node][r.node] = Missing
      BY <1>2, <2>1 DEF IndInv, DiskMatchesStep
    <2>4. Content(Empty) = 0 /\ Content(Missing) = 0
      BY DEF Content, Empty, Missing, Whole
    <2>5. OwnCertificates(cert)' = OwnCertificates(cert)
      BY <1>2, <2>1, <2>3, <2>4, FilesTyped DEF OwnCertificates
    <2>6. PeerCertificates(cert)' = PeerCertificates(cert)
      BY <1>2, <2>1, FilesTyped DEF PeerCertificates
    <2>7. UNCHANGED <<made, Contents(private), Contents(signPrivate), Contents(signPublic)>>
      BY DEF CaStore, keys, Contents
    <2> QED BY <2>2, <2>5, <2>6, <2>7 DEF Members!vars
  <1> QED BY <1>1, <1>2 DEF CaStore
-----------------------------------------------------------------------------
LEMMA NodeStepIsMembers ==
    ASSUME IndInv, NEW n \in Node, NodeStep(n)
    PROVE  [Members!Next]_(Members!vars)
  <1>1. ASSUME NEW m \in Node, Fetch(n, m) PROVE Members!Next
    BY <1>1, FetchLearns DEF Members!Next
  <1>2. ASSUME NEW m \in Node, FetchGivesUp(n, m) PROVE UNCHANGED Members!vars
    BY <1>2, FilesAndStepStay DEF FetchGivesUp
  <1>3. ASSUME WriteKey(n) \/ SaveCertificate(n) \/ WriteSigningKey(n)
               \/ PublishSigningKey(n) \/ Redeploy(n)
        PROVE  Members!Next
    BY <1>3, WriteKeyMakesKey, SaveCertifies, WriteSigningKeyMakes,
       PublishSigningKeyPublishes, RedeploySetsUpAnew DEF Members!Next
  <1>4. ASSUME Check(n) \/ Crash(n) PROVE Members!Next \/ UNCHANGED Members!vars
    BY <1>4, CheckRuns, CrashStops DEF Members!Next
  <1>5. ASSUME Boot(n) \/ NeedSigningKey(n) \/ Post(n) \/ PostFails(n) \/ GiveUp(n)
               \/ Joined(n)
        PROVE  UNCHANGED Members!vars
    BY <1>5, BootHidden, NeedSigningKeyHidden, AttemptsHidden
  <1> QED BY <1>1, <1>2, <1>3, <1>4, <1>5 DEF NodeStep

LEMMA MembersStep == IndInv /\ [Next]_vars => [Members!Next]_(Members!vars)
  <1> SUFFICES ASSUME IndInv, [Next]_vars PROVE [Members!Next]_(Members!vars)
    OBVIOUS
  <1>1. ASSUME NEW r \in requests, CaSign(r) PROVE UNCHANGED Members!vars
    BY <1>1, FilesAndStepStay DEF CaSign
  <1>2. CASE CaStop \/ CaStart \/ UNCHANGED vars
    BY <1>2, FilesAndStepStay DEF CaStop, CaStart, vars
  <1> QED BY <1>1, <1>2, CaStoreHidden, NodeStepIsMembers DEF Next

(* Enrolment implements Membership: whatever is lost, late, doubled, retried *)
(* or interrupted, what the transport and the encryptors find on the disks   *)
(* changes as if each key and certificate appeared at once, from the key     *)
(* beside it, and were never replaced until the host is set up anew.         *)
THEOREM EnrolsMembers == Spec => ImplementsMembership
  <1> QED BY MembersInit, MembersStep, Inductive, PTL
          DEF Spec, ImplementsMembership, Members!Spec
=============================================================================
