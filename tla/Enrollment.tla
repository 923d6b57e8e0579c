----------------------------- MODULE Enrollment -----------------------------
(* How a node gets its keys and certificates before Raft starts: the startup *)
(* of src/cryptobj.py, the client src/CA/request.py and the certificate      *)
(* authority src/CA/Server/ca_server.py.                                     *)
(*                                                                           *)
(* Files decide what a later start of the same node does, so every file      *)
(* whose existence is tested is written in the two steps open(..., 'w')      *)
(* takes: it is truncated, then its content arrives; a crash may come in     *)
(* between.  A certificate is represented by the key it was issued for.      *)
EXTENDS Integers

CONSTANTS
    Node,           \* the members named in scale_nodes.json
    MaxKey,         \* bound: keys a node generates
    Fragile         \* bound: the nodes that crash and are deployed anew

ASSUME MaxKeyAssumption == MaxKey \in Nat

VARIABLES
    pc,             \* pc[n]: how far the startup of n is
    made,           \* made[n]: the number of keys n has generated so far
    private,        \* private[n]: pki_private_key.pem
    cert,           \* cert[n][m]: m's certificate on the disk of n
    signPrivate,    \* signPrivate[n]: signing_private_key.pem
    signPublic,     \* signPublic[n]: signing_public_key.pem
    fetching,       \* fetching[n]: the peers whose fetch_one thread is running
    caUp,           \* is the CA server running?
    requests,       \* CSRs that have not reached sign_csr yet
    writing,        \* CSRs whose certificate is just being stored
    issued          \* issued[n]: n's file in issued_certificates

keys == <<made, private, signPrivate, signPublic>>
authority == <<caUp, requests, writing, issued>>
vars == <<pc, keys, cert, fetching, authority>>
-----------------------------------------------------------------------------
(* A file does not exist, has been truncated, or holds (a certificate of)    *)
(* one of the keys its node has made, which are numbered.                    *)
Missing == 0
Empty == -1
File == Nat \cup {Empty}
Whole(f) == f > 0

Request == [node: Node, key: Nat \ {0}]

(* off: not running.  key, certify, sign, publish: the file of that step is  *)
(* truncated or about to be written.  submit, posted: between two attempts   *)
(* of submit_csr_to_ca, and waiting for an answer.  exited: the startup has  *)
(* ended without Raft.                                                       *)
Step == {"off", "key", "submit", "posted", "certify", "fetch",
         "signing", "sign", "publish", "check", "running", "exited"}

TypeOK ==
    /\ pc \in [Node -> Step]
    /\ made \in [Node -> Nat]
    /\ private \in [Node -> File]
    /\ cert \in [Node -> [Node -> File]]
    /\ signPrivate \in [Node -> File]
    /\ signPublic \in [Node -> File]
    /\ fetching \in [Node -> SUBSET Node]
    /\ caUp \in BOOLEAN
    /\ requests \in SUBSET Request
    /\ writing \in SUBSET Request
    /\ issued \in [Node -> File]

Init ==
    /\ pc = [n \in Node |-> "off"]
    /\ made = [n \in Node |-> 0]
    /\ private = [n \in Node |-> Missing]
    /\ cert = [n \in Node |-> [m \in Node |-> Missing]]
    /\ signPrivate = [n \in Node |-> Missing]
    /\ signPublic = [n \in Node |-> Missing]
    /\ fetching = [n \in Node |-> {}]
    /\ caUp = TRUE
    /\ requests = {}
    /\ writing = {}
    /\ issued = [n \in Node |-> Missing]
-----------------------------------------------------------------------------
(* Mutant: a node enrols again as long as it has no certificate.             *)
Boot_Again(n) ==
    /\ pc[n] \in {"off", "exited"}
    /\ \/ /\ cert[n][n] = Missing
          /\ private' = [private EXCEPT ![n] = Empty]
          /\ pc' = [pc EXCEPT ![n] = "key"]
       \/ /\ cert[n][n] # Missing
          /\ pc' = [pc EXCEPT ![n] = "signing"]
          /\ UNCHANGED private
    /\ UNCHANGED <<made, signPrivate, signPublic, cert, fetching, authority>>

(* A node that has no private key enrols; one that has one does not.         *)
Boot(n) ==
    /\ pc[n] \in {"off", "exited"}
    /\ \/ /\ private[n] = Missing
          /\ private' = [private EXCEPT ![n] = Empty]
          /\ pc' = [pc EXCEPT ![n] = "key"]
       \/ /\ private[n] # Missing
          /\ pc' = [pc EXCEPT ![n] = "signing"]
          /\ UNCHANGED private
    /\ UNCHANGED <<made, signPrivate, signPublic, cert, fetching, authority>>

(* generate_keys and generate_csr: the CSR is for the key just written.      *)
WriteKey(n) ==
    /\ pc[n] = "key"
    /\ made' = [made EXCEPT ![n] = @ + 1]
    /\ private' = [private EXCEPT ![n] = made[n] + 1]
    /\ pc' = [pc EXCEPT ![n] = "submit"]
    /\ UNCHANGED <<signPrivate, signPublic, cert, fetching, authority>>

(* submit_csr_to_ca: one attempt; an attempt that fails, after which there   *)
(* may be another; and giving up, whose result the startup does not look at. *)
OwnRequest(n) == [node |-> n, key |-> private[n]]

Peers(n) == Node \ {n}

Post(n) ==
    /\ pc[n] = "submit"
    /\ caUp
    /\ requests' = requests \cup {OwnRequest(n)}
    /\ pc' = [pc EXCEPT ![n] = "posted"]
    /\ UNCHANGED <<keys, cert, fetching, caUp, writing, issued>>

PostFails(n) ==
    /\ pc[n] = "posted"
    /\ pc' = [pc EXCEPT ![n] = "submit"]
    /\ UNCHANGED <<keys, cert, fetching, authority>>

GiveUp(n) ==
    /\ pc[n] = "submit"
    /\ pc' = [pc EXCEPT ![n] = "fetch"]
    /\ fetching' = [fetching EXCEPT ![n] = Peers(n)]
    /\ UNCHANGED <<keys, cert, authority>>

(* The certificate has arrived in "certify" and is saved. *)
SaveCertificate(n) ==
    /\ pc[n] = "certify"
    /\ cert' = [cert EXCEPT ![n][n] = private[n]]
    /\ pc' = [pc EXCEPT ![n] = "fetch"]
    /\ fetching' = [fetching EXCEPT ![n] = Peers(n)]
    /\ UNCHANGED <<keys, authority>>

(* Mutant: what the CA hands out is saved without a look at it.              *)
Fetch_Unchecked(n, m) ==
    /\ pc[n] = "fetch" /\ m \in fetching[n]
    /\ caUp /\ issued[m] # Missing
    /\ cert' = [cert EXCEPT ![n][m] = issued[m]]
    /\ fetching' = [fetching EXCEPT ![n] = @ \ {m}]
    /\ UNCHANGED <<pc, keys, authority>>

(* fetch_one_certificate, a thread per peer: it saves what the CA has, and   *)
(* tries again when it has nothing or hands out a file just truncated; it    *)
(* may run out of attempts.  (Peers' files are not tested for existence, so  *)
(* the truncation of the node's copy is not shown here; Encryptor has it.)   *)
Fetch(n, m) ==
    /\ pc[n] = "fetch" /\ m \in fetching[n]
    /\ caUp /\ Whole(issued[m])
    /\ cert' = [cert EXCEPT ![n][m] = issued[m]]
    /\ fetching' = [fetching EXCEPT ![n] = @ \ {m}]
    /\ UNCHANGED <<pc, keys, authority>>

FetchGivesUp(n, m) ==
    /\ pc[n] = "fetch" /\ m \in fetching[n]
    /\ fetching' = [fetching EXCEPT ![n] = @ \ {m}]
    /\ UNCHANGED <<pc, keys, cert, authority>>

(* All threads are joined: "All certificates fetched". *)
Joined(n) ==
    /\ pc[n] = "fetch" /\ fetching[n] = {}
    /\ pc' = [pc EXCEPT ![n] = "signing"]
    /\ UNCHANGED <<keys, cert, fetching, authority>>

(* The signing keys are generated if the private one is missing. *)
NeedSigningKey(n) ==
    /\ pc[n] = "signing"
    /\ \/ /\ signPrivate[n] = Missing
          /\ signPrivate' = [signPrivate EXCEPT ![n] = Empty]
          /\ pc' = [pc EXCEPT ![n] = "sign"]
       \/ /\ signPrivate[n] # Missing
          /\ pc' = [pc EXCEPT ![n] = "check"]
          /\ UNCHANGED signPrivate
    /\ UNCHANGED <<made, private, signPublic, cert, fetching, authority>>

(* Mutant: the public key is written first.                                  *)
WriteSigningKey_PublicFirst(n) ==
    /\ pc[n] = "sign"
    /\ made' = [made EXCEPT ![n] = @ + 1]
    /\ signPublic' = [signPublic EXCEPT ![n] = made[n] + 1]
    /\ pc' = [pc EXCEPT ![n] = "publish"]
    /\ UNCHANGED <<private, signPrivate, cert, fetching, authority>>

WriteSigningKey(n) ==
    /\ pc[n] = "sign"
    /\ made' = [made EXCEPT ![n] = @ + 1]
    /\ signPrivate' = [signPrivate EXCEPT ![n] = made[n] + 1]
    /\ pc' = [pc EXCEPT ![n] = "publish"]
    /\ UNCHANGED <<private, signPublic, cert, fetching, authority>>

PublishSigningKey(n) ==
    /\ pc[n] = "publish"
    /\ signPublic' = [signPublic EXCEPT ![n] = signPrivate[n]]
    /\ pc' = [pc EXCEPT ![n] = "check"]
    /\ UNCHANGED <<made, private, signPrivate, cert, fetching, authority>>

(* Without a certificate of its own the node does not start Raft. *)
Check(n) ==
    /\ pc[n] = "check"
    /\ pc' = [pc EXCEPT ![n] = IF cert[n][n] = Missing THEN "exited" ELSE "running"]
    /\ UNCHANGED <<keys, cert, fetching, authority>>

(* The process dies at any point of this; or its host is set up anew.        *)
Crash(n) ==
    /\ n \in Fragile /\ pc[n] \notin {"off", "exited"}
    /\ pc' = [pc EXCEPT ![n] = "off"]
    /\ fetching' = [fetching EXCEPT ![n] = {}]
    /\ UNCHANGED <<keys, cert, authority>>

Redeploy(n) ==
    /\ pc[n] \in {"off", "exited"}
    /\ n \in Fragile /\ made[n] + 2 <= MaxKey
    /\ private' = [private EXCEPT ![n] = Missing]
    /\ signPrivate' = [signPrivate EXCEPT ![n] = Missing]
    /\ signPublic' = [signPublic EXCEPT ![n] = Missing]
    /\ cert' = [cert EXCEPT ![n] = [m \in Node |-> Missing]]
    /\ UNCHANGED <<pc, made, fetching, authority>>
-----------------------------------------------------------------------------
(* Mutant: the CA refuses to issue a second certificate for a node.          *)
CaSign_Once(r) ==
    /\ caUp /\ r \in requests
    /\ requests' = requests \ {r}
    /\ writing' = IF issued[r.node] = Missing THEN writing \cup {r} ELSE writing
    /\ issued' = [issued EXCEPT ![r.node] = IF @ = Missing THEN Empty ELSE @]
    /\ UNCHANGED <<pc, keys, cert, fetching, caUp>>

(* sign_csr: several workers serve requests, so that the file written        *)
(* outside the lock is truncated and written concurrently with everything    *)
(* else.  The answer goes to the node if it still waits for it, which then   *)
(* opens its own file.  (An answer that is lost is a PostFails before it.)   *)
CaSign(r) ==
    /\ caUp /\ r \in requests
    /\ requests' = requests \ {r}
    /\ writing' = writing \cup {r}
    /\ issued' = [issued EXCEPT ![r.node] = Empty]
    /\ UNCHANGED <<pc, keys, cert, fetching, caUp>>

CaStore(r) ==
    /\ caUp /\ r \in writing
    /\ writing' = writing \ {r}
    /\ issued' = [issued EXCEPT ![r.node] = r.key]
    /\ \/ /\ pc[r.node] = "posted" /\ private[r.node] = r.key
          /\ pc' = [pc EXCEPT ![r.node] = "certify"]
          /\ cert' = [cert EXCEPT ![r.node][r.node] = Empty]
       \/ /\ ~(pc[r.node] = "posted" /\ private[r.node] = r.key)
          /\ UNCHANGED <<pc, cert>>
    /\ UNCHANGED <<keys, fetching, caUp, requests>>

(* The CA goes down with whatever it was doing, and comes up with the        *)
(* certificates on its disk.                                                 *)
CaStop ==
    /\ caUp
    /\ caUp' = FALSE
    /\ requests' = {} /\ writing' = {}
    /\ UNCHANGED <<pc, keys, cert, fetching, issued>>

(* Mutant: the server starts with an empty issued_certificates.              *)
CaStart_Clears ==
    /\ ~caUp
    /\ caUp' = TRUE
    /\ issued' = [n \in Node |-> Missing]
    /\ UNCHANGED <<pc, keys, cert, fetching, requests, writing>>

CaStart ==
    /\ ~caUp
    /\ caUp' = TRUE
    /\ UNCHANGED <<pc, keys, cert, fetching, requests, writing, issued>>

NodeStep(n) ==
    \/ Boot(n) \/ WriteKey(n)
    \/ Post(n) \/ PostFails(n) \/ GiveUp(n) \/ SaveCertificate(n)
    \/ \E m \in Node : Fetch(n, m) \/ FetchGivesUp(n, m)
    \/ Joined(n)
    \/ NeedSigningKey(n) \/ WriteSigningKey(n) \/ PublishSigningKey(n)
    \/ Check(n)
    \/ Crash(n) \/ Redeploy(n)

Next ==
    \/ \E n \in Node : NodeStep(n)
    \/ \E r \in requests : CaSign(r)
    \/ \E r \in writing : CaStore(r)
    \/ CaStop
    \/ CaStart

Spec == Init /\ [][Next]_vars
-----------------------------------------------------------------------------
(* Whatever crashed in between: a certificate of the node on its own disk is *)
(* for the private key beside it (or is a file that a crash left empty), and *)
(* a public signing key belongs to the private one.                          *)
KeysMatch ==
    \A n \in Node :
        /\ cert[n][n] \in {Missing, Empty, private[n]}
        /\ signPublic[n] \in {Missing, signPrivate[n]}
        /\ pc[n] = "running" => Whole(private[n])

(* Although the CA truncates a certificate file before it writes it, outside *)
(* its lock, no node ever takes an empty certificate of a peer from it, and  *)
(* what it takes is for a key the peer has made.                             *)
PeersAreWhole ==
    \A n \in Node : \A m \in Peers(n) : cert[n][m] \in 0 .. made[m]

(* The CA has a whole certificate of n to hand out, or is just rewriting it. *)
Listed(n) == Whole(issued[n]) \/ \E r \in writing : r.node = n

(* A node that holds a certificate can be found at the CA by its peers: when *)
(* it gets the certificate, the CA has the same one to hand out, and from    *)
(* then on it has a whole one for it or is rewriting it, over its restarts   *)
(* too - unless it stops during such a rewriting, on a repeated or belated   *)
(* CSR of the node, which leaves the file empty.                             *)
EnrolledIsListed ==
    [][\A n \in Node :
          /\ cert[n][n] = Missing /\ cert'[n][n] # Missing => issued'[n] = private[n]
          /\ cert[n][n] # Missing /\ Listed(n) =>
               Listed(n)' \/ (CaStop /\ \E r \in writing : r.node = n)]_vars

(* The supporting facts that make these invariants inductive: what each step *)
(* of the startup finds on the disk, and that no key is used before its node *)
(* has made it.                                                              *)
DiskMatchesStep(n) ==
    /\ pc[n] = "key" => private[n] = Empty
    /\ pc[n] \in {"submit", "posted", "certify"} => Whole(private[n])
    /\ pc[n] \in {"submit", "posted"} => cert[n][n] = Missing
    /\ pc[n] = "certify" => cert[n][n] = Empty
    /\ ~Whole(private[n]) => cert[n][n] = Missing
    /\ pc[n] = "sign" => signPrivate[n] = Empty
    /\ pc[n] = "publish" => Whole(signPrivate[n]) /\ signPublic[n] = Missing
    /\ ~Whole(signPrivate[n]) => signPublic[n] = Missing
    /\ pc[n] = "running" => cert[n][n] # Missing
    /\ private[n] = Missing => pc[n] \in {"off", "exited"}
    /\ n \notin fetching[n]
    /\ \A m \in fetching[n] : cert[n][m] = Missing
    /\ private[n] = Missing \/ pc[n] \in {"key", "submit", "posted", "certify"} =>
         \A m \in Peers(n) : cert[n][m] = Missing

KeysAreMade ==
    /\ \A n \in Node : private[n] <= made[n] /\ issued[n] <= made[n]
    /\ \A r \in requests \cup writing : r.key <= made[r.node]

IndInv ==
    /\ TypeOK
    /\ \A n \in Node : DiskMatchesStep(n)
    /\ KeysAreMade
    /\ KeysMatch /\ PeersAreWhole

(* Requests, answers that come late or twice, retries, files written in two  *)
(* steps and crashes between them add up to members whose keys and           *)
(* certificates appear whole and stay: a file counts once its content is     *)
(* there.                                                                    *)
Content(f) == IF Whole(f) THEN f ELSE Missing

Contents(files) == [n \in Node |-> Content(files[n])]
OwnCertificates(certs) == [n \in Node |-> Content(certs[n][n])]
PeerCertificates(certs) ==
    [n \in Node |-> [m \in Node |-> IF m = n THEN Missing ELSE Content(certs[n][m])]]
Running == [n \in Node |-> pc[n] = "running"]

Members == INSTANCE Membership WITH
    key <- Contents(private),
    certified <- OwnCertificates(cert),
    signing <- Contents(signPrivate),
    public <- Contents(signPublic),
    known <- PeerCertificates(cert),
    running <- Running

ImplementsMembership == Members!Spec

(* What the startup and fetch_all_certificates report once the threads are   *)
(* joined: all certificates have been fetched.                               *)
AllCertificatesFetched ==
    [][\A n \in Node : Joined(n) => \A m \in Peers(n) : Whole(cert[n][m])]_vars
-----------------------------------------------------------------------------
(* A node that was interrupted between its key and its certificate: no later *)
(* start enrols it.                                                          *)
Stuck(n) ==
    /\ private[n] # Missing /\ cert[n][n] = Missing
    /\ pc[n] \notin {"key", "submit", "posted"}

(* The startup goes on: attempts end, threads run out of theirs, a node that *)
(* is down is started again.  The CA serves and is started again.            *)
PostLost(n) == PostFails(n) /\ OwnRequest(n) \notin requests \cup writing

Startup(n) ==
    \/ Boot(n) \/ WriteKey(n) \/ Post(n) \/ PostLost(n) \/ SaveCertificate(n)
    \/ \E m \in Node : FetchGivesUp(n, m)
    \/ Joined(n)
    \/ NeedSigningKey(n) \/ WriteSigningKey(n) \/ PublishSigningKey(n)
    \/ Check(n)

Fairness ==
    /\ \A n \in Node : WF_vars(Startup(n))
    /\ WF_vars(\E r \in requests : CaSign(r))
    /\ WF_vars(\E r \in writing : CaStore(r))
    /\ WF_vars(CaStart)

Disturbance ==
    \/ \E n \in Node : Crash(n) \/ Redeploy(n)
    \/ \E n \in Node : PostFails(n) /\ OwnRequest(n) \in requests \cup writing
    \/ CaStop

CalmSpec == Spec /\ Fairness /\ <>[][~Disturbance]_vars

(* Nodes wait for the CA and for each other's certificates; once nothing is  *)
(* disturbed any more, every node starts Raft, except one that was           *)
(* interrupted between its key and its certificate.                          *)
Starts == \A n \in Node : <>[](pc[n] = "running" \/ Stuck(n))
=============================================================================
