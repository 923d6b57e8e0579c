------------------------------- MODULE Trust -------------------------------
(* Whom a TLS client believes (--tls): the root certificate a node fetches   *)
(* once, the root its peers' certificates were signed with, and the CA that  *)
(* makes a new root whenever its module is loaded (ca_server.py:11-14): once *)
(* per run of the server under gunicorn --preload (scale_peering.py:69), and *)
(* in every worker without it (botnet.py:72).                                *)
(*                                                                           *)
(* A file that is tested for existence can be left empty by a crash between  *)
(* its truncation and its content.  How a certificate is obtained is         *)
(* followed in Enrollment; here only who signed it matters.  What stands     *)
(* between two nodes besides: handshakes that are rejected for want of a     *)
(* whole signing key, as in Transport, and the constructor of TLS_Session,   *)
(* whose exception ends the thread that serves all connections of a node.    *)
EXTENDS Integers

CONSTANTS
    Node,           \* the addresses of the members, as numbers
    Worker,         \* the worker processes of the CA
    MaxRoot,        \* bound: the roots, and the runs of the CA
    Frail           \* bound: the nodes that give up, crash or are set up anew

ASSUME NodeAssumption == Node \subseteq Int /\ Frail \subseteq Node
ASSUME MaxRootAssumption == MaxRoot \in Nat

VARIABLES
    preload,        \* was gunicorn given --preload?
    run,            \* the runs of the CA server so far
    up,             \* is it running?
    made,           \* the roots made so far
    root,           \* root[w]: ca.root_cert of worker w
    published,      \* certificate.pem beside the CA, which all workers share
    pc,             \* pc[n]: how far the startup of n is
    keyed,          \* keyed[n]: does n have a pki_private_key.pem?
    trusted,        \* trusted[n]: certificate.pem on the disk of n
    issuer,         \* issuer[n]: the root that signed n's own certificate
    signs,          \* signs[n]: what is there of n's signing keys
    secured         \* the pairs whose TLS handshake is complete

ca == <<run, up, made, root, published>>
disk == <<keyed, trusted, issuer, signs>>
vars == <<preload, ca, pc, disk, secured>>
-----------------------------------------------------------------------------
(* A root is known by the run of the CA that made it and by its key.  A file *)
(* may also be missing, or empty.                                            *)
Missing == [run |-> 0, key |-> 0]
Empty == [run |-> 0, key |-> 1]
Root == [run: Nat \ {0}, key: Nat]
File == Root \cup {Missing, Empty}
Whole(f) == f.run # 0

TypeOK ==
    /\ preload \in BOOLEAN /\ up \in BOOLEAN
    /\ run \in Nat /\ made \in Nat
    /\ root \in [Worker -> File]
    /\ published \in File
    /\ pc \in [Node -> {"off", "root", "enrol", "check", "running", "dead"}]
    /\ keyed \in [Node -> BOOLEAN]
    /\ trusted \in [Node -> File]
    /\ issuer \in [Node -> File]
    /\ signs \in [Node -> {"missing", "unsigned", "unverifiable", "whole"}]
    /\ secured \in SUBSET (Node \X Node)

Init ==
    /\ preload \in BOOLEAN
    /\ run = 0 /\ up = FALSE /\ made = 0
    /\ root = [w \in Worker |-> Missing]
    /\ published = Missing
    /\ pc = [n \in Node |-> "off"]
    /\ keyed = [n \in Node |-> FALSE]
    /\ trusted = [n \in Node |-> Missing]
    /\ issuer = [n \in Node |-> Missing]
    /\ signs = [n \in Node |-> "missing"]
    /\ secured = {}
-----------------------------------------------------------------------------
(* The root certificate of a preloaded module.                               *)
NewRoot == [run |-> run + 1, key |-> made + 1]

(* Mutant: the root key is made by each worker after the fork, not when the  *)
(* module is loaded.                                                         *)
CaStart_PerWorker ==
    /\ ~up /\ run < MaxRoot /\ made < MaxRoot
    /\ up' = TRUE /\ run' = run + 1
    /\ UNCHANGED <<preload, made, root, published, pc, disk, secured>>

(* The server starts.  With --preload the module is loaded before the        *)
(* workers are forked and the port is opened; otherwise by each worker.      *)
CaStart ==
    /\ ~up /\ run < MaxRoot /\ made < MaxRoot
    /\ up' = TRUE /\ run' = run + 1
    /\ IF preload
       THEN /\ made' = made + 1
            /\ root' = [w \in Worker |-> NewRoot]
            /\ published' = NewRoot
       ELSE UNCHANGED <<made, root, published>>
    /\ UNCHANGED <<preload, pc, disk, secured>>

(* generate_ca_keys, create_root_certificate, save_certificate in a worker:  *)
(* the file is truncated, then written.                                      *)
Load(w) ==
    /\ up /\ root[w] = Missing /\ made < MaxRoot
    /\ root' = [root EXCEPT ![w] = Empty]
    /\ published' = Empty
    /\ UNCHANGED <<preload, run, up, made, pc, disk, secured>>

Loaded(w) ==
    /\ up /\ root[w] = Empty
    /\ made < MaxRoot
    /\ made' = made + 1
    /\ root' = [root EXCEPT ![w] = [run |-> run, key |-> made + 1]]
    /\ published' = root'[w]
    /\ UNCHANGED <<preload, run, up, pc, disk, secured>>

(* gunicorn replaces a worker that died or was silent for --timeout; one     *)
(* forked from a preloaded server has the root of its predecessor.           *)
Recycle(w) ==
    /\ ~preload
    /\ up /\ root[w] # Missing /\ made < MaxRoot
    /\ root' = [root EXCEPT ![w] = Missing]
    /\ UNCHANGED <<preload, run, up, made, published, pc, disk, secured>>

CaStop ==
    /\ up
    /\ up' = FALSE
    /\ root' = [w \in Worker |-> Missing]
    /\ UNCHANGED <<preload, run, made, published, pc, disk, secured>>
-----------------------------------------------------------------------------
(* Mutant: the root is fetched at every start.                               *)
Boot_Fetches(n) ==
    /\ pc[n] = "off"
    /\ pc' = [pc EXCEPT ![n] = "root"]
    /\ UNCHANGED <<preload, ca, disk, secured>>

(* A start of the node: the root is fetched if there is no file for it, a    *)
(* certificate is applied for if there is no key.                            *)
Boot(n) ==
    /\ pc[n] = "off"
    /\ pc' = [pc EXCEPT ![n] = IF trusted[n] = Missing THEN "root"
                               ELSE IF keyed[n] THEN "check" ELSE "enrol"]
    /\ UNCHANGED <<preload, ca, disk, secured>>

AfterRoot(n) == IF keyed[n] THEN "check" ELSE "enrol"

(* fetch_root_certificate: any worker answers with the file that is there,   *)
(* and an empty one is not saved; it may run out of attempts; the node may   *)
(* die while it saves.                                                       *)
FetchRoot(n) ==
    /\ pc[n] = "root"
    /\ \E w \in Worker : Whole(root[w])
    /\ Whole(published)
    /\ trusted' = [trusted EXCEPT ![n] = published]
    /\ pc' = [pc EXCEPT ![n] = AfterRoot(n)]
    /\ UNCHANGED <<preload, ca, keyed, issuer, signs, secured>>

RootGivesUp(n) ==
    /\ pc[n] = "root"
    /\ pc' = [pc EXCEPT ![n] = AfterRoot(n)]
    /\ UNCHANGED <<preload, ca, disk, secured>>

FetchInterrupted(n) ==
    /\ pc[n] = "root"
    /\ trusted' = [trusted EXCEPT ![n] = Empty]
    /\ pc' = [pc EXCEPT ![n] = "off"]
    /\ UNCHANGED <<preload, ca, keyed, issuer, signs, secured>>

(* sign_csr, by whichever worker serves the request.                         *)
Enrol(n, w) ==
    /\ pc[n] = "enrol"
    /\ Whole(root[w])
    /\ keyed' = [keyed EXCEPT ![n] = TRUE]
    /\ issuer' = [issuer EXCEPT ![n] = root[w]]
    /\ pc' = [pc EXCEPT ![n] = "check"]
    /\ UNCHANGED <<preload, ca, trusted, signs, secured>>

EnrolGivesUp(n) ==
    /\ pc[n] = "enrol"
    /\ keyed' = [keyed EXCEPT ![n] = TRUE]
    /\ pc' = [pc EXCEPT ![n] = "check"]
    /\ UNCHANGED <<preload, ca, trusted, issuer, signs, secured>>

EnrolInterrupted(n) ==
    /\ pc[n] = "enrol"
    /\ keyed' = [keyed EXCEPT ![n] = TRUE]
    /\ \E left \in {Missing, Empty} : issuer' = [issuer EXCEPT ![n] = left]
    /\ pc' = [pc EXCEPT ![n] = "off"]
    /\ UNCHANGED <<preload, ca, trusted, signs, secured>>

(* Signing keys are made if there is no file for the private one; Raft       *)
(* starts if there is a file for the node's own certificate.                 *)
Check(n) ==
    /\ pc[n] = "check"
    /\ signs' = [signs EXCEPT ![n] = IF @ = "missing" THEN "whole" ELSE @]
    /\ pc' = [pc EXCEPT ![n] = IF issuer[n] = Missing THEN "off" ELSE "running"]
    /\ UNCHANGED <<preload, ca, keyed, trusted, issuer, secured>>

(* The node dies while it saves them: in the private one, or the public one. *)
CheckInterrupted(n) ==
    /\ pc[n] = "check" /\ signs[n] = "missing"
    /\ \E left \in {"unsigned", "unverifiable"} : signs' = [signs EXCEPT ![n] = left]
    /\ pc' = [pc EXCEPT ![n] = "off"]
    /\ UNCHANGED <<preload, ca, keyed, trusted, issuer, secured>>
-----------------------------------------------------------------------------
(* _is_client_for: the higher address is the client, which also dials.  It   *)
(* accepts a server whose certificate its root signed; the name in it is     *)
(* that of the node.                                                         *)
IsClient(c, s) == c > s

Trusts(c, s) == Whole(trusted[c]) /\ trusted[c] = issuer[s]

(* Does n take a handshake of m?  It is checked if it brings a certificate   *)
(* and, on the side that dialled, a signature.                               *)
Admits(n, m) ==
    \/ ~Whole(issuer[m])
    \/ signs[m] = "whole"
    \/ signs[m] = "unsigned" /\ n > m

Live(gone) == {link \in secured : gone \cap {link[1], link[2]} = {}}

(* Mutant: the server asks the client for a certificate it trusts, too.      *)
Handshake_Mutual(c, s) ==
    /\ IsClient(c, s) /\ <<c, s>> \notin secured
    /\ pc[c] = "running" /\ pc[s] = "running"
    /\ Admits(s, c) /\ Admits(c, s)
    /\ Trusts(c, s) /\ Trusts(s, c)
    /\ secured' = secured \cup {<<c, s>>}
    /\ UNCHANGED <<preload, ca, pc, disk>>

(* s handles the handshake of c, answers and makes its session, then c, if   *)
(* the answer gets there.  The constructor raises where the server cannot    *)
(* load its certificate or the client its root: the thread of that node ends *)
(* with the exception, and nobody is served any more.  Else the two sessions *)
(* complete the TLS handshake (TlsSession) if the client trusts the server.  *)
Handshake(c, s) ==
    /\ IsClient(c, s) /\ <<c, s>> \notin secured
    /\ pc[c] = "running" /\ pc[s] = "running"
    /\ Admits(s, c)
    /\ \E answered \in BOOLEAN :
          LET taken == answered /\ Admits(c, s)
              raises == {n \in {s} : ~Whole(issuer[s])}
                        \cup {n \in {c} : taken /\ ~Whole(trusted[c])}
          IN  \/ /\ raises # {}
                 /\ pc' = [n \in Node |-> IF n \in raises THEN "dead" ELSE pc[n]]
                 /\ secured' = Live(raises)
              \/ /\ raises = {} /\ taken /\ Trusts(c, s)
                 /\ secured' = secured \cup {<<c, s>>}
                 /\ UNCHANGED pc
    /\ UNCHANGED <<preload, ca, disk>>

(* A connection breaks; a node dies (one without its certificate ends by     *)
(* itself, in Check); its host is set up anew.                               *)
Disconnect(c, s) ==
    /\ <<c, s>> \in secured
    /\ secured' = secured \ {<<c, s>>}
    /\ UNCHANGED <<preload, ca, pc, disk>>

Crash(n) ==
    /\ pc[n] # "off" /\ ~(pc[n] = "check" /\ issuer[n] = Missing)
    /\ pc' = [pc EXCEPT ![n] = "off"]
    /\ secured' = Live({n})
    /\ UNCHANGED <<preload, ca, disk>>

Redeploy(n) ==
    /\ pc[n] = "off"
    /\ keyed' = [keyed EXCEPT ![n] = FALSE]
    /\ trusted' = [trusted EXCEPT ![n] = Missing]
    /\ issuer' = [issuer EXCEPT ![n] = Missing]
    /\ signs' = [signs EXCEPT ![n] = "missing"]
    /\ UNCHANGED <<preload, ca, pc, secured>>

Interrupted(n) == FetchInterrupted(n) \/ EnrolInterrupted(n) \/ CheckInterrupted(n)

Startup(n) ==
    \/ Boot(n)
    \/ FetchRoot(n) \/ (n \in Frail /\ RootGivesUp(n))
    \/ (\E w \in Worker : Enrol(n, w)) \/ (n \in Frail /\ EnrolGivesUp(n))
    \/ Check(n)

Disturbed(n) == n \in Frail /\ (Interrupted(n) \/ Crash(n) \/ Redeploy(n))

NodeStep(n) ==
    \/ Startup(n) \/ Disturbed(n)
    \/ \E m \in Node : Handshake(n, m) \/ Disconnect(n, m)

CaStep == CaStart \/ CaStop \/ \E w \in Worker : Load(w) \/ Loaded(w) \/ Recycle(w)

Next == CaStep \/ \E n \in Node : NodeStep(n)

Spec == Init /\ [][Next]_vars

(* Two nodes whose threads are alive keep trying; the startup goes on; in    *)
(* the end nothing interrupts them.                                          *)
Disturbance ==
    \/ CaStop \/ \E w \in Worker : Recycle(w)
    \/ \E n \in Node : Disturbed(n) \/ \E m \in Node : Disconnect(n, m)

Fairness ==
    /\ \A n \in Node : WF_vars(Startup(n))
    /\ \A n, m \in Node : WF_vars(Handshake(n, m))

CalmSpec == Spec /\ Fairness /\ <>[][~Disturbance]_vars
-----------------------------------------------------------------------------
(* With --preload, a node whose root comes from the same run of the CA as    *)
(* its peer's certificate accepts it, whichever workers served the two and   *)
(* whichever of them were replaced in between.                               *)
SameRunTrusts ==
    preload => \A c, s \in Node :
        /\ Whole(trusted[c]) /\ Whole(issuer[s])
        /\ trusted[c].run = issuer[s].run
        => Trusts(c, s)

(* A peer that was acceptable remains so: neither a restart of a node nor    *)
(* one of the CA, with its new root, can end it, only a new deployment.      *)
TrustLasts ==
    [][\A c, s \in Node :
          Trusts(c, s) => Trusts(c, s)' \/ Redeploy(c) \/ Redeploy(s)]_vars

(* What can keep a client from a server for good, with --preload: it has no  *)
(* usable root, or the server no usable certificate; or the CA was restarted *)
(* between handing out the two; or the client never starts Raft; or one of   *)
(* them rejects the handshakes of the other; or the thread of one of them    *)
(* has ended, in the session with this peer or with another one.             *)
Apart(c, s) ==
    \/ ~Whole(trusted[c]) \/ ~Whole(issuer[s])
    \/ trusted[c].run # issuer[s].run
    \/ issuer[c] = Missing
    \/ ~Admits(s, c) \/ ~Admits(c, s)
    \/ pc[c] = "dead" \/ pc[s] = "dead"

(* Every other pair is secured in the end and stays so. *)
Secured ==
    preload => \A c, s \in Node :
                 IsClient(c, s) => <>[](<<c, s>> \in secured \/ Apart(c, s))

(* The supporting facts: what each step of the startup finds on the disk,    *)
(* what a thread that has ended had to load, and that with --preload a run   *)
(* of the CA has one root, numbered like it.                                 *)
DiskMatchesStep(n) ==
    /\ pc[n] = "root" => trusted[n] = Missing
    /\ pc[n] = "enrol" => ~keyed[n]
    /\ ~keyed[n] => issuer[n] = Missing
    /\ pc[n] \in {"running", "dead"} => issuer[n] # Missing /\ signs[n] # "missing"
    /\ pc[n] = "dead" => \/ ~Whole(issuer[n]) /\ \E c \in Node : IsClient(c, n)
                         \/ ~Whole(trusted[n]) /\ \E s \in Node : IsClient(n, s)

RunRoot(f) == Whole(f) => f.key = f.run

OneRootPerRun ==
    preload => /\ made = run
               /\ \A w \in Worker : root[w] # Empty /\ (up => root[w] # Missing) /\ RunRoot(root[w])
               /\ RunRoot(published)
               /\ \A n \in Node : RunRoot(trusted[n]) /\ RunRoot(issuer[n])

IndInv == TypeOK /\ (up => run # 0) /\ OneRootPerRun /\ \A n \in Node : DiskMatchesStep(n)
=============================================================================
