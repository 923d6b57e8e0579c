----------------------------- MODULE Encryptor ------------------------------
(* The hybrid encryptor (src/src/encryptor.py, AsymmetricEncryptor) and the  *)
(* certificates it works with: which public keys a node has on disk, which   *)
(* it has loaded, for whom a message is encrypted, and who can read it.      *)
(* Certificates come from the CA at enrolment and, ever newer, from the      *)
(* handshakes of the transport, which save them and call                     *)
(* _load_certificates.                                                       *)
(*                                                                           *)
(* A certificate is the generation of the PKI key it was issued for: a node  *)
(* deployed anew generates the next one.  The connections are those of       *)
(* Transport seen from far: one per pair, breaking at both ends at once,     *)
(* except for handshakes that are still in a buffer and are handled late.    *)
(* As in Transport, what a set-up that was interrupted has left on the disk  *)
(* of a node decides whether its handshakes bring a certificate and whether  *)
(* they are taken.                                                           *)
EXTENDS Integers, FiniteSets

CONSTANTS
    Node,           \* the members, ordered as the code orders their addresses
    MaxKey,         \* bound: generations of PKI keys
    Redeployable,   \* bound: the nodes that are deployed anew
    Deployments,    \* bound: what the deployments of the nodes may leave on disk
    MaxMail,        \* bound: Raft messages in flight
    MaxLate,        \* bound: handshakes left over from broken connections
    EnabledFrom,    \* certificates from which on encryption is on (3)
    MaxRecipients   \* decrypt's limit on the recipients of a packet (100)

ASSUME NodeAssumption == Node \subseteq Nat /\ IsFiniteSet(Node)
ASSUME MaxKeyAssumption == MaxKey \in Nat \ {0}
ASSUME BoundsAssumption == MaxMail \in Nat /\ MaxLate \in Nat /\ Redeployable \subseteq Node
ASSUME EnabledFromAssumption == EnabledFrom \in Nat
ASSUME RecipientsAssumption == MaxRecipients \in Nat

None == 0
Key == 1 .. MaxKey
Certificates == [Node -> Key \cup {None}]

(* Everything is there; no whole public signing key; an empty private        *)
(* signing key; an empty file for the node's own certificate.                *)
Grade == {"valid", "unverifiable", "unsigned", "blank"}

ASSUME DeploymentsAssumption == Deployments \subseteq [Node -> [Key -> Grade]]

VARIABLES
    disk,       \* disk[n][k]: what the k-th deployment of n leaves on its disk
    key,        \* key[n]: generation of n's private key
    file,       \* file[n][m]: m's certificate on n's disk, None if not whole
    public,     \* public[n][m]: public_keys of n's encryptor, at m
    link,       \* link[n][m], n > m: the connection n dials to m
    late,       \* handshakes of broken connections that are still unread
    mail        \* the Raft messages on their way

vars == <<disk, key, file, public, link, late, mail>>
certificates == <<disk, key, file, public>>
-----------------------------------------------------------------------------
(* How far a connection is: the dialling side's handshake is on its way, the *)
(* accepting side's answer is on its way, both are done.                     *)
Link == {"down", "greeted", "answered", "up"}

(* A message as encrypt_at_time packs it: encrypted or not, for how many     *)
(* recipients, and under which key of the node it is sent to.                *)
Packet == [from: Node, to: Node, sealed: BOOLEAN,
           recipients: 0 .. Cardinality(Node), slot: Key \cup {None}]

Handshake == [from: Node, to: Node, certificate: Key]

TypeOK ==
    /\ disk \in [Node -> [Key -> Grade]]
    /\ key \in [Node -> Key]
    /\ file \in [Node -> Certificates]
    /\ public \in [Node -> Certificates]
    /\ link \in [Node -> [Node -> Link]]
    /\ late \in SUBSET Handshake
    /\ mail \in SUBSET Packet

Count(certs) == Cardinality({m \in Node : certs[m] # None})

(* Mutant: the first certificate is taken for a peer's.                      *)
Enabled_MoreThan(n) == Count(public[n]) > EnabledFrom

(* Encryption is on from a number of certificates, the node's own included.  *)
Enabled(n) == Count(public[n]) >= EnabledFrom

(* What enrolment leaves on the disk of n: its own certificate, and those of *)
(* the peers that fetch_all_certificates could get in time.  A set-up that   *)
(* left the node's own certificate empty has fetched none, and the next      *)
(* start does not make up for it: there is a private key (cryptobj.py:209).  *)
Fetched(n, keys) ==
    IF disk[n][keys[n]] = "blank" THEN {[m \in Node |-> None]}
    ELSE {certs \in Certificates : \A m \in Node : certs[m] \in {None, keys[m]}
                                   /\ (m = n => certs[m] = keys[n])}

GradeOf(n) == disk[n][key[n]]

Init ==
    /\ disk \in Deployments
    /\ key = [n \in Node |-> 1]
    /\ file \in [Node -> Certificates]
    /\ \A n \in Node : file[n] \in Fetched(n, key)
    /\ public = file
    /\ link = [n \in Node |-> [m \in Node |-> "down"]]
    /\ late = {}
    /\ mail = {}
-----------------------------------------------------------------------------
(* Mutants: the certificate is not loaded, or not saved.                     *)
Learn_NotLoaded(n, m, certificate) ==
    /\ file' = [file EXCEPT ![n][m] = certificate]
    /\ UNCHANGED <<disk, key, public>>

Learn_NotSaved(n, m, certificate) ==
    /\ public' = [public EXCEPT ![n][m] = certificate]
    /\ UNCHANGED <<disk, key, file>>

(* A handshake handler of n saves the certificate of m that came with it and *)
(* calls _load_certificates, which takes over what is on disk only if there  *)
(* are more certificates than before.                                        *)
Learn(n, m, certificate) ==
    LET certs == [file[n] EXCEPT ![m] = certificate] IN
    /\ file' = [file EXCEPT ![n] = certs]
    /\ public' = [public EXCEPT ![n] =
                    IF Count(certs) > Count(@) THEN certs ELSE @]
    /\ UNCHANGED <<disk, key>>

(* A handshake of m's k-th deployment, taken by n: only one that brings a    *)
(* certificate, a signature and the key to check it with changes anything.   *)
Take(n, m, k) ==
    IF disk[m][k] = "valid" THEN Learn(n, m, k) ELSE UNCHANGED certificates

(* Does n take a handshake of m's k-th deployment?  A signature that does    *)
(* not verify is rejected, on the side that dialled only if there is one;    *)
(* without a certificate nothing is checked.                                 *)
Admits(n, m, k) ==
    \/ disk[m][k] \in {"valid", "blank"}
    \/ disk[m][k] = "unsigned" /\ n > m

(* The dialling side connects and sends its handshake.  What was left in the *)
(* buffer of its connection object is gone.                                  *)
Greet(n, m) ==
    /\ n > m
    /\ link[n][m] = "down"
    /\ link' = [link EXCEPT ![n][m] = "greeted"]
    /\ late' = {handshake \in late : ~(handshake.from = m /\ handshake.to = n)}
    /\ UNCHANGED <<certificates, mail>>

(* The accepting side m handles it and answers; then n handles the answer.   *)
Answer(n, m) ==
    /\ link[n][m] = "greeted"
    /\ Admits(m, n, key[n])
    /\ Take(m, n, key[n])
    /\ link' = [link EXCEPT ![n][m] = "answered"]
    /\ UNCHANGED <<late, mail>>

(* Mutant: the dialling side does not look at the certificate it is sent.    *)
Finish_NotLearned(n, m) ==
    /\ link[n][m] = "answered"
    /\ Admits(n, m, key[m])
    /\ link' = [link EXCEPT ![n][m] = "up"]
    /\ UNCHANGED <<certificates, late, mail>>

Finish(n, m) ==
    /\ link[n][m] = "answered"
    /\ Admits(n, m, key[m])
    /\ Take(n, m, key[m])
    /\ link' = [link EXCEPT ![n][m] = "up"]
    /\ UNCHANGED <<late, mail>>

(* The connection of n and m ends.  A handshake that was under way may still *)
(* be in its receiver's buffer.                                              *)
Unread(n, m) ==
    CASE link[n][m] = "greeted"  -> {[from |-> n, to |-> m, certificate |-> key[n]]}
      [] link[n][m] = "answered" -> {[from |-> m, to |-> n, certificate |-> key[m]]}
      [] OTHER -> {}

Between(n, m) == {packet \in mail : {packet.from, packet.to} = {n, m}}

Ended(n, m) ==
    /\ link' = [link EXCEPT ![n][m] = "down", ![m][n] = "down"]
    /\ mail' = mail \ Between(n, m)

Break(n, m) ==
    /\ link[n][m] # "down"
    /\ Ended(n, m)
    /\ \E left \in SUBSET Unread(n, m) :
          /\ Cardinality(late \cup left) <= MaxLate
          /\ late' = late \cup left
    /\ UNCHANGED certificates

(* A handshake is rejected: its reader disconnects.                          *)
Reject(n, m) ==
    /\ \/ link[n][m] = "greeted" /\ ~Admits(m, n, key[n])
       \/ link[n][m] = "answered" /\ ~Admits(n, m, key[m])
    /\ Ended(n, m)
    /\ UNCHANGED <<certificates, late>>

(* A handshake of a connection that is gone is read.  If it is taken, its    *)
(* connection displaces the one there is (transport.py:402) for its reader,  *)
(* which has nothing to send on any more; the sender of the handshake will   *)
(* find that connection silent.  If it is rejected nothing changes.          *)
LateHandshake(handshake) ==
    LET taken == Admits(handshake.to, handshake.from, handshake.certificate) IN
    /\ Take(handshake.to, handshake.from, handshake.certificate)
    /\ \/ taken /\ Ended(handshake.from, handshake.to)
       \/ ~taken /\ UNCHANGED <<link, mail>>
    /\ late' = late \ {handshake}

(* n saves a certificate of m: it truncates the file and writes it again.    *)
Saves(n, m) ==
    \/ link[m][n] = "greeted" /\ GradeOf(m) = "valid"
    \/ link[n][m] = "answered" /\ GradeOf(m) = "valid"
    \/ \E handshake \in late :
          /\ handshake.to = n /\ handshake.from = m
          /\ disk[m][handshake.certificate] = "valid"

(* n crashes in between, and starts again with the certificates that are     *)
(* whole.  Its connections are gone; what it had written to them may still   *)
(* be read by its peers.                                                     *)
CrashSaving(n, m) ==
    /\ Saves(n, m)
    /\ file' = [file EXCEPT ![n][m] = None]
    /\ public' = [public EXCEPT ![n] = [file[n] EXCEPT ![m] = None]]
    /\ link' = [a \in Node |-> [b \in Node |->
                   IF n \in {a, b} THEN "down" ELSE link[a][b]]]
    /\ mail' = {packet \in mail : n \notin {packet.from, packet.to}}
    /\ \E left \in SUBSET {handshake \in Handshake :
                               /\ handshake.from = n
                               /\ \/ handshake \in Unread(n, handshake.to)
                                  \/ handshake \in Unread(handshake.to, n)} :
          LET others == {handshake \in late : handshake.to # n} IN
          /\ Cardinality(others \cup left) <= MaxLate
          /\ late' = others \cup left
    /\ UNCHANGED <<disk, key>>

(* n has attached the encryptor to its connection with m. *)
Attached(n, m) ==
    \/ link[n][m] = "up"
    \/ link[m][n] \in {"answered", "up"}

(* encrypt_at_time: in the clear unless enabled, else for every key loaded.  *)
Packed(n, m) ==
    [from |-> n, to |-> m, sealed |-> Enabled(n),
     recipients |-> IF Enabled(n) THEN Count(public[n]) ELSE 0,
     slot |-> IF Enabled(n) THEN public[n][m] ELSE None]

Send(n, m) ==
    /\ Attached(n, m)
    /\ Cardinality(mail) < MaxMail
    /\ mail' = mail \cup {Packed(n, m)}
    /\ UNCHANGED <<certificates, link, late>>

(* Mutant: the limit itself is too many.                                     *)
Opens_BelowLimit(packet) ==
    \/ ~packet.sealed
    \/ packet.recipients < MaxRecipients /\ packet.slot = key[packet.to]

(* decrypt: one of the slots opens, or the packet counts as plaintext.  Too  *)
(* many recipients are taken for plaintext as well, and what comes out of    *)
(* that cannot be decompressed.                                              *)
Opens(packet) ==
    \/ ~packet.sealed
    \/ packet.recipients <= MaxRecipients /\ packet.slot = key[packet.to]

Deliver(packet) ==
    /\ Attached(packet.to, packet.from)
    /\ Opens(packet)
    /\ mail' = mail \ {packet}
    /\ UNCHANGED <<certificates, link, late>>

(* decrypt raises "Cannot decrypt key": the connection is reset.             *)
Reset(packet) ==
    /\ Attached(packet.to, packet.from)
    /\ ~Opens(packet)
    /\ Ended(packet.from, packet.to)
    /\ UNCHANGED <<certificates, late>>

Unlinked(n) == \A m \in Node : link[n][m] = "down" /\ link[m][n] = "down"

(* The process is started again, with the certificates on its disk; or the   *)
(* node is deployed anew, with an empty disk, and enrols with a new key.     *)
Restart(n) ==
    /\ Unlinked(n)
    /\ public' = [public EXCEPT ![n] = file[n]]
    /\ late' = {handshake \in late : handshake.to # n}
    /\ UNCHANGED <<disk, key, file, link, mail>>

Redeploy(n) ==
    /\ Unlinked(n)
    /\ n \in Redeployable /\ key[n] < MaxKey
    /\ key' = [key EXCEPT ![n] = @ + 1]
    /\ \E certs \in Fetched(n, key') :
          /\ file' = [file EXCEPT ![n] = certs]
          /\ public' = [public EXCEPT ![n] = certs]
    /\ late' = {handshake \in late : handshake.to # n}
    /\ UNCHANGED <<disk, link, mail>>

Next ==
    \/ \E n \in Node : Restart(n) \/ Redeploy(n)
    \/ \E handshake \in late : LateHandshake(handshake)
    \/ \E packet \in mail : Deliver(packet) \/ Reset(packet)
    \/ \E n, m \in Node :
          \/ Greet(n, m) \/ Answer(n, m) \/ Finish(n, m) \/ Reject(n, m)
          \/ Break(n, m) \/ CrashSaving(n, m) \/ Send(n, m)

Spec == Init /\ [][Next]_vars
-----------------------------------------------------------------------------
(* Every certificate on disk is in use, in some generation: reloading only   *)
(* when their number has grown misses none.                                  *)
CertificatesInUse ==
    \A n, m \in Node : public[n][m] = None <=> file[n][m] = None

(* What is encrypted is encrypted for its receiver too: a node that answers  *)
(* or is answered with a certificate has been added to the recipients,       *)
(* whatever certificates were missing, lost or replaced before.              *)
SlotForReceiver ==
    \A packet \in mail :
        packet.sealed /\ GradeOf(packet.to) = "valid" => packet.slot # None

(* Why a packet for a node with a certificate fails to open: it has more     *)
(* recipients than decrypt looks at, or it was encrypted for an earlier key  *)
(* of its receiver while the certificate for the present one was on the      *)
(* sender's disk already - which a restart of the sender would load, but     *)
(* _load_certificates, having found no more of them than before, did not.    *)
FailsOnlyIfStale ==
    \A packet \in mail : GradeOf(packet.to) = "valid" =>
        \/ Opens(packet)
        \/ packet.recipients > MaxRecipients
        \/ /\ packet.slot < key[packet.to]
           /\ file[packet.from][packet.to] = key[packet.to]

(* A node sends in the clear only while it is in touch with too few others:  *)
(* whatever certificates it missed at enrolment, once the connections its    *)
(* encryptor is attached to and its own certificate make up EnabledFrom      *)
(* certificates it is on.                                                    *)
Own(n) == IF GradeOf(n) = "blank" THEN 0 ELSE 1
InTouch(n) == {m \in Node : Attached(n, m) /\ GradeOf(m) = "valid"}

ConnectedEncrypts ==
    \A n \in Node : Cardinality(InTouch(n)) + Own(n) >= EnabledFrom => Enabled(n)

(* Encryption once on stays on, across broken connections, late handshakes   *)
(* and restarts, for as long as the node is not deployed anew - except that  *)
(* a crash which leaves a certificate half written takes it below the limit  *)
(* if it was just there.                                                     *)
EncryptionStaysOn ==
    [][\A n \in Node : Enabled(n) /\ key'[n] = key[n] =>
          \/ Enabled(n)'
          \/ /\ Count(public[n]) = EnabledFrom
             /\ \E m \in Node : file[n][m] # None /\ file'[n][m] = None]_vars

(* Connections are made and their handshakes handled; once nothing breaks or *)
(* is deployed anew, every node that is brought enough certificates encrypts:*)
(* by the nodes that dial it, and by those it dials if they let it in.       *)
Fairness ==
    \A n, m \in Node : /\ WF_vars(Greet(n, m)) /\ WF_vars(Answer(n, m))
                       /\ WF_vars(Finish(n, m)) /\ WF_vars(Reject(n, m))

Disturbance ==
    \/ \E n, m \in Node : Break(n, m) \/ CrashSaving(n, m)
    \/ \E packet \in mail : Reset(packet)
    \/ \E n \in Node : Redeploy(n)

CalmSpec == Spec /\ Fairness /\ <>[][~Disturbance]_vars

Brings(n) == {m \in Node : GradeOf(m) = "valid" /\ (m > n \/ (m < n /\ Admits(m, n, key[n])))}

EveryoneEncrypts ==
    \A n \in Node : <>[](Cardinality(Brings(n)) + Own(n) >= EnabledFrom => Enabled(n))
=============================================================================
