------------------------------ MODULE Envelope ------------------------------
(* The envelope of a Raft message (_wrap_and_sign and _unwrap_and_verify of  *)
(* src/src/transport.py, DigitalSignature): a signature, the addresses of    *)
(* the cluster, a separator and the pickled message, which is looked for     *)
(* again by that separator.  One message is followed, which Raft sends until *)
(* it has arrived, while the sender may be deployed anew, with another key   *)
(* or with what a set-up that was interrupted has left of its files, and the *)
(* receiver restarted.                                                       *)
(*                                                                           *)
(* The signature schemes and pickle are external: a signature verifies with  *)
(* the key it was made with, and only a whole pickle can be read.            *)
EXTENDS Integers, Sequences

CONSTANTS
    Message,        \* the pickles that Raft sends, as sequences of bytes
    Identity,       \* the addresses and the tag that are put before them
    MaxKey          \* bound: deployments of the sender, and so its signing keys

(* Of the bytes only '|' matters; neither addresses nor tags contain it.     *)
Bar == "|"
Other == "x"
Byte == {Bar, Other}

ASSUME MessageAssumption == Message \subseteq Seq(Byte)
ASSUME IdentityAssumption == Identity \in Seq({Other})
ASSUME MaxKeyAssumption == MaxKey \in Nat

VARIABLES
    crypto,         \* _crypto_enabled, at both ends
    message,        \* the message
    dials,          \* is the sender the side that dials?
    made,           \* the deployments of the sender so far
    private,        \* the key its DigitalSignature has loaded
    shown,          \* is its signing_public_key.pem whole?
    certified,      \* is its certificate, which may not be empty?
    stored,         \* _peerSigningKeys of the receiver for it
    linked,         \* are they connected, the handshake taken?
    wire,           \* what is on its way
    arrived         \* has the receiver passed the message to Raft?

fixed == <<crypto, message, dials>>
disk == <<made, private, shown, certified>>
vars == <<fixed, disk, stored, linked, wire, arrived>>
-----------------------------------------------------------------------------
(* The key of a deployment has its number.  A private key file that a crash  *)
(* left empty cannot be loaded; a receiver has no key before a handshake     *)
(* brought it one.                                                           *)
NoKey == 0
Key == 0 .. MaxKey

(* An envelope: the key of its signature, if it has one, and the rest.       *)
Wrapped == [signature: Key, body: Seq(Byte)]
Nothing == <<>>

TypeOK ==
    /\ crypto \in BOOLEAN /\ dials \in BOOLEAN
    /\ message \in Message
    /\ made \in Key /\ private \in Key /\ stored \in Key
    /\ shown \in BOOLEAN /\ certified \in BOOLEAN
    /\ linked \in BOOLEAN
    /\ wire # Nothing => Len(wire) = 1 /\ wire[1] \in Wrapped
    /\ arrived \in BOOLEAN

Separator == <<Bar, Bar>>

(* _wrap_and_sign: DigitalSignature.sign puts the identity before what it    *)
(* signs; without a key it fails, and the message goes unsigned and bare.    *)
Wrap(m, key) ==
    [signature |-> IF crypto THEN key ELSE NoKey,
     body |-> IF crypto /\ key # NoKey THEN Identity \o Separator \o m ELSE m]

(* The places where the separator stands, and what is left of a payload      *)
(* behind the one that payload.find finds.                                   *)
Separators(body) ==
    {i \in 1 .. Len(body) - 1 : body[i] = Bar /\ body[i + 1] = Bar}

First(set) == CHOOSE i \in set : \A j \in set : i <= j

(* Mutant: the last separator counts, as with payload.rfind.                 *)
Behind_Last(body) ==
    LET last == CHOOSE i \in Separators(body) : \A j \in Separators(body) : j <= i
    IN  IF Separators(body) = {} THEN body ELSE SubSeq(body, last + 2, Len(body))

Behind(body) ==
    IF Separators(body) = {} THEN body
    ELSE SubSeq(body, First(Separators(body)) + 2, Len(body))

(* _unwrap_and_verify: with a stored key the signature must be there and be  *)
(* its; without one, everything passes.                                      *)
Verifies(w, key) == ~crypto \/ key = NoKey \/ w.signature = key

Unwrapped(w) == IF crypto THEN Behind(w.body) ELSE w.body
-----------------------------------------------------------------------------
(* What a set-up leaves of the sender's files: a private key or not, and a   *)
(* public one only after it; a certificate or an empty file.                 *)
SetUp(number) ==
    /\ made' = number
    /\ private' \in {NoKey, number}
    /\ shown' \in (IF private' = NoKey THEN {FALSE} ELSE BOOLEAN)
    /\ certified' \in BOOLEAN

Init ==
    /\ crypto \in BOOLEAN /\ dials \in BOOLEAN
    /\ message \in Message
    /\ made = 0 /\ private = NoKey /\ shown = FALSE /\ certified = FALSE
    /\ stored = NoKey /\ linked = FALSE
    /\ wire = Nothing
    /\ arrived = FALSE

(* send, again and again as long as Raft has no answer. *)
Send ==
    /\ linked /\ ~arrived /\ wire = Nothing
    /\ wire' = <<Wrap(message, private)>>
    /\ UNCHANGED <<fixed, disk, stored, linked, arrived>>

(* _onVerifiedMessageReceived: nothing, or what pickle.loads makes of what   *)
(* the envelope held.                                                        *)
Understood == Verifies(wire[1], stored) /\ Unwrapped(wire[1]) = message

Receive ==
    /\ wire # Nothing
    /\ wire' = Nothing
    /\ arrived' = (arrived \/ Understood)
    /\ UNCHANGED <<fixed, disk, stored, linked>>

(* The connection breaks; what was on its way is lost, or still read.        *)
Break ==
    /\ linked
    /\ linked' = FALSE
    /\ wire' \in {wire, Nothing}
    /\ UNCHANGED <<fixed, disk, stored, arrived>>

(* Does the receiver check the handshake of the sender, and does it hold?    *)
(* Without a certificate it is not checked, and on the side that dialled,    *)
(* not without a signature.                                                  *)
Checked == certified /\ (dials \/ private # NoKey)
Holds == private # NoKey /\ shown

(* Mutant: a key that is stored is kept.                                     *)
Handshake_KeepsKey ==
    /\ made > 0 /\ ~linked
    /\ Checked => Holds
    /\ linked' = TRUE
    /\ stored' = IF Checked /\ stored = NoKey THEN private ELSE stored
    /\ UNCHANGED <<fixed, disk, wire, arrived>>

(* A handshake on a new connection, unless it is rejected (which changes     *)
(* nothing): one that was checked brings the key it was checked with.        *)
Handshake ==
    /\ made > 0 /\ ~linked
    /\ Checked => Holds
    /\ linked' = TRUE
    /\ stored' = IF Checked THEN private ELSE stored
    /\ UNCHANGED <<fixed, disk, wire, arrived>>

(* The sender is deployed, for the first time or anew; what it had sent may  *)
(* still be read.  The receiver is restarted, and has forgotten everything.  *)
SenderDeployed ==
    /\ made < MaxKey
    /\ SetUp(made + 1)
    /\ linked' = FALSE
    /\ UNCHANGED <<fixed, stored, wire, arrived>>

ReceiverStarts ==
    /\ stored # NoKey \/ wire # Nothing \/ linked
    /\ stored' = NoKey /\ wire' = Nothing /\ linked' = FALSE
    /\ UNCHANGED <<fixed, disk, arrived>>

Next == Send \/ Receive \/ Break \/ Handshake \/ SenderDeployed \/ ReceiverStarts

Spec == Init /\ [][Next]_vars

(* Raft repeats the message, the sides connect (Transport), and in the end   *)
(* nothing breaks and nobody restarts.                                       *)
Disturbance == Break \/ SenderDeployed \/ ReceiverStarts

CalmSpec ==
    /\ Spec
    /\ WF_vars(Send) /\ WF_vars(Receive) /\ WF_vars(Handshake)
    /\ <>[][~Disturbance]_vars
-----------------------------------------------------------------------------
(* A signed message arrives at a receiver that has the sender's key, or none *)
(* yet, whatever its bytes are: separators in the message itself are not     *)
(* taken for the one that ends the identity.                                 *)
SignedArrives ==
    [][Receive /\ wire[1].signature # NoKey /\ stored \in {NoKey, wire[1].signature}
          => arrived']_vars

(* What is sent again and again arrives, with these exceptions: the sender's *)
(* handshakes are rejected for ever; or (with crypto) the receiver keeps a   *)
(* key of an earlier deployment, which no handshake of the present one       *)
(* replaces; or nobody can sign, and the receiver has a key or the message   *)
(* happens to contain a separator and is cut at it each time, as when the    *)
(* index 31868 (b'||') stands in an append_entries.                          *)
Deaf == Checked /\ ~Holds

Unheard ==
    \/ private # NoKey /\ ~Checked /\ stored \notin {NoKey, private}
    \/ private = NoKey /\ (stored # NoKey \/ Separators(message) # {})

Arrives == made > 0 ~> arrived \/ [](Deaf \/ (crypto /\ Unheard))

(* What makes SignedArrives hold: what is on its way is the message, wrapped *)
(* with the key of its signature.                                            *)
WireIsMessage == wire # Nothing => wire[1] = Wrap(message, wire[1].signature)

IndInv == TypeOK /\ WireIsMessage
=============================================================================
