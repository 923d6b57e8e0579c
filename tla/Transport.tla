----------------------------- MODULE Transport -----------------------------
(* The connection layer of CryptObj (src/src/transport.py, class             *)
(* TCPTransport): how the nodes of a cluster dial each other, exchange       *)
(* signed handshakes, switch a connection to the encryptor, report peers to  *)
(* SyncObj and pass signed Raft messages.                                    *)
(*                                                                           *)
(* All callbacks of a node run in its one tick thread, so each handler is    *)
(* one atomic action.  The classes TcpConnection and TcpServer and the       *)
(* kernel's TCP are external: they are modelled from how the transport uses  *)
(* them (a connection object is CONNECTING, CONNECTED or DISCONNECTED, its   *)
(* encryptor is applied when a message is sent and when one is parsed, and a *)
(* message that cannot be parsed disconnects it).                            *)
EXTENDS Integers, Sequences, FiniteSets

CONSTANTS
    Node,       \* the members' addresses, ordered as the code orders them
    Id,         \* identities for the sockets between two nodes
    Crypto,     \* is syncObj.encryptor set (no --no-crypto flag)?
    MaxKey,     \* bound: signing-key generations a node can be deployed with
    Deployments,\* bound: what the deployments of the nodes may leave on disk
    MaxInbox,   \* bound: messages in flight on one direction of a connection
    NoConn,     \* _connections has no entry for the peer
    Idle        \* _connections has a DISCONNECTED object for the peer

ASSUME NodeAssumption == Node \subseteq Nat
ASSUME CryptoAssumption == Crypto \in BOOLEAN
ASSUME MaxKeyAssumption == MaxKey \in Nat \ {0}
ASSUME MaxInboxAssumption == MaxInbox \in Nat

(* What setting a node up leaves on its disk, for as long as it is not set   *)
(* up anew.  An interrupted set-up that has written the private keys is not  *)
(* repeated (cryptobj.py:209 and 225 test for those two files), and nothing  *)
(* tests what else is there:                                                 *)
(*   valid          the node's certificate and both signing keys;            *)
(*   unverifiable   no whole signing_public_key.pem;                         *)
(*   unsigned       an empty signing_private_key.pem, and no public key;     *)
(*   blank          an empty file for the node's own certificate, which      *)
(*                  cryptobj.py:236 takes for one (any signing keys).        *)
Grade == {"valid", "unverifiable", "unsigned", "blank"}
Generation == 1 .. MaxKey

ASSUME DeploymentsAssumption ==
    Deployments \subseteq [Node -> [Generation -> Grade]]

VARIABLES
    disk,       \* disk[n][k]: what the k-th deployment of n leaves on its disk
    alive,      \* alive[n]: the process of n is running
    signKey,    \* signKey[n]: n's present deployment, and its signing key
    conn,       \* conn[n][m]: _connections of n, at m
    unknown,    \* unknown[n]: _unknownConnections of n
    peerKey,    \* peerKey[n][m]: _peerSigningKeys of n, at m
    up,         \* up[n]: the peers SyncObj was told are connected
    phase,      \* phase[e]: state and message handler of the connection e
    enc,        \* enc[e]: is e.encryptor set?
    inbox       \* inbox[e]: the messages on their way to e

local == <<disk, alive, signKey, conn, unknown, peerKey, up>>
wire == <<phase, enc, inbox>>
vars == <<local, wire>>
-----------------------------------------------------------------------------
(* A TcpConnection object is one of the two ends of a socket: it belongs to  *)
(* the node own, its peer is the node peer.                                  *)
End == {e \in [own: Node, peer: Node, id: Id] : e.own # e.peer}
Other(e) == [own |-> e.peer, peer |-> e.own, id |-> e.id]

(* Of two nodes the one with the greater address dials. *)
ShouldConnect(n, m) == n > m
Outgoing(e) == ShouldConnect(e.own, e.peer)

ASSUME NoEndAssumption ==
    /\ NoConn # Idle
    /\ NoConn \notin End /\ Idle \notin End

NoKey == 0
Key == 0 .. MaxKey

GradeOf(n) == disk[n][signKey[n]]

(* closed: DISCONNECTED, no events any more.  backlog: established by the    *)
(* kernel, not yet accepted by TcpServer.  handshake: CONNECTED, the next    *)
(* message goes to _onIncomingMessageReceived or, on an outgoing connection, *)
(* to _onOutgoingHandshakeResponse.  verified: CONNECTED, messages go to     *)
(* _onVerifiedMessageReceived.                                               *)
Phase == {"closed", "connecting", "backlog", "handshake", "verified"}
Open(e) == phase[e] # "closed"
Connected(e) == phase[e] \in {"handshake", "verified"}

Message == [type: {"handshake", "raft"}, sealed: BOOLEAN, key: Generation]

(* Mutant: the handshake goes through the encryptor as well.                 *)
Outbound_AlwaysSealed(e, type) ==
    [type |-> type, sealed |-> Crypto, key |-> signKey[e.own]]

(* A message as TcpConnection.send ships it on e: the connection's encryptor *)
(* at that moment decides whether it is encrypted.                           *)
Outbound(e, type) == [type |-> type, sealed |-> enc[e], key |-> signKey[e.own]]

(* What the peer finds in its buffer once e has sent: nothing if the peer's  *)
(* socket is gone.                                                           *)
Delivered(e, msg, box) ==
    IF Open(Other(e)) THEN [box EXCEPT ![Other(e)] = Append(@, msg)] ELSE box

(* Connections of n to m whose identity is free on both sides. *)
Fresh(n, m) == {e \in End : /\ e.own = n /\ e.peer = m
                            /\ ~Open(e) /\ ~Open(Other(e))}

TypeOK ==
    /\ disk \in [Node -> [Generation -> Grade]]
    /\ alive \in [Node -> BOOLEAN]
    /\ signKey \in [Node -> Generation]
    /\ conn \in [Node -> [Node -> End \cup {NoConn, Idle}]]
    /\ unknown \in [Node -> SUBSET End]
    /\ peerKey \in [Node -> [Node -> Key]]
    /\ up \in [Node -> SUBSET Node]
    /\ phase \in [End -> Phase]
    /\ enc \in [End -> BOOLEAN]
    /\ inbox \in [End -> Seq(Message)]

(* The constructor: addNode makes a connection object for each lower peer. *)
NewConnections(n) ==
    [m \in Node |-> IF ShouldConnect(n, m) THEN Idle ELSE NoConn]

Init ==
    /\ disk \in Deployments
    /\ alive = [n \in Node |-> TRUE]
    /\ signKey = [n \in Node |-> 1]
    /\ conn = [n \in Node |-> NewConnections(n)]
    /\ unknown = [n \in Node |-> {}]
    /\ peerKey = [n \in Node |-> [m \in Node |-> NoKey]]
    /\ up = [n \in Node |-> {}]
    /\ phase = [e \in End |-> "closed"]
    /\ enc = [e \in End |-> FALSE]
    /\ inbox = [e \in End |-> <<>>]
-----------------------------------------------------------------------------
(* _onDisconnected, run by conn.disconnect() of e after the socket is closed *)
(* and its buffers are cleared.  Only the connection _connToNode finds is    *)
(* reported to SyncObj, and is dialled again at once if the retry time has   *)
(* passed.                                                                   *)
IsCurrent(e) == conn[e.own][e.peer] = e

(* Mutant: an older connection that goes down withdraws the peer as well.    *)
Disconnected_AnyConnection(e) ==
    /\ enc' = [enc EXCEPT ![e] = FALSE]
    /\ inbox' = [inbox EXCEPT ![e] = <<>>]
    /\ unknown' = [unknown EXCEPT ![e.own] = @ \ {e}]
    /\ up' = [up EXCEPT ![e.own] = @ \ {e.peer}]
    /\ phase' = [phase EXCEPT ![e] = "closed"]
    /\ conn' = [conn EXCEPT ![e.own][e.peer] = IF IsCurrent(e) THEN Idle ELSE @]
    /\ UNCHANGED <<disk, alive, signKey, peerKey>>

(* Mutant: the peer's key is forgotten as dropNode does.                     *)
Disconnected_ForgetsKey(e) ==
    /\ enc' = [enc EXCEPT ![e] = FALSE]
    /\ inbox' = [inbox EXCEPT ![e] = <<>>]
    /\ unknown' = [unknown EXCEPT ![e.own] = @ \ {e}]
    /\ up' = [up EXCEPT ![e.own] = IF IsCurrent(e) THEN @ \ {e.peer} ELSE @]
    /\ peerKey' = [peerKey EXCEPT ![e.own][e.peer] = NoKey]
    /\ phase' = [phase EXCEPT ![e] = "closed"]
    /\ conn' = [conn EXCEPT ![e.own][e.peer] = IF IsCurrent(e) THEN Idle ELSE @]
    /\ UNCHANGED <<disk, alive, signKey>>

(* Mutant: the connection object is popped as dropNode does.                 *)
Disconnected_Pops(e) ==
    /\ enc' = [enc EXCEPT ![e] = FALSE]
    /\ inbox' = [inbox EXCEPT ![e] = <<>>]
    /\ unknown' = [unknown EXCEPT ![e.own] = @ \ {e}]
    /\ up' = [up EXCEPT ![e.own] = IF IsCurrent(e) THEN @ \ {e.peer} ELSE @]
    /\ phase' = [phase EXCEPT ![e] = "closed"]
    /\ conn' = [conn EXCEPT ![e.own][e.peer] = IF IsCurrent(e) THEN NoConn ELSE @]
    /\ UNCHANGED <<disk, alive, signKey, peerKey>>

Disconnected(e) ==
    /\ enc' = [enc EXCEPT ![e] = FALSE]
    /\ inbox' = [inbox EXCEPT ![e] = <<>>]
    /\ unknown' = [unknown EXCEPT ![e.own] = @ \ {e}]
    /\ up' = [up EXCEPT ![e.own] = IF IsCurrent(e) THEN @ \ {e.peer} ELSE @]
    /\ \/ /\ phase' = [phase EXCEPT ![e] = "closed"]
          /\ conn' = [conn EXCEPT ![e.own][e.peer] =
                        IF IsCurrent(e) THEN Idle ELSE @]
       \/ /\ IsCurrent(e) /\ Outgoing(e)
          /\ \E r \in Fresh(e.own, e.peer) :
                /\ phase' = [phase EXCEPT ![e] = "closed", ![r] = "connecting"]
                /\ conn' = [conn EXCEPT ![e.own][e.peer] = r]
    /\ UNCHANGED <<disk, alive, signKey, peerKey>>

(* Mutant: dials without looking at the state of the connection it has.      *)
Connect_Always(n, m) ==
    /\ alive[n]
    /\ ShouldConnect(n, m)
    /\ \E r \in Fresh(n, m) :
          /\ phase' = [phase EXCEPT ![r] = "connecting"]
          /\ conn' = [conn EXCEPT ![n][m] = r]
    /\ UNCHANGED <<disk, alive, signKey, unknown, peerKey, up, enc, inbox>>

(* _connectIfNecessarySingle, from _onTick, once the retry time has passed. *)
Connect(n, m) ==
    /\ alive[n]
    /\ conn[n][m] = Idle
    /\ ShouldConnect(n, m)
    /\ \E r \in Fresh(n, m) :
          /\ phase' = [phase EXCEPT ![r] = "connecting"]
          /\ conn' = [conn EXCEPT ![n][m] = r]
    /\ UNCHANGED <<disk, alive, signKey, unknown, peerKey, up, enc, inbox>>

(* The connection attempt fails: nobody listens, or the network drops it. *)
Refused(e) ==
    /\ phase[e] = "connecting"
    /\ Disconnected(e)

(* The kernels complete the connection; the dialling side runs               *)
(* _onOutgoingConnected, which sends its handshake at once.                  *)
Established(e) ==
    /\ phase[e] = "connecting"
    /\ alive[e.peer]
    /\ phase' = [phase EXCEPT ![e] = "handshake", ![Other(e)] = "backlog"]
    /\ inbox' = [inbox EXCEPT ![Other(e)] = <<Outbound(e, "handshake")>>]
    /\ UNCHANGED <<local, enc>>

(* TcpServer accepts: _onNewIncomingConnection. *)
Accept(e) ==
    /\ phase[e] = "backlog"
    /\ phase' = [phase EXCEPT ![e] = "handshake"]
    /\ unknown' = [unknown EXCEPT ![e.own] = @ \cup {e}]
    /\ UNCHANGED <<disk, alive, signKey, conn, peerKey, up, enc, inbox>>
-----------------------------------------------------------------------------
Readable(e) == Connected(e) /\ inbox[e] # <<>>

(* TcpConnection decrypts with the encryptor set now; data written under the *)
(* other regime fails to decrypt or to decompress.                           *)
Decodable(e) == Head(inbox[e]).sealed = enc[e]

Undecodable(e) ==
    /\ Readable(e)
    /\ ~Decodable(e)
    /\ Disconnected(e)

(* What the deployment that sent msg to e had on its disk.                   *)
SentFrom(e, msg) == disk[e.peer][msg.key]

(* A handshake with a certificate whose signature does not verify, for lack  *)
(* of a public key or of a signature, is rejected - except that the dialling *)
(* side looks at the signature only if there is one.  Neither side checks a  *)
(* handshake without a certificate.                                          *)
Rejected(e, msg) ==
    /\ msg.type = "handshake"
    /\ \/ SentFrom(e, msg) = "unverifiable"
       \/ SentFrom(e, msg) = "unsigned" /\ ~Outgoing(e)

RejectHandshake(e) ==
    /\ Readable(e) /\ Decodable(e)
    /\ phase[e] = "handshake"
    /\ Rejected(e, Head(inbox[e]))
    /\ Disconnected(e)

(* Mutants: the peer's key is not stored; only its first key is.             *)
Authenticated_StoresNoKey(e, msg) ==
    /\ peerKey' = peerKey
    /\ up' = [up EXCEPT ![e.own] = @ \cup {e.peer}]

Authenticated_FirstKeyOnly(e, msg) ==
    /\ peerKey' = [peerKey EXCEPT ![e.own][e.peer] =
                     IF @ = NoKey /\ SentFrom(e, msg) = "valid"
                     THEN msg.key ELSE @]
    /\ up' = [up EXCEPT ![e.own] = @ \cup {e.peer}]

(* The end of both handshake handlers: the connection gets the encryptor and *)
(* its message callback, and SyncObj is notified; the peer's key is stored   *)
(* if the handshake has brought one that verifies, and an older one stays if *)
(* it has not.                                                               *)
Authenticated(e, msg) ==
    /\ peerKey' = [peerKey EXCEPT ![e.own][e.peer] =
                     IF msg.type = "handshake" /\ SentFrom(e, msg) = "valid"
                     THEN msg.key ELSE @]
    /\ up' = [up EXCEPT ![e.own] = @ \cup {e.peer}]

(* Mutant: the handshake is not answered.                                    *)
AcceptHandshake_NoAnswer(e) ==
    LET msg == Head(inbox[e]) IN
    /\ Readable(e) /\ Decodable(e)
    /\ phase[e] = "handshake" /\ ~Outgoing(e)
    /\ msg.type = "handshake" /\ ~Rejected(e, msg)
    /\ Authenticated(e, msg)
    /\ inbox' = [inbox EXCEPT ![e] = Tail(@)]
    /\ unknown' = [unknown EXCEPT ![e.own] = @ \ {e}]
    /\ conn' = [conn EXCEPT ![e.own][e.peer] = e]
    /\ enc' = [enc EXCEPT ![e] = Crypto]
    /\ phase' = [phase EXCEPT ![e] = "verified"]
    /\ UNCHANGED <<disk, alive, signKey>>

(* _onIncomingMessageReceived: check the peer's handshake unless it is        *)
(* without a certificate, answer it, make this the peer's connection         *)
(* whatever it was before.                                                   *)
AcceptHandshake(e) ==
    LET msg == Head(inbox[e]) IN
    /\ Readable(e) /\ Decodable(e)
    /\ phase[e] = "handshake" /\ ~Outgoing(e)
    /\ msg.type = "handshake" /\ ~Rejected(e, msg)
    /\ Authenticated(e, msg)
    /\ inbox' = Delivered(e, Outbound(e, "handshake"),
                          [inbox EXCEPT ![e] = Tail(@)])
    /\ unknown' = [unknown EXCEPT ![e.own] = @ \ {e}]
    /\ conn' = [conn EXCEPT ![e.own][e.peer] = e]
    /\ enc' = [enc EXCEPT ![e] = Crypto]
    /\ phase' = [phase EXCEPT ![e] = "verified"]
    /\ UNCHANGED <<disk, alive, signKey>>

(* The same handler when the dialling side has gone and the answer cannot be *)
(* written: send() disconnects, _onDisconnected runs while the connection is *)
(* still unknown, and the handler goes on to register and report the dead    *)
(* connection.                                                               *)
AnswerFails(e) ==
    LET msg == Head(inbox[e]) IN
    /\ Readable(e) /\ Decodable(e)
    /\ phase[e] = "handshake" /\ ~Outgoing(e)
    /\ msg.type = "handshake" /\ ~Rejected(e, msg)
    /\ ~Open(Other(e))
    /\ Authenticated(e, msg)
    /\ inbox' = [inbox EXCEPT ![e] = <<>>]
    /\ unknown' = [unknown EXCEPT ![e.own] = @ \ {e}]
    /\ conn' = [conn EXCEPT ![e.own][e.peer] = Idle]
    /\ phase' = [phase EXCEPT ![e] = "closed"]
    /\ UNCHANGED <<disk, alive, signKey, enc>>

(* _onOutgoingHandshakeResponse: whatever the first message is, unless it is *)
(* rejected the connection is promoted; only a signed handshake with a       *)
(* certificate brings a key.                                                 *)
HandshakeResponse(e) ==
    LET msg == Head(inbox[e]) IN
    /\ Readable(e) /\ Decodable(e)
    /\ phase[e] = "handshake" /\ Outgoing(e)
    /\ ~Rejected(e, msg)
    /\ Authenticated(e, msg)
    /\ inbox' = [inbox EXCEPT ![e] = Tail(@)]
    /\ enc' = [enc EXCEPT ![e] = Crypto]
    /\ phase' = [phase EXCEPT ![e] = "verified"]
    /\ UNCHANGED <<disk, alive, signKey, conn, unknown>>

(* _unwrap_and_verify: without a stored key the message passes unverified. *)
Passes(e, msg) ==
    ~Crypto \/ peerKey[e.own][e.peer] \in {NoKey, msg.key}

(* _onVerifiedMessageReceived: what passes goes to SyncObj, the rest is      *)
(* dropped; in either case the message is consumed.                          *)
ReceiveVerified(e) ==
    /\ Readable(e) /\ Decodable(e)
    /\ phase[e] = "verified"
    /\ inbox' = [inbox EXCEPT ![e] = Tail(@)]
    /\ UNCHANGED <<local, phase, enc>>
-----------------------------------------------------------------------------
(* send: SyncObj may address any peer at any time (request_vote goes to all  *)
(* of them); the guard is only that the connection is CONNECTED.             *)
Send(n, m) ==
    /\ conn[n][m] \in End
    /\ LET e == conn[n][m] IN
       /\ Connected(e)
       /\ Open(Other(e)) /\ Len(inbox[Other(e)]) < MaxInbox
       /\ inbox' = Delivered(e, Outbound(e, "raft"), inbox)
    /\ UNCHANGED <<local, phase, enc>>

(* The peer's end is gone: the socket reads end of file or a reset, possibly *)
(* before what is still buffered.                                            *)
PeerClosed(e) ==
    /\ Connected(e)
    /\ ~Open(Other(e))
    /\ Disconnected(e)

(* connectionTimeout without data, or an error of the network. *)
Timeout(e) ==
    /\ Connected(e)
    /\ Open(Other(e))
    /\ Disconnected(e)

(* destroy() or a crash, and the end of the process: its transport state and *)
(* its sockets are gone.                                                     *)
Stop(n) ==
    /\ alive[n]
    /\ alive' = [alive EXCEPT ![n] = FALSE]
    /\ conn' = [conn EXCEPT ![n] = [m \in Node |-> NoConn]]
    /\ unknown' = [unknown EXCEPT ![n] = {}]
    /\ peerKey' = [peerKey EXCEPT ![n] = [m \in Node |-> NoKey]]
    /\ up' = [up EXCEPT ![n] = {}]
    /\ phase' = [e \in End |-> IF e.own = n THEN "closed" ELSE phase[e]]
    /\ enc' = [e \in End |-> IF e.own = n THEN FALSE ELSE enc[e]]
    /\ inbox' = [e \in End |-> IF e.own = n THEN <<>> ELSE inbox[e]]
    /\ UNCHANGED <<disk, signKey>>

(* The process starts again: with what is on its disk, or deployed anew.     *)
Start(n) ==
    /\ ~alive[n]
    /\ alive' = [alive EXCEPT ![n] = TRUE]
    /\ conn' = [conn EXCEPT ![n] = NewConnections(n)]
    /\ \E k \in {signKey[n], signKey[n] + 1} \cap Generation :
          signKey' = [signKey EXCEPT ![n] = k]
    /\ UNCHANGED <<disk, unknown, peerKey, up, wire>>

NodeStep(n) == Stop(n) \/ Start(n) \/ \E m \in Node : Connect(n, m) \/ Send(n, m)

Receive(e) ==
    \/ Undecodable(e)
    \/ RejectHandshake(e)
    \/ AcceptHandshake(e)
    \/ AnswerFails(e)
    \/ HandshakeResponse(e)
    \/ ReceiveVerified(e)

EndStep(e) ==
    \/ Refused(e)
    \/ Established(e)
    \/ Accept(e)
    \/ Receive(e)
    \/ PeerClosed(e)
    \/ Timeout(e)

Next == (\E n \in Node : NodeStep(n)) \/ (\E e \in End : EndStep(e))

Spec == Init /\ [][Next]_vars
-----------------------------------------------------------------------------
(* Every open socket is accounted for: an outgoing one is the only one of    *)
(* its pair and in _connections; an incoming one that was accepted is either *)
(* in _unknownConnections, waiting for its handshake, or verified, and only  *)
(* then in _connections (unless a later one superseded it there).            *)
(* _onDisconnected and destroy find connections by these two tables only.    *)
EndTracked(e) ==
    /\ Outgoing(e) => (Open(e) <=> IsCurrent(e))
    /\ ~Outgoing(e) => (phase[e] = "handshake" <=> e \in unknown[e.own])
    /\ ~Outgoing(e) /\ IsCurrent(e) => phase[e] = "verified"

EveryEndTracked == \A e \in End : EndTracked(e)

(* m has had a deployment whose handshake n takes without a signature.       *)
Unproven(n, m) ==
    \E k \in 1 .. signKey[m] :
        \/ disk[m][k] = "blank"
        \/ disk[m][k] = "unsigned" /\ ShouldConnect(n, m)

(* What SyncObj believes about a peer: the peer it was told is connected has *)
(* a stored signing key (unless some set-up of it was interrupted such that  *)
(* its handshakes are not checked) and, on the side that dials, a live       *)
(* connection; and a live connection to it has finished the handshake and    *)
(* uses the encryptor.  Conversely SyncObj was told of every finished        *)
(* connection that is in _connections.  (On the side that accepts, the peer  *)
(* may be gone and still reported: AnswerFails.)                             *)
PeerNotified(n, m) ==
    /\ m \in up[n] =>
         /\ peerKey[n][m] # NoKey \/ Unproven(n, m)
         /\ ShouldConnect(n, m) => conn[n][m] \in End
         /\ conn[n][m] \in End => /\ phase[conn[n][m]] = "verified"
                                  /\ enc[conn[n][m]] = Crypto
    /\ conn[n][m] \in End /\ phase[conn[n][m]] = "verified" => m \in up[n]

NotifiedIsAuthenticated == \A n, m \in Node : PeerNotified(n, m)

(* No message of a finished connection is passed to SyncObj unverified for   *)
(* lack of a key, superseded connections included: "passing through          *)
(* unverified" in _unwrap_and_verify is reached only with a peer one of      *)
(* whose deployments had no certificate or, by the side that dialled it,     *)
(* could not sign.                                                           *)
NothingPassesUnverified ==
    \A e \in End : phase[e] = "verified" =>
        peerKey[e.own][e.peer] # NoKey \/ Unproven(e.own, e.peer)

(* What was encrypted can be decrypted: a sealed message is read after the   *)
(* handshake in front of it has installed the encryptor, and handshakes      *)
(* themselves travel in the clear (_sendSelfAddress: "conn.encryptor must be *)
(* None when called").                                                       *)
SealedIsReadable ==
    \A e \in End : \A i \in 1 .. Len(inbox[e]) :
        inbox[e][i].sealed =>
            /\ inbox[e][i].type = "raft"
            /\ enc[e] \/ \E j \in 1 .. i - 1 : inbox[e][j].type = "handshake"

(* The first message an end reads is its peer's handshake: Raft traffic      *)
(* never overtakes it, on whichever side and after whatever reconnections.   *)
GreetingFirst ==
    \A e \in End :
        phase[e] \in {"backlog", "handshake"} /\ inbox[e] # <<>> =>
            Head(inbox[e]).type = "handshake"

(* The two ends of a socket never both wait for a handshake with nothing     *)
(* under way: the end that waits with an empty buffer is the one that        *)
(* dialled, and the accepting end has hung up, or has yet to read a          *)
(* handshake, in the clear, that it will answer or hang up on.  No retry     *)
(* covers a standoff: while a node has a connection it does not dial again.  *)
NoStandoff ==
    \A e \in End : phase[e] = "handshake" /\ inbox[e] = <<>> =>
        /\ Outgoing(e)
        /\ Open(Other(e)) =>
             /\ phase[Other(e)] \in {"backlog", "handshake"}
             /\ inbox[Other(e)] # <<>>
             /\ Head(inbox[Other(e)]).type = "handshake"
             /\ Decodable(Other(e))

(* The supporting facts that make these invariants inductive: how the phases *)
(* of the two ends, their encryptors and their buffers belong together, that *)
(* _connections files a socket under its peer, that a stopped node holds     *)
(* nothing, and that every key in flight was published by its sender.        *)
EndLifecycle(e) ==
    /\ phase[e] = "connecting" => Outgoing(e) /\ ~Open(Other(e))
    /\ phase[e] = "backlog" => ~Outgoing(e)
    /\ phase[e] \in {"closed", "connecting"} => inbox[e] = <<>>
    /\ phase[e] \in {"backlog", "handshake"} /\ ~Outgoing(e) => inbox[e] # <<>>
    /\ phase[e] = "handshake" /\ Outgoing(e) /\ phase[Other(e)] = "verified" =>
         inbox[e] # <<>>
    /\ enc[e] <=> phase[e] = "verified" /\ Crypto

Lifecycle == \A e \in End : EndLifecycle(e)

WellPlaced ==
    \A n, m \in Node : conn[n][m] \in End =>
        conn[n][m].own = n /\ conn[n][m].peer = m

StoppedHoldsNothing ==
    \A n \in Node : ~alive[n] =>
        /\ up[n] = {}
        /\ \A m \in Node : conn[n][m] = NoConn /\ peerKey[n][m] = NoKey
        /\ \A e \in End : e.own = n => ~Open(e)

KeysArePublished ==
    \A e \in End : \A i \in DOMAIN inbox[e] : inbox[e][i].key <= signKey[e.peer]

IndInv ==
    /\ TypeOK /\ Lifecycle /\ WellPlaced /\ StoppedHoldsNothing
    /\ KeysArePublished /\ EveryEndTracked /\ GreetingFirst
    /\ NotifiedIsAuthenticated /\ NothingPassesUnverified

(* What SealedIsReadable rests on in addition: only with an encryptor is     *)
(* anything sealed, and an accepting end is past its handshake before the    *)
(* dialling one has heard anything from it.                                  *)
SealedNeedsCrypto ==
    \A e \in End : \A i \in 1 .. Len(inbox[e]) : inbox[e][i].sealed => Crypto

HeardFromVerified(e) ==
    Outgoing(e) /\ (inbox[e] # <<>> \/ phase[e] = "verified") =>
        phase[Other(e)] \in {"verified", "closed"}

SealInv ==
    /\ SealedNeedsCrypto /\ SealedIsReadable
    /\ \A e \in End : HeardFromVerified(e)

(* Does n, as far as its checks go, let m in with what m has on its disk?    *)
Admits(n, m) ==
    \/ GradeOf(m) \in {"valid", "blank"}
    \/ GradeOf(m) = "unsigned" /\ ShouldConnect(n, m)

(* When two nodes use the same connection for each other, each admits the    *)
(* other as it is deployed now, and of a peer whose set-up was completed it  *)
(* holds the present signing key, so that no message in flight from it will  *)
(* be dropped by verification - whatever older connections, restarts and     *)
(* redeployments with new keys went before.                                  *)
MutualLink(e) ==
    IsCurrent(e) /\ IsCurrent(Other(e)) /\ phase[e] = "verified"

MutualLinkVerifies ==
    \A e \in End : MutualLink(e) =>
        /\ Admits(e.own, e.peer)
        /\ GradeOf(e.peer) = "valid" =>
             /\ peerKey[e.own][e.peer] = signKey[e.peer]
             /\ \A i \in 1 .. Len(inbox[e]) :
                   inbox[e][i].type = "raft" => Passes(e, inbox[e][i])

(* Why that is so: what an open end has sent carries its node's present key, *)
(* a stored key was published at some time, a finished connection was let    *)
(* in with what its peer has on its disk now, and with both ends open the    *)
(* key stored last came over the connection that is in _connections.         *)
SentWithPresentKey ==
    \A e \in End : Open(Other(e)) =>
        \A i \in DOMAIN inbox[e] : inbox[e][i].key = signKey[e.peer]

StoredWasPublished == \A n, m \in Node : peerKey[n][m] <= signKey[m]

KnownAsDeployed(e) ==
    phase[e] = "verified" /\ Open(Other(e)) =>
        /\ Admits(e.own, e.peer)
        /\ IsCurrent(e) /\ GradeOf(e.peer) = "valid" =>
             peerKey[e.own][e.peer] = signKey[e.peer]

LinkInv ==
    /\ SentWithPresentKey /\ StoredWasPublished
    /\ \A e \in End : KnownAsDeployed(e)

(* What the README says of the system: encryption is only disabled by        *)
(* --no-crypto, so Raft messages in flight are encrypted.                    *)
RaftTrafficIsSealed ==
    Crypto => \A e \in End : \A i \in 1 .. Len(inbox[e]) :
        inbox[e][i].type = "raft" => inbox[e][i].sealed

(* An established peer is lost only for a reason: while n keeps running, a   *)
(* peer is withdrawn from SyncObj only when the connection to it that is in  *)
(* _connections goes down, never because an older one does.                  *)
WithdrawnWithItsConnection ==
    [][\A n \in Node : \A m \in up[n] \ up'[n] :
            \/ ~alive'[n]
            \/ conn[n][m] \in End /\ phase'[conn[n][m]] = "closed"]_vars
-----------------------------------------------------------------------------
(* A connection on which nothing more can arrive: the peer's end is neither  *)
(* waiting for a handshake nor the one the peer sends on.                    *)
Silent(e) ==
    /\ Connected(e) /\ inbox[e] = <<>>
    /\ phase[Other(e)] = "verified" /\ ~IsCurrent(Other(e))

IdleTimeout(e) == Silent(e) /\ Timeout(e)
NobodyListens(e) == ~alive[e.peer] /\ Refused(e)

(* The poll loop of a running node serves every socket, _onTick dials again  *)
(* and again, a dead peer and a silent connection are noticed, and a stopped *)
(* node is started again.  Nothing makes SyncObj send.                       *)
Fairness ==
    /\ \A n \in Node : WF_vars(Start(n))
    /\ \A n, m \in Node : WF_vars(Connect(n, m))
    /\ \A e \in End : /\ WF_vars(Established(e))
                      /\ WF_vars(Accept(e))
                      /\ WF_vars(Receive(e))
                      /\ WF_vars(PeerClosed(e))
                      /\ WF_vars(IdleTimeout(e))
                      /\ WF_vars(NobodyListens(e))

(* What the transport cannot prevent: processes that stop, a network that    *)
(* fails, and SyncObj sending to a peer whose handshake is not finished,     *)
(* which makes the other side reset the connection.  (To reject a message    *)
(* looks like a timeout from outside, but is no failure of the network.)     *)
EarlySend(n, m) == Crypto /\ Send(n, m) /\ ~enc[conn[n][m]]

Disturbance ==
    \/ \E n \in Node : Stop(n)
    \/ \E e \in End : \/ Timeout(e) /\ ~Silent(e) /\ ~Receive(e)
                      \/ Refused(e) /\ alive[e.peer]
    \/ \E n, m \in Node : EarlySend(n, m)

LiveSpec == Spec /\ Fairness

(* The connections, messages and failures above add up to the directory of   *)
(* authenticated peers that SyncObj relies on.                               *)
Directory == INSTANCE PeerDirectory
ImplementsDirectory == Directory!Spec

(* Whatever happened before, once the disturbances end every two nodes that  *)
(* admit each other with what they have on their disks use the same          *)
(* connection for each other, have both been reported to SyncObj, and hold   *)
(* the present signing key of a peer whose set-up was completed, for good.   *)
(* (A connection that a late handshake of an older one displaced is thereby  *)
(* shown to heal.)                                                           *)
Peered(n, m) ==
    /\ m \in up[n]
    /\ conn[n][m] \in End /\ conn[m][n] = Other(conn[n][m])
    /\ GradeOf(m) = "valid" => peerKey[n][m] = signKey[m]

Converges ==
    <>[][~Disturbance]_vars =>
        \A n, m \in Node : n # m =>
            <>[](Admits(n, m) /\ Admits(m, n) => Peered(n, m))

(* No connection waits for a handshake for ever, disturbances or not.        *)
HandshakeEnds ==
    \A e \in End : phase[e] = "handshake" ~> phase[e] # "handshake"
=============================================================================
