-------------------------- MODULE TransportProofs --------------------------
(* Theorems about Transport, for every cluster, every number of sockets and  *)
(* every bound.                                                              *)
EXTENDS Transport, TLAPS

(* The geometry of the ends of a socket. *)
LEMMA EndFacts ==
    \A e \in End :
        /\ e.own \in Node /\ e.peer \in Node /\ e.own # e.peer
        /\ Other(e) \in End /\ Other(e) # e /\ Other(Other(e)) = e
        /\ Other(e).own = e.peer /\ Other(e).peer = e.own
        /\ Outgoing(Other(e)) <=> ~Outgoing(e)
  <1> SUFFICES ASSUME NEW e \in End
               PROVE  /\ e.own \in Node /\ e.peer \in Node /\ e.own # e.peer
                      /\ Other(e) \in End /\ Other(e) # e /\ Other(Other(e)) = e
                      /\ Other(e).own = e.peer /\ Other(e).peer = e.own
                      /\ Outgoing(Other(e)) <=> ~Outgoing(e)
    OBVIOUS
  <1>1. e \in [own: Node, peer: Node, id: Id] /\ e.own # e.peer
    BY DEF End
  <1>2. e.own \in Node /\ e.peer \in Node /\ e.id \in Id
    BY <1>1
  <1>3. Other(e).own = e.peer /\ Other(e).peer = e.own /\ Other(e).id = e.id
    BY DEF Other
  <1>4. Other(e) \in End
    BY <1>1, <1>2 DEF Other, End
  <1>5. Other(e) # e
    BY <1>1, <1>3
  <1>6. Other(Other(e)) = e
    BY <1>1, <1>3 DEF Other
  <1>7. Outgoing(Other(e)) <=> ~Outgoing(e)
    <2>1. e.own \in Nat /\ e.peer \in Nat
      BY <1>2, NodeAssumption
    <2>2. Outgoing(e) <=> e.own > e.peer
      BY DEF Outgoing, ShouldConnect
    <2>3. Outgoing(Other(e)) <=> e.peer > e.own
      BY <1>3 DEF Outgoing, ShouldConnect
    <2> QED BY <1>1, <2>1, <2>2, <2>3
  <1> QED BY <1>1, <1>2, <1>3, <1>4, <1>5, <1>6, <1>7

LEMMA KeyFacts ==
    NoKey \in Key /\ NoKey \notin Generation /\ 1 \in Generation /\ Generation \subseteq Key
  BY MaxKeyAssumption DEF NoKey, Key, Generation

(* What _onDisconnected leaves well typed. *)
LEMMA DisconnectedType ==
    ASSUME TypeOK, NEW e \in End, Disconnected(e)
    PROVE  TypeOK'
  <1> USE EndFacts DEF TypeOK
  <1>1. enc' \in [End -> BOOLEAN] /\ inbox' \in [End -> Seq(Message)]
    BY DEF Disconnected
  <1>2. unknown' \in [Node -> SUBSET End] /\ up' \in [Node -> SUBSET Node]
    BY DEF Disconnected
  <1>3. phase' \in [End -> Phase]
    BY DEF Disconnected, Fresh, Phase
  <1>4. conn' \in [Node -> [Node -> End \cup {NoConn, Idle}]]
    <2>1. CASE conn' = [conn EXCEPT ![e.own][e.peer] =
                          IF IsCurrent(e) THEN Idle ELSE @]
      BY <2>1
    <2>2. ASSUME NEW r \in Fresh(e.own, e.peer),
                 conn' = [conn EXCEPT ![e.own][e.peer] = r]
          PROVE  conn' \in [Node -> [Node -> End \cup {NoConn, Idle}]]
      BY <2>2 DEF Fresh
    <2> QED BY <2>1, <2>2 DEF Disconnected
  <1> QED BY <1>1, <1>2, <1>3, <1>4 DEF Disconnected

LEMMA OutboundType ==
    ASSUME TypeOK, NEW e \in End, NEW type \in {"handshake", "raft"}
    PROVE  Outbound(e, type) \in Message
  BY EndFacts DEF TypeOK, Outbound, Message

LEMMA HeadType ==
    ASSUME TypeOK, NEW e \in End, Readable(e)
    PROVE  /\ Head(inbox[e]) \in Message
           /\ Tail(inbox[e]) \in Seq(Message)
  BY DEF TypeOK, Readable

LEMMA DeliveredType ==
    ASSUME NEW e \in End, NEW msg \in Message,
           NEW box \in [End -> Seq(Message)]
    PROVE  Delivered(e, msg, box) \in [End -> Seq(Message)]
  BY EndFacts DEF Delivered

LEMMA AuthenticatedType ==
    ASSUME TypeOK, NEW e \in End, NEW msg \in Message, Authenticated(e, msg)
    PROVE  /\ peerKey' \in [Node -> [Node -> Key]]
           /\ up' \in [Node -> SUBSET Node]
  <1>1. msg.key \in Key /\ e.own \in Node /\ e.peer \in Node
    BY EndFacts, KeyFacts DEF Message
  <1>2. peerKey' \in [Node -> [Node -> Key]]
    BY <1>1 DEF TypeOK, Authenticated
  <1>3. up' \in [Node -> SUBSET Node]
    BY <1>1 DEF TypeOK, Authenticated
  <1> QED BY <1>2, <1>3

LEMMA TypeStep == TypeOK /\ [Next]_vars => TypeOK'
  <1> SUFFICES ASSUME TypeOK, [Next]_vars PROVE TypeOK'
    OBVIOUS
  <1> USE EndFacts, KeyFacts
  <1>1. ASSUME NEW n \in Node, Stop(n) PROVE TypeOK'
    <2>1. [m \in Node |-> NoConn] \in [Node -> End \cup {NoConn, Idle}]
      OBVIOUS
    <2>2. [m \in Node |-> NoKey] \in [Node -> Key]
      OBVIOUS
    <2>3. /\ phase' \in [End -> Phase]
          /\ enc' \in [End -> BOOLEAN]
          /\ inbox' \in [End -> Seq(Message)]
      <3>1. phase' = [e \in End |-> IF e.own = n THEN "closed" ELSE phase[e]]
        BY <1>1 DEF Stop
      <3>2. enc' = [e \in End |-> IF e.own = n THEN FALSE ELSE enc[e]]
        BY <1>1 DEF Stop
      <3>3. inbox' = [e \in End |-> IF e.own = n THEN <<>> ELSE inbox[e]]
        BY <1>1 DEF Stop
      <3>4. phase' \in [End -> Phase]
        BY <3>1 DEF TypeOK, Phase
      <3>5. enc' \in [End -> BOOLEAN]
        BY <3>2 DEF TypeOK
      <3>6. inbox' \in [End -> Seq(Message)]
        BY <3>3 DEF TypeOK
      <3> QED BY <3>4, <3>5, <3>6
    <2>4. conn' \in [Node -> [Node -> End \cup {NoConn, Idle}]]
      BY <1>1, <2>1 DEF Stop, TypeOK
    <2>5. peerKey' \in [Node -> [Node -> Key]]
      BY <1>1, <2>2 DEF Stop, TypeOK
    <2>6. unknown' \in [Node -> SUBSET End] /\ up' \in [Node -> SUBSET Node]
      BY <1>1 DEF Stop, TypeOK
    <2>7. disk' = disk /\ alive' \in [Node -> BOOLEAN] /\ signKey' \in [Node -> Generation]
      BY <1>1 DEF Stop, TypeOK
    <2> QED BY <2>3, <2>4, <2>5, <2>6, <2>7 DEF TypeOK
  <1>2. ASSUME NEW n \in Node, Start(n) PROVE TypeOK'
    BY <1>2 DEF Start, TypeOK, NewConnections, wire
  <1>3. ASSUME NEW n \in Node, NEW m \in Node, Connect(n, m) PROVE TypeOK'
    BY <1>3 DEF Connect, TypeOK, Fresh, Phase
  <1>4. ASSUME NEW n \in Node, NEW m \in Node, Send(n, m) PROVE TypeOK'
    <2> DEFINE e == conn[n][m]
    <2>1. e \in End /\ Outbound(e, "raft") \in Message
      BY <1>4, OutboundType DEF Send
    <2> QED BY <1>4, <2>1 DEF Send, Delivered, TypeOK, local
  <1>5. ASSUME NEW e \in End, Refused(e) PROVE TypeOK'
    BY <1>5, DisconnectedType DEF Refused
  <1>6. ASSUME NEW e \in End, Established(e) PROVE TypeOK'
    <2>1. <<Outbound(e, "handshake")>> \in Seq(Message)
      BY OutboundType
    <2> QED BY <1>6, <2>1 DEF Established, TypeOK, Phase, local
  <1>7. ASSUME NEW e \in End, Accept(e) PROVE TypeOK'
    BY <1>7 DEF Accept, TypeOK, Phase
  <1>8. ASSUME NEW e \in End, Undecodable(e) PROVE TypeOK'
    BY <1>8, DisconnectedType DEF Undecodable
  <1>9. ASSUME NEW e \in End, RejectHandshake(e) PROVE TypeOK'
    BY <1>9, DisconnectedType DEF RejectHandshake
  <1>10. ASSUME NEW e \in End, AcceptHandshake(e) PROVE TypeOK'
    <2> DEFINE msg == Head(inbox[e])
               box == [inbox EXCEPT ![e] = Tail(@)]
    <2>1. msg \in Message /\ Outbound(e, "handshake") \in Message
      BY <1>10, HeadType, OutboundType DEF AcceptHandshake
    <2>2. box \in [End -> Seq(Message)]
      BY <1>10, HeadType DEF AcceptHandshake, TypeOK
    <2>3. inbox' = Delivered(e, Outbound(e, "handshake"), box)
      BY <1>10 DEF AcceptHandshake
    <2>4. inbox' \in [End -> Seq(Message)]
      BY <2>1, <2>2, <2>3, DeliveredType
    <2>5. Authenticated(e, msg)
      BY <1>10 DEF AcceptHandshake
    <2> QED BY <1>10, <2>1, <2>4, <2>5, AuthenticatedType, CryptoAssumption
            DEF AcceptHandshake, TypeOK, Phase
  <1>11. ASSUME NEW e \in End, AnswerFails(e) PROVE TypeOK'
    <2>1. Head(inbox[e]) \in Message /\ Authenticated(e, Head(inbox[e]))
      BY <1>11, HeadType DEF AnswerFails
    <2> QED BY <1>11, <2>1, AuthenticatedType DEF AnswerFails, TypeOK, Phase
  <1>12. ASSUME NEW e \in End, HandshakeResponse(e) PROVE TypeOK'
    <2>1. /\ Head(inbox[e]) \in Message /\ Tail(inbox[e]) \in Seq(Message)
          /\ Authenticated(e, Head(inbox[e]))
      BY <1>12, HeadType DEF HandshakeResponse
    <2> QED BY <1>12, <2>1, AuthenticatedType, CryptoAssumption
            DEF HandshakeResponse, TypeOK, Phase
  <1>13. ASSUME NEW e \in End, ReceiveVerified(e) PROVE TypeOK'
    BY <1>13, HeadType DEF ReceiveVerified, TypeOK, local
  <1>14. ASSUME NEW e \in End, PeerClosed(e) PROVE TypeOK'
    BY <1>14, DisconnectedType DEF PeerClosed
  <1>15. ASSUME NEW e \in End, Timeout(e) PROVE TypeOK'
    BY <1>15, DisconnectedType DEF Timeout
  <1>16. ASSUME UNCHANGED vars PROVE TypeOK'
    BY <1>16 DEF vars, local, wire, TypeOK
  <1> QED BY <1>1, <1>2, <1>3, <1>4, <1>5, <1>6, <1>7, <1>8, <1>9, <1>10,
             <1>11, <1>12, <1>13, <1>14, <1>15, <1>16
          DEF Next, NodeStep, EndStep, Receive

(* Every variable keeps its type: in particular _connections only ever holds *)
(* sockets of the node itself, and stored keys are keys.                     *)
THEOREM TypeCorrect == Spec => []TypeOK
  <1>1. Init => TypeOK
    BY KeyFacts, DeploymentsAssumption DEF Init, TypeOK, NewConnections, Phase
  <1> QED BY <1>1, TypeStep, PTL DEF Spec
-----------------------------------------------------------------------------
(* The inductive invariant.  Each lemma shows that one way to step keeps     *)
(* IndInv; first, that a connection which goes down keeps it: _onDisconnected *)
(* without dialling again, then with it.                                     *)
HangUp(e) ==
    /\ \A d \in End : d # e => phase'[d] = phase[d]
    /\ conn'[e.own][e.peer] = IF IsCurrent(e) THEN Idle ELSE conn[e.own][e.peer]

Redial(e, r) ==
    /\ IsCurrent(e) /\ Outgoing(e) /\ r \in Fresh(e.own, e.peer)
    /\ phase'[r] = "connecting"
    /\ \A d \in End : d # e /\ d # r => phase'[d] = phase[d]
    /\ conn'[e.own][e.peer] = r

GoesDown(e) ==
    /\ phase'[e] = "closed"
    /\ \A n, m \in Node : ~(n = e.own /\ m = e.peer) => conn'[n][m] = conn[n][m]
    /\ enc'[e] = FALSE /\ inbox'[e] = <<>>
    /\ \A d \in End : d # e => enc'[d] = enc[d] /\ inbox'[d] = inbox[d]
    /\ \A n \in Node : n # e.own => up'[n] = up[n] /\ unknown'[n] = unknown[n]
    /\ up'[e.own] = IF IsCurrent(e) THEN up[e.own] \ {e.peer} ELSE up[e.own]
    /\ unknown'[e.own] = unknown[e.own] \ {e}
    /\ UNCHANGED <<disk, alive, signKey, peerKey>>

LEMMA DisconnectedEffect ==
    ASSUME TypeOK, NEW e \in End, Open(e), Disconnected(e)
    PROVE  GoesDown(e) /\ (HangUp(e) \/ \E r \in End : Redial(e, r))
  <1>0. e.own \in Node /\ e.peer \in Node
    BY EndFacts
  <1>1. /\ enc'[e] = FALSE /\ inbox'[e] = <<>>
        /\ \A d \in End : d # e => enc'[d] = enc[d] /\ inbox'[d] = inbox[d]
        /\ \A n \in Node : n # e.own => up'[n] = up[n] /\ unknown'[n] = unknown[n]
        /\ up'[e.own] = IF IsCurrent(e) THEN up[e.own] \ {e.peer} ELSE up[e.own]
        /\ unknown'[e.own] = unknown[e.own] \ {e}
        /\ UNCHANGED <<disk, alive, signKey, peerKey>>
    BY <1>0 DEF Disconnected, TypeOK
  <1>2. CASE /\ phase' = [phase EXCEPT ![e] = "closed"]
             /\ conn' = [conn EXCEPT ![e.own][e.peer] =
                           IF IsCurrent(e) THEN Idle ELSE @]
    <2>1. /\ phase'[e] = "closed" /\ \A d \in End : d # e => phase'[d] = phase[d]
          /\ \A n, m \in Node : ~(n = e.own /\ m = e.peer) => conn'[n][m] = conn[n][m]
          /\ conn'[e.own][e.peer] = IF IsCurrent(e) THEN Idle ELSE conn[e.own][e.peer]
      BY <1>0, <1>2 DEF TypeOK
    <2> QED BY <1>1, <2>1 DEF GoesDown, HangUp
  <1>3. ASSUME IsCurrent(e), Outgoing(e), NEW r \in Fresh(e.own, e.peer),
               phase' = [phase EXCEPT ![e] = "closed", ![r] = "connecting"],
               conn' = [conn EXCEPT ![e.own][e.peer] = r]
        PROVE  GoesDown(e) /\ Redial(e, r) /\ r \in End
    <2>1. r \in End /\ r # e
      BY <1>3 DEF Fresh, Open
    <2>2. /\ phase'[e] = "closed" /\ phase'[r] = "connecting"
          /\ \A d \in End : d # e /\ d # r => phase'[d] = phase[d]
          /\ \A n, m \in Node : ~(n = e.own /\ m = e.peer) => conn'[n][m] = conn[n][m]
          /\ conn'[e.own][e.peer] = r
      BY <1>0, <1>3, <2>1 DEF TypeOK
    <2> QED BY <1>1, <1>3, <2>1, <2>2 DEF GoesDown, Redial
  <1> QED BY <1>2, <1>3 DEF Disconnected

LEMMA FreshFacts ==
    ASSUME NEW n \in Node, NEW m \in Node, NEW r \in Fresh(n, m)
    PROVE  /\ r \in End /\ r.own = n /\ r.peer = m
           /\ phase[r] = "closed" /\ phase[Other(r)] = "closed"
           /\ (Outgoing(r) <=> ShouldConnect(n, m))
  BY DEF Fresh, Outgoing, Open

(* The parts that only say something of the connection itself, of keys, or   *)
(* of stopped nodes survive in either case.                                  *)
LEMMA GoesDownKeeps ==
    ASSUME IndInv, NEW e \in End, Open(e), GoesDown(e),
           HangUp(e) \/ \E r \in End : Redial(e, r)
    PROVE  /\ Lifecycle' /\ KeysArePublished' /\ GreetingFirst'
           /\ NothingPassesUnverified' /\ StoppedHoldsNothing'
  <1>0. \A d \in End : d # e =>
           \/ phase'[d] = phase[d]
           \/ /\ phase'[d] = "connecting" /\ phase[d] = "closed"
              /\ phase[Other(d)] = "closed" /\ d.own = e.own /\ Outgoing(d)
    BY FreshFacts, EndFacts DEF HangUp, Redial, Outgoing
  <1>1. Lifecycle'
    <2> SUFFICES ASSUME NEW d \in End PROVE EndLifecycle(d)'
      BY DEF Lifecycle
    <2>1. /\ Other(d) \in End /\ Other(d) # d
          /\ Other(Other(d)) = d /\ (Outgoing(Other(d)) <=> ~Outgoing(d))
      BY EndFacts
    <2>2. CASE d = e
      BY <2>1, <2>2 DEF GoesDown, EndLifecycle
    <2>3. CASE d # e /\ phase'[d] = phase[d]
      <3>1. EndLifecycle(d) /\ enc'[d] = enc[d] /\ inbox'[d] = inbox[d]
        BY <2>3 DEF IndInv, Lifecycle, GoesDown
      <3>2. phase'[Other(d)] = "verified" => phase[Other(d)] = "verified"
        BY <1>0, <2>1 DEF GoesDown
      <3>3. phase[d] = "connecting" => ~Open(Other(d))'
        <4>1. CASE Other(d) = e
          BY <4>1 DEF GoesDown, Open
        <4>2. CASE Other(d) # e
          BY <1>0, <2>1, <3>1, <4>2 DEF EndLifecycle, Open
        <4> QED BY <4>1, <4>2
      <3> QED BY <2>3, <3>1, <3>2, <3>3 DEF EndLifecycle
    <2>4. CASE d # e /\ phase'[d] # phase[d]
      <3>1. /\ phase'[d] = "connecting" /\ phase[d] = "closed"
            /\ phase[Other(d)] = "closed" /\ Outgoing(d)
        BY <1>0, <2>4
      <3>2. EndLifecycle(d) /\ enc'[d] = enc[d] /\ inbox'[d] = inbox[d]
        BY <2>4 DEF IndInv, Lifecycle, GoesDown
      <3>3. phase'[Other(d)] = "closed"
        BY <1>0, <2>1, <3>1 DEF GoesDown
      <3> QED BY <3>1, <3>2, <3>3 DEF EndLifecycle, Open
    <2> QED BY <2>2, <2>3, <2>4
  <1>2. KeysArePublished'
    BY DEF GoesDown, IndInv, KeysArePublished
  <1>3. GreetingFirst'
    BY <1>0 DEF GoesDown, IndInv, GreetingFirst
  <1>4. NothingPassesUnverified'
    BY <1>0 DEF GoesDown, IndInv, NothingPassesUnverified, Unproven
  <1>5. StoppedHoldsNothing'
    <2> SUFFICES ASSUME NEW n \in Node, ~alive'[n]
                 PROVE  /\ up'[n] = {}
                        /\ \A m \in Node : conn'[n][m] = NoConn /\ peerKey'[n][m] = NoKey
                        /\ \A d \in End : d.own = n => ~Open(d)'
      BY DEF StoppedHoldsNothing
    <2>1. ~alive[n] /\ n # e.own
      BY DEF GoesDown, IndInv, StoppedHoldsNothing
    <2>2. up'[n] = {} /\ \A m \in Node : conn'[n][m] = NoConn /\ peerKey'[n][m] = NoKey
      BY <2>1 DEF GoesDown, IndInv, StoppedHoldsNothing
    <2>3. ASSUME NEW d \in End, d.own = n PROVE ~Open(d)'
      <3>1. phase[d] = "closed" /\ d # e
        BY <2>1, <2>3 DEF IndInv, StoppedHoldsNothing, Open
      <3>2. phase'[d] = phase[d]
        BY <1>0, <2>1, <2>3, <3>1
      <3> QED BY <3>1, <3>2 DEF Open
    <2> QED BY <2>2, <2>3
  <1> QED BY <1>1, <1>2, <1>3, <1>4, <1>5

LEMMA HangUpInv ==
    ASSUME IndInv, NEW e \in End, Open(e), phase[e] # "backlog",
           GoesDown(e), HangUp(e)
    PROVE  WellPlaced' /\ EveryEndTracked' /\ NotifiedIsAuthenticated'
  <1> USE NoEndAssumption
  <1>0. e.own \in Node /\ e.peer \in Node
    BY EndFacts
  <1>1. WellPlaced'
    BY <1>0 DEF IndInv, WellPlaced, GoesDown, HangUp, IsCurrent
  <1>2. EveryEndTracked'
    <2> SUFFICES ASSUME NEW d \in End PROVE EndTracked(d)'
      BY DEF EveryEndTracked
    <2>1. d.own \in Node /\ d.peer \in Node /\ EndTracked(d)
      BY EndFacts DEF IndInv, EveryEndTracked
    <2>2. CASE d = e
      <3>1. ~Open(e)' /\ ~IsCurrent(e)' /\ e \notin unknown'[e.own]
        BY <1>0 DEF GoesDown, HangUp, IsCurrent, Open
      <3> QED BY <2>2, <3>1 DEF EndTracked, Open
    <2>3. CASE d # e
      <3>1. IsCurrent(d)' <=> IsCurrent(d)
        BY <1>0, <2>1, <2>3 DEF GoesDown, HangUp, IsCurrent
      <3>2. phase'[d] = phase[d] /\ (d \in unknown'[d.own] <=> d \in unknown[d.own])
        BY <2>1, <2>3 DEF GoesDown, HangUp
      <3> QED BY <2>1, <3>1, <3>2 DEF EndTracked, Open
    <2> QED BY <2>2, <2>3
  <1>3. NotifiedIsAuthenticated'
    <2> SUFFICES ASSUME NEW n \in Node, NEW m \in Node PROVE PeerNotified(n, m)'
      BY DEF NotifiedIsAuthenticated
    <2>1. PeerNotified(n, m)
      BY DEF IndInv, NotifiedIsAuthenticated
    <2>2. CASE n = e.own /\ m = e.peer /\ IsCurrent(e)
      BY <1>0, <2>2 DEF GoesDown, HangUp, PeerNotified, Unproven
    <2>3. CASE ~(n = e.own /\ m = e.peer /\ IsCurrent(e))
      <3>1. conn'[n][m] = conn[n][m] /\ (m \in up'[n] <=> m \in up[n])
        BY <1>0, <2>3 DEF GoesDown, HangUp
      <3>2. conn[n][m] # e
        BY <2>3 DEF IndInv, WellPlaced, IsCurrent
      <3> QED BY <2>1, <3>1, <3>2 DEF PeerNotified, Unproven, GoesDown, HangUp
    <2> QED BY <2>2, <2>3
  <1> QED BY <1>1, <1>2, <1>3

LEMMA RedialInv ==
    ASSUME IndInv, NEW e \in End, Open(e),
           GoesDown(e), NEW r \in End, Redial(e, r)
    PROVE  WellPlaced' /\ EveryEndTracked' /\ NotifiedIsAuthenticated'
  <1> USE NoEndAssumption
  <1>0. e.own \in Node /\ e.peer \in Node
    BY EndFacts
  <1>1. /\ r.own = e.own /\ r.peer = e.peer /\ phase[r] = "closed"
        /\ Outgoing(r) /\ r # e
    BY <1>0, FreshFacts DEF Redial, Outgoing, Open
  <1>2. WellPlaced'
    BY <1>0, <1>1 DEF IndInv, WellPlaced, GoesDown, Redial
  <1>3. EveryEndTracked'
    <2> SUFFICES ASSUME NEW d \in End PROVE EndTracked(d)'
      BY DEF EveryEndTracked
    <2>1. d.own \in Node /\ d.peer \in Node /\ EndTracked(d)
      BY EndFacts DEF IndInv, EveryEndTracked
    <2>2. CASE d = e
      <3>1. ~Open(e)' /\ ~IsCurrent(e)' /\ Outgoing(e)
        BY <1>1 DEF GoesDown, Redial, IsCurrent, Open
      <3> QED BY <2>2, <3>1 DEF EndTracked
    <2>3. CASE d = r
      <3>1. Open(r)' /\ IsCurrent(r)' /\ Outgoing(r)
        BY <1>1 DEF GoesDown, Redial, IsCurrent, Open
      <3> QED BY <2>3, <3>1 DEF EndTracked
    <2>4. CASE d # e /\ d # r
      <3>1. IsCurrent(d)' <=> IsCurrent(d)
        <4>1. CASE d.own = e.own /\ d.peer = e.peer
          BY <2>4, <4>1 DEF Redial, IsCurrent
        <4>2. CASE ~(d.own = e.own /\ d.peer = e.peer)
          BY <2>1, <4>2 DEF GoesDown, IsCurrent
        <4> QED BY <4>1, <4>2
      <3>2. phase'[d] = phase[d] /\ (d \in unknown'[d.own] <=> d \in unknown[d.own])
        BY <2>1, <2>4 DEF GoesDown, Redial
      <3> QED BY <2>1, <3>1, <3>2 DEF EndTracked, Open
    <2> QED BY <2>2, <2>3, <2>4
  <1>4. NotifiedIsAuthenticated'
    <2> SUFFICES ASSUME NEW n \in Node, NEW m \in Node PROVE PeerNotified(n, m)'
      BY DEF NotifiedIsAuthenticated
    <2>1. PeerNotified(n, m)
      BY DEF IndInv, NotifiedIsAuthenticated
    <2>2. CASE n = e.own /\ m = e.peer
      BY <1>0, <1>1, <2>2 DEF GoesDown, Redial, PeerNotified, Unproven
    <2>3. CASE ~(n = e.own /\ m = e.peer)
      <3>1. conn'[n][m] = conn[n][m] /\ (m \in up'[n] <=> m \in up[n])
        BY <1>0, <2>3 DEF GoesDown
      <3>2. conn[n][m] \in End => conn[n][m] # e /\ conn[n][m] # r
        BY <1>1, <2>3 DEF IndInv, WellPlaced
      <3> QED BY <2>1, <3>1, <3>2 DEF PeerNotified, Unproven, GoesDown, Redial
    <2> QED BY <2>2, <2>3
  <1> QED BY <1>2, <1>3, <1>4

LEMMA DisconnectedInv ==
    ASSUME IndInv, NEW e \in End, Open(e), phase[e] # "backlog", Disconnected(e)
    PROVE  IndInv'
  <1>1. GoesDown(e) /\ (HangUp(e) \/ \E r \in End : Redial(e, r))
    BY DisconnectedEffect DEF IndInv
  <1>2. WellPlaced' /\ EveryEndTracked' /\ NotifiedIsAuthenticated'
    BY <1>1, HangUpInv, RedialInv
  <1> QED BY <1>1, <1>2, GoesDownKeeps, DisconnectedType DEF IndInv

LEMMA ConnectInv ==
    ASSUME IndInv, NEW n \in Node, NEW m \in Node, Connect(n, m)
    PROVE  IndInv'
  <1> USE NoEndAssumption
  <1>0. TypeOK'
    BY TypeStep DEF IndInv, Next, NodeStep
  <1>1. PICK r \in Fresh(n, m) : /\ phase' = [phase EXCEPT ![r] = "connecting"]
                                /\ conn' = [conn EXCEPT ![n][m] = r]
    BY DEF Connect
  <1>2. /\ r \in End /\ r.own = n /\ r.peer = m /\ Outgoing(r)
        /\ phase[r] = "closed" /\ phase[Other(r)] = "closed"
        /\ Other(r) \in End /\ Other(r) # r
    BY FreshFacts, EndFacts DEF Connect
  <1>3. /\ phase'[r] = "connecting" /\ \A d \in End : d # r => phase'[d] = phase[d]
        /\ conn'[n][m] = r
        /\ \A a, b \in Node : ~(a = n /\ b = m) => conn'[a][b] = conn[a][b]
    BY <1>1, <1>2 DEF IndInv, TypeOK
  <1>4. /\ alive[n] /\ conn[n][m] = Idle /\ ShouldConnect(n, m)
        /\ UNCHANGED <<disk, alive, signKey, unknown, peerKey, up, enc, inbox>>
    BY DEF Connect
  <1>5. Lifecycle'
    <2> SUFFICES ASSUME NEW d \in End PROVE EndLifecycle(d)'
      BY DEF Lifecycle
    <2>1. EndLifecycle(d) /\ Other(d) \in End /\ Other(Other(d)) = d
      BY EndFacts DEF IndInv, Lifecycle
    <2>2. CASE d = r
      BY <1>2, <1>3, <1>4, <2>1, <2>2 DEF EndLifecycle, Open
    <2>3. CASE d # r
      <3>1. phase[d] = "connecting" => Other(d) # r
        BY <1>2, <2>1
      <3> QED BY <1>3, <1>4, <2>1, <2>3, <3>1 DEF EndLifecycle, Open
    <2> QED BY <2>2, <2>3
  <1>6. WellPlaced'
    BY <1>2, <1>3, <1>4 DEF IndInv, WellPlaced
  <1>7. StoppedHoldsNothing'
    BY <1>2, <1>3, <1>4 DEF IndInv, StoppedHoldsNothing, Open
  <1>8. KeysArePublished'
    BY <1>4 DEF IndInv, KeysArePublished
  <1>9. EveryEndTracked'
    <2> SUFFICES ASSUME NEW d \in End PROVE EndTracked(d)'
      BY DEF EveryEndTracked
    <2>1. d.own \in Node /\ d.peer \in Node /\ EndTracked(d)
      BY EndFacts DEF IndInv, EveryEndTracked
    <2>2. CASE d = r
      BY <1>2, <1>3, <2>2 DEF EndTracked, Open, IsCurrent
    <2>3. CASE d # r
      <3>1. IsCurrent(d)' <=> IsCurrent(d)
        BY <1>2, <1>3, <1>4, <2>1, <2>3 DEF IsCurrent
      <3> QED BY <1>3, <1>4, <2>1, <2>3, <3>1 DEF EndTracked, Open
    <2> QED BY <2>2, <2>3
  <1>10. GreetingFirst'
    BY <1>2, <1>3, <1>4 DEF IndInv, GreetingFirst
  <1>11. NotifiedIsAuthenticated'
    <2> SUFFICES ASSUME NEW a \in Node, NEW b \in Node PROVE PeerNotified(a, b)'
      BY DEF NotifiedIsAuthenticated
    <2>1. PeerNotified(a, b)
      BY DEF IndInv, NotifiedIsAuthenticated
    <2>2. CASE a = n /\ b = m
      BY <1>3, <1>4, <2>1, <2>2 DEF PeerNotified, Unproven
    <2>3. CASE ~(a = n /\ b = m)
      <3>1. conn'[a][b] = conn[a][b] /\ (conn[a][b] \in End => conn[a][b] # r)
        BY <1>2, <1>3, <2>3 DEF IndInv, WellPlaced
      <3> QED BY <1>3, <1>4, <2>1, <3>1 DEF PeerNotified, Unproven
    <2> QED BY <2>2, <2>3
  <1>12. NothingPassesUnverified'
    BY <1>3, <1>4 DEF IndInv, NothingPassesUnverified, Unproven
  <1> QED BY <1>0, <1>5, <1>6, <1>7, <1>8, <1>9, <1>10, <1>11, <1>12 DEF IndInv

LEMMA EstablishedInv ==
    ASSUME IndInv, NEW e \in End, Established(e)
    PROVE  IndInv'
  <1> DEFINE o == Other(e)
  <1>0. TypeOK'
    BY TypeStep DEF IndInv, Next, EndStep
  <1>1. /\ o \in End /\ o # e /\ Other(o) = e /\ o.own = e.peer /\ o.peer = e.own
        /\ e.own \in Node /\ e.peer \in Node
    BY EndFacts
  <1>2. /\ phase[e] = "connecting" /\ Outgoing(e) /\ ~Outgoing(o)
        /\ phase[o] = "closed" /\ inbox[e] = <<>> /\ ~enc[e] /\ ~enc[o]
        /\ alive[e.peer]
    BY <1>1, EndFacts DEF Established, IndInv, Lifecycle, EndLifecycle, Open
  <1>3. /\ phase'[e] = "handshake" /\ phase'[o] = "backlog"
        /\ \A d \in End : d # e /\ d # o => phase'[d] = phase[d] /\ inbox'[d] = inbox[d]
        /\ inbox'[e] = inbox[e]
        /\ inbox'[o] = <<Outbound(e, "handshake")>>
        /\ UNCHANGED <<local, enc>>
    BY <1>1 DEF Established, IndInv, TypeOK
  <1>4. UNCHANGED <<disk, alive, signKey, conn, unknown, peerKey, up, enc>>
    BY <1>3 DEF local
  <1> HIDE DEF o
  <1>5. Lifecycle'
    <2> SUFFICES ASSUME NEW d \in End PROVE EndLifecycle(d)'
      BY DEF Lifecycle
    <2>1. EndLifecycle(d) /\ Other(d) \in End /\ Other(Other(d)) = d
      BY EndFacts DEF IndInv, Lifecycle
    <2>2. CASE d = e
      <3>1. Other(d) = o
        BY <2>2 DEF o
      <3> QED BY <1>2, <1>3, <1>4, <2>2, <3>1 DEF EndLifecycle
    <2>3. CASE d = o
      BY <1>2, <1>3, <1>4, <2>3 DEF EndLifecycle
    <2>4. CASE d # e /\ d # o
      <3>1. Other(d) # e /\ Other(d) # o
        BY <1>1, <2>1, <2>4 DEF o
      <3> QED BY <1>3, <1>4, <2>1, <2>4, <3>1 DEF EndLifecycle, Open
    <2> QED BY <2>2, <2>3, <2>4
  <1>6. WellPlaced'
    BY <1>4 DEF IndInv, WellPlaced
  <1>7. StoppedHoldsNothing'
    <2>1. alive[e.own]
      BY <1>1, <1>2 DEF IndInv, StoppedHoldsNothing, Open
    <2> QED BY <1>1, <1>2, <1>3, <1>4, <2>1 DEF IndInv, StoppedHoldsNothing, Open
  <1>8. KeysArePublished'
    <2> SUFFICES ASSUME NEW d \in End, NEW i \in DOMAIN inbox'[d]
                 PROVE  inbox'[d][i].key <= signKey'[d.peer]
      BY DEF KeysArePublished
    <2>1. CASE d = o
      <3>1. inbox'[d] = <<Outbound(e, "handshake")>> /\ i = 1
        BY <1>3, <2>1
      <3>2. signKey[e.own] \in Nat
        BY <1>1, MaxKeyAssumption DEF IndInv, TypeOK, Generation
      <3> QED BY <1>1, <1>4, <2>1, <3>1, <3>2 DEF Outbound
    <2>2. CASE d # o
      BY <1>3, <1>4, <2>2 DEF IndInv, KeysArePublished
    <2> QED BY <2>1, <2>2
  <1>9. EveryEndTracked'
    <2> SUFFICES ASSUME NEW d \in End PROVE EndTracked(d)'
      BY DEF EveryEndTracked
    <2>1. EndTracked(d) /\ (IsCurrent(d)' <=> IsCurrent(d))
      BY <1>4 DEF IndInv, EveryEndTracked, IsCurrent
    <2> QED BY <1>2, <1>3, <1>4, <2>1 DEF EndTracked, Open
  <1>10. GreetingFirst'
    <2>1. Head(<<Outbound(e, "handshake")>>).type = "handshake"
      BY DEF Outbound
    <2> QED BY <1>2, <1>3, <2>1 DEF IndInv, GreetingFirst
  <1>11. NotifiedIsAuthenticated'
    <2> SUFFICES ASSUME NEW a \in Node, NEW b \in Node PROVE PeerNotified(a, b)'
      BY DEF NotifiedIsAuthenticated
    <2>1. PeerNotified(a, b)
      BY DEF IndInv, NotifiedIsAuthenticated
    <2> QED BY <1>2, <1>3, <1>4, <2>1 DEF PeerNotified, Unproven
  <1>12. NothingPassesUnverified'
    BY <1>3, <1>4 DEF IndInv, NothingPassesUnverified, Unproven
  <1> QED BY <1>0, <1>5, <1>6, <1>7, <1>8, <1>9, <1>10, <1>11, <1>12 DEF IndInv

LEMMA AcceptInv ==
    ASSUME IndInv, NEW e \in End, Accept(e)
    PROVE  IndInv'
  <1>0. TypeOK'
    BY TypeStep DEF IndInv, Next, EndStep
  <1>1. /\ e.own \in Node /\ phase[e] = "backlog" /\ ~Outgoing(e) /\ ~IsCurrent(e)
    BY EndFacts DEF Accept, IndInv, Lifecycle, EndLifecycle, EveryEndTracked, EndTracked
  <1>2. /\ phase'[e] = "handshake"
        /\ \A d \in End : d # e => phase'[d] = phase[d]
        /\ unknown'[e.own] = unknown[e.own] \cup {e}
        /\ \A n \in Node : n # e.own => unknown'[n] = unknown[n]
        /\ UNCHANGED <<disk, alive, signKey, conn, peerKey, up, enc, inbox>>
    BY <1>1 DEF Accept, IndInv, TypeOK
  <1>3. Lifecycle'
    <2> SUFFICES ASSUME NEW d \in End PROVE EndLifecycle(d)'
      BY DEF Lifecycle
    <2>1. EndLifecycle(d) /\ Other(d) \in End
      BY EndFacts DEF IndInv, Lifecycle
    <2> QED BY <1>1, <1>2, <2>1 DEF EndLifecycle, Open
  <1>4. WellPlaced' /\ KeysArePublished'
    BY <1>2 DEF IndInv, WellPlaced, KeysArePublished
  <1>5. StoppedHoldsNothing'
    BY <1>1, <1>2 DEF IndInv, StoppedHoldsNothing, Open
  <1>6. EveryEndTracked'
    <2> SUFFICES ASSUME NEW d \in End PROVE EndTracked(d)'
      BY DEF EveryEndTracked
    <2>1. /\ d.own \in Node /\ EndTracked(d)
          /\ IsCurrent(d)' <=> IsCurrent(d)
      BY <1>2, EndFacts DEF IndInv, EveryEndTracked, IsCurrent
    <2> QED BY <1>1, <1>2, <2>1 DEF EndTracked, Open
  <1>7. GreetingFirst'
    BY <1>1, <1>2 DEF IndInv, GreetingFirst
  <1>8. NotifiedIsAuthenticated'
    <2> SUFFICES ASSUME NEW a \in Node, NEW b \in Node PROVE PeerNotified(a, b)'
      BY DEF NotifiedIsAuthenticated
    <2>1. PeerNotified(a, b)
      BY DEF IndInv, NotifiedIsAuthenticated
    <2> QED BY <1>1, <1>2, <2>1 DEF PeerNotified, Unproven
  <1>9. NothingPassesUnverified'
    BY <1>2 DEF IndInv, NothingPassesUnverified, Unproven
  <1> QED BY <1>0, <1>3, <1>4, <1>5, <1>6, <1>7, <1>8, <1>9 DEF IndInv

(* A message read while the handshake is awaited is one with a published key. *)
LEMMA HandshakeHead ==
    ASSUME IndInv, NEW e \in End, phase[e] = "handshake", inbox[e] # <<>>
    PROVE  /\ Head(inbox[e]) \in Message /\ Tail(inbox[e]) \in Seq(Message)
           /\ Head(inbox[e]).type = "handshake"
           /\ Head(inbox[e]).key <= signKey[e.peer]
           /\ \/ Rejected(e, Head(inbox[e]))
              \/ SentFrom(e, Head(inbox[e])) = "valid"
              \/ Unproven(e.own, e.peer)
           /\ \A i \in DOMAIN Tail(inbox[e]) : Tail(inbox[e])[i].key <= signKey[e.peer]
  <1>1. inbox[e] \in Seq(Message)
    BY DEF IndInv, TypeOK
  <1>2. 1 \in DOMAIN inbox[e] /\ Head(inbox[e]) = inbox[e][1]
    BY <1>1
  <1>3. \A i \in DOMAIN Tail(inbox[e]) :
           i + 1 \in DOMAIN inbox[e] /\ Tail(inbox[e])[i] = inbox[e][i + 1]
    BY <1>1
  <1>4. Head(inbox[e]).type = "handshake"
    BY DEF IndInv, GreetingFirst
  <1>5. Head(inbox[e]).key <= signKey[e.peer]
    BY <1>2 DEF IndInv, KeysArePublished
  <1>6. \A i \in DOMAIN Tail(inbox[e]) : Tail(inbox[e])[i].key <= signKey[e.peer]
    BY <1>3 DEF IndInv, KeysArePublished
  <1>7. Head(inbox[e]) \in Message /\ Tail(inbox[e]) \in Seq(Message)
    BY <1>1
  <1>8. ASSUME ~Rejected(e, Head(inbox[e])), SentFrom(e, Head(inbox[e])) # "valid"
        PROVE  Unproven(e.own, e.peer)
    <2> DEFINE k == Head(inbox[e]).key
    <2>1. k \in Generation /\ e.peer \in Node
      BY <1>7, EndFacts DEF Message
    <2>2. k \in 1 .. signKey[e.peer]
      BY <1>5, <2>1, MaxKeyAssumption DEF IndInv, TypeOK, Generation
    <2>3. disk[e.peer][k] \in Grade
      BY <2>1 DEF IndInv, TypeOK
    <2>4. disk[e.peer][k] = "blank" \/ (disk[e.peer][k] = "unsigned" /\ Outgoing(e))
      BY <1>4, <1>8, <2>3 DEF Rejected, SentFrom, Grade
    <2> QED BY <2>2, <2>4 DEF Unproven, Outgoing
  <1> QED BY <1>4, <1>5, <1>6, <1>7, <1>8

(* Sending appends a message with the sender's own key, behind whatever was  *)
(* in front.                                                                 *)
LEMMA AppendFacts ==
    ASSUME TypeOK, NEW e \in End, NEW type \in {"handshake", "raft"},
           NEW box \in Seq(Message), NEW d \in End, d.peer = e.own,
           \A i \in DOMAIN box : box[i].key <= signKey[d.peer]
    PROVE  LET new == Append(box, Outbound(e, type)) IN
           /\ new \in Seq(Message) /\ new # <<>>
           /\ Head(new).type = IF box = <<>> THEN type ELSE Head(box).type
           /\ \A i \in DOMAIN new : new[i].key <= signKey[d.peer]
  <1> DEFINE msg == Outbound(e, type)
             new == Append(box, msg)
  <1>1. msg \in Message /\ msg.type = type /\ msg.key = signKey[e.own]
    BY OutboundType DEF Outbound
  <1>2. signKey[e.own] \in Nat
    BY EndFacts, MaxKeyAssumption DEF TypeOK, Generation
  <1> HIDE DEF msg
  <1>3. new \in Seq(Message) /\ new # <<>>
    BY <1>1
  <1>4. Head(new).type = IF box = <<>> THEN type ELSE Head(box).type
    BY <1>1
  <1>5. ASSUME NEW i \in DOMAIN new PROVE new[i].key <= signKey[d.peer]
    <2>1. CASE i = Len(box) + 1
      BY <1>1, <1>2, <2>1
    <2>2. CASE i # Len(box) + 1
      <3>1. i \in DOMAIN box /\ new[i] = box[i]
        BY <1>1, <2>2
      <3> QED BY <3>1
    <2> QED BY <2>1, <2>2
  <1> QED BY <1>3, <1>4, <1>5 DEF msg

(* A connection promoted by either handshake handler. *)
LEMMA AuthenticatedEffect ==
    ASSUME TypeOK, NEW e \in End, NEW msg, msg.type = "handshake",
           Authenticated(e, msg)
    PROVE  /\ peerKey'[e.own][e.peer] =
                 IF SentFrom(e, msg) = "valid" THEN msg.key ELSE peerKey[e.own][e.peer]
           /\ up'[e.own] = up[e.own] \cup {e.peer}
           /\ \A n, m \in Node : ~(n = e.own /\ m = e.peer) =>
                 /\ peerKey'[n][m] = peerKey[n][m]
                 /\ m \in up'[n] <=> m \in up[n]
           /\ \A n \in Node : n # e.own => up'[n] = up[n]
  <1>1. e.own \in Node /\ e.peer \in Node
    BY EndFacts
  <1>2. peerKey' = [peerKey EXCEPT ![e.own][e.peer] = IF SentFrom(e, msg) = "valid" THEN msg.key ELSE @]
    BY DEF Authenticated
  <1>3. up' = [up EXCEPT ![e.own] = @ \cup {e.peer}]
    BY DEF Authenticated
  <1>4. /\ up'[e.own] = up[e.own] \cup {e.peer}
        /\ \A n \in Node : n # e.own => up'[n] = up[n]
    BY <1>1, <1>3 DEF TypeOK
  <1>5. /\ peerKey'[e.own][e.peer] =
              IF SentFrom(e, msg) = "valid" THEN msg.key ELSE peerKey[e.own][e.peer]
        /\ \A n, m \in Node : ~(n = e.own /\ m = e.peer) => peerKey'[n][m] = peerKey[n][m]
    BY <1>1, <1>2 DEF TypeOK
  <1> QED BY <1>4, <1>5

LEMMA AcceptHandshakeInv ==
    ASSUME IndInv, NEW e \in End, AcceptHandshake(e)
    PROVE  IndInv'
  <1> DEFINE msg == Head(inbox[e])
             o == Other(e)
  <1>0. TypeOK'
    BY TypeStep DEF IndInv, Next, EndStep, Receive
  <1>1. /\ o \in End /\ o # e /\ Other(o) = e /\ o.own = e.peer /\ o.peer = e.own
        /\ e.own \in Node /\ e.peer \in Node
    BY EndFacts
  <1>2. /\ phase[e] = "handshake" /\ inbox[e] # <<>> /\ ~Outgoing(e) /\ Outgoing(o)
        /\ msg.type = "handshake" /\ ~Rejected(e, msg) /\ phase[o] # "connecting"
    BY <1>1, EndFacts
       DEF AcceptHandshake, Readable, IndInv, Lifecycle, EndLifecycle, Open
  <1>3. /\ Tail(inbox[e]) \in Seq(Message)
        /\ \A i \in DOMAIN Tail(inbox[e]) : Tail(inbox[e])[i].key <= signKey[e.peer]
    BY <1>2, HandshakeHead
  <1>4. /\ phase'[e] = "verified" /\ \A d \in End : d # e => phase'[d] = phase[d]
        /\ enc'[e] = Crypto /\ \A d \in End : d # e => enc'[d] = enc[d]
        /\ conn'[e.own][e.peer] = e
        /\ \A n, m \in Node : ~(n = e.own /\ m = e.peer) => conn'[n][m] = conn[n][m]
        /\ unknown'[e.own] = unknown[e.own] \ {e}
        /\ \A n \in Node : n # e.own => unknown'[n] = unknown[n]
        /\ UNCHANGED <<disk, alive, signKey>>
    BY <1>1 DEF AcceptHandshake, IndInv, TypeOK
  <1>5. /\ peerKey'[e.own][e.peer] # NoKey \/ Unproven(e.own, e.peer)
        /\ up'[e.own] = up[e.own] \cup {e.peer}
        /\ \A n, m \in Node : ~(n = e.own /\ m = e.peer) =>
              /\ peerKey'[n][m] = peerKey[n][m]
              /\ m \in up'[n] <=> m \in up[n]
        /\ \A n \in Node : n # e.own => up'[n] = up[n]
    BY <1>2, AuthenticatedEffect, HandshakeHead, KeyFacts
       DEF AcceptHandshake, IndInv, Message
  <1>6. /\ inbox'[e] = Tail(inbox[e])
        /\ inbox'[o] = IF Open(o) THEN Append(inbox[o], Outbound(e, "handshake"))
                                  ELSE inbox[o]
        /\ \A d \in End : d # e /\ d # o => inbox'[d] = inbox[d]
    BY <1>1 DEF AcceptHandshake, Delivered, IndInv, TypeOK
  <1>7. /\ inbox[o] \in Seq(Message)
        /\ \A i \in DOMAIN inbox[o] : inbox[o][i].key <= signKey[o.peer]
    BY <1>1 DEF IndInv, TypeOK, KeysArePublished
  <1>8. LET new == Append(inbox[o], Outbound(e, "handshake")) IN
        /\ new # <<>>
        /\ Head(new).type = IF inbox[o] = <<>> THEN "handshake" ELSE Head(inbox[o]).type
        /\ \A i \in DOMAIN new : new[i].key <= signKey[o.peer]
    BY <1>1, <1>7, AppendFacts DEF IndInv
  <1>9. alive[e.own]
    BY <1>1, <1>2 DEF IndInv, StoppedHoldsNothing, Open
  <1> HIDE DEF o, msg
  <1>10. Lifecycle'
    <2> SUFFICES ASSUME NEW d \in End PROVE EndLifecycle(d)'
      BY DEF Lifecycle
    <2>1. EndLifecycle(d) /\ Other(d) \in End /\ Other(Other(d)) = d
      BY EndFacts DEF IndInv, Lifecycle
    <2>2. CASE d = e
      BY <1>2, <1>4, <2>2 DEF EndLifecycle
    <2>3. CASE d = o
      BY <1>1, <1>2, <1>4, <1>6, <1>8, <2>1, <2>3 DEF EndLifecycle, Open
    <2>4. CASE d # e /\ d # o
      <3>1. Other(d) # e
        BY <1>1, <2>1, <2>4 DEF o
      <3> QED BY <1>4, <1>6, <2>1, <2>4, <3>1 DEF EndLifecycle, Open
    <2> QED BY <2>2, <2>3, <2>4
  <1>11. WellPlaced'
    BY <1>1, <1>4 DEF IndInv, WellPlaced
  <1>12. StoppedHoldsNothing'
    BY <1>1, <1>4, <1>5, <1>9 DEF IndInv, StoppedHoldsNothing, Open
  <1>13. KeysArePublished'
    <2> SUFFICES ASSUME NEW d \in End
                 PROVE  \A i \in DOMAIN inbox'[d] : inbox'[d][i].key <= signKey'[d.peer]
      BY DEF KeysArePublished
    <2>1. CASE d = e
      BY <1>3, <1>4, <1>6, <2>1
    <2>2. CASE d = o
      BY <1>4, <1>6, <1>7, <1>8, <2>2
    <2>3. CASE d # e /\ d # o
      BY <1>4, <1>6, <2>3 DEF IndInv, KeysArePublished
    <2> QED BY <2>1, <2>2, <2>3
  <1>14. EveryEndTracked'
    <2> SUFFICES ASSUME NEW d \in End PROVE EndTracked(d)'
      BY DEF EveryEndTracked
    <2>1. d.own \in Node /\ d.peer \in Node /\ EndTracked(d)
      BY EndFacts DEF IndInv, EveryEndTracked
    <2>2. CASE d = e
      BY <1>1, <1>2, <1>4, <2>2 DEF EndTracked
    <2>3. CASE d # e
      <3>1. IsCurrent(d)' => IsCurrent(d)
        BY <1>1, <1>4, <2>1, <2>3 DEF IsCurrent
      <3>2. Outgoing(d) => ~(d.own = e.own /\ d.peer = e.peer)
        BY <1>2 DEF Outgoing
      <3>3. Outgoing(d) => (IsCurrent(d)' <=> IsCurrent(d))
        BY <1>4, <2>1, <3>2 DEF IsCurrent
      <3>4. phase'[d] = phase[d] /\ (d \in unknown'[d.own] <=> d \in unknown[d.own])
        BY <1>4, <2>1, <2>3
      <3> QED BY <2>1, <3>1, <3>3, <3>4 DEF EndTracked, Open
    <2> QED BY <2>2, <2>3
  <1>15. GreetingFirst'
    <2> SUFFICES ASSUME NEW d \in End, phase'[d] \in {"backlog", "handshake"},
                        inbox'[d] # <<>>
                 PROVE  Head(inbox'[d]).type = "handshake"
      BY DEF GreetingFirst
    <2>1. d # e /\ phase'[d] = phase[d]
      BY <1>4
    <2>2. CASE d = o
      BY <1>6, <1>8, <2>1, <2>2 DEF IndInv, GreetingFirst
    <2>3. CASE d # o
      BY <1>6, <2>1, <2>3 DEF IndInv, GreetingFirst
    <2> QED BY <2>2, <2>3
  <1>16. NotifiedIsAuthenticated'
    <2> SUFFICES ASSUME NEW a \in Node, NEW b \in Node PROVE PeerNotified(a, b)'
      BY DEF NotifiedIsAuthenticated
    <2>1. PeerNotified(a, b)
      BY DEF IndInv, NotifiedIsAuthenticated
    <2>2. CASE a = e.own /\ b = e.peer
      BY <1>1, <1>2, <1>4, <1>5, <2>2 DEF PeerNotified, Unproven
    <2>3. CASE ~(a = e.own /\ b = e.peer)
      <3>1. conn'[a][b] = conn[a][b] /\ (conn[a][b] \in End => conn[a][b] # e)
        BY <1>1, <1>4, <2>3 DEF IndInv, WellPlaced
      <3> QED BY <1>4, <1>5, <2>1, <2>3, <3>1 DEF PeerNotified, Unproven
    <2> QED BY <2>2, <2>3
  <1>17. NothingPassesUnverified'
    <2> SUFFICES ASSUME NEW d \in End, phase'[d] = "verified"
                 PROVE  \/ peerKey'[d.own][d.peer] # NoKey
                        \/ Unproven(d.own, d.peer)'
      BY DEF NothingPassesUnverified
    <2>1. d.own \in Node /\ d.peer \in Node
      BY EndFacts
    <2>2. CASE d.own = e.own /\ d.peer = e.peer
      BY <1>2, <1>4, <1>5, <2>2 DEF Unproven
    <2>3. CASE ~(d.own = e.own /\ d.peer = e.peer)
      BY <1>4, <1>5, <2>1, <2>3 DEF IndInv, NothingPassesUnverified, Unproven
    <2> QED BY <2>2, <2>3
  <1> QED BY <1>0, <1>10, <1>11, <1>12, <1>13, <1>14, <1>15, <1>16, <1>17 DEF IndInv

LEMMA AnswerFailsInv ==
    ASSUME IndInv, NEW e \in End, AnswerFails(e)
    PROVE  IndInv'
  <1> USE NoEndAssumption
  <1> DEFINE msg == Head(inbox[e])
  <1>0. TypeOK'
    BY TypeStep DEF IndInv, Next, EndStep, Receive
  <1>1. e.own \in Node /\ e.peer \in Node
    BY EndFacts
  <1>2. /\ phase[e] = "handshake" /\ ~Outgoing(e) /\ ~ShouldConnect(e.own, e.peer)
        /\ msg.type = "handshake" /\ ~Rejected(e, msg)
        /\ ~enc[e] /\ ~IsCurrent(e) /\ phase[Other(e)] = "closed"
    BY DEF AnswerFails, IndInv, Lifecycle, EndLifecycle, EveryEndTracked, EndTracked,
           Outgoing, Open
  <1>3. /\ phase'[e] = "closed" /\ \A d \in End : d # e => phase'[d] = phase[d]
        /\ inbox'[e] = <<>> /\ \A d \in End : d # e => inbox'[d] = inbox[d]
        /\ conn'[e.own][e.peer] = Idle
        /\ \A n, m \in Node : ~(n = e.own /\ m = e.peer) => conn'[n][m] = conn[n][m]
        /\ unknown'[e.own] = unknown[e.own] \ {e}
        /\ \A n \in Node : n # e.own => unknown'[n] = unknown[n]
        /\ UNCHANGED <<disk, alive, signKey, enc>>
    BY <1>1 DEF AnswerFails, IndInv, TypeOK
  <1>4. /\ peerKey'[e.own][e.peer] # NoKey \/ Unproven(e.own, e.peer)
        /\ up'[e.own] = up[e.own] \cup {e.peer}
        /\ \A n, m \in Node : ~(n = e.own /\ m = e.peer) =>
              /\ peerKey'[n][m] = peerKey[n][m]
              /\ m \in up'[n] <=> m \in up[n]
        /\ \A n \in Node : n # e.own => up'[n] = up[n]
    BY <1>2, AuthenticatedEffect, HandshakeHead, KeyFacts
       DEF AnswerFails, Readable, IndInv, Message
  <1>5. alive[e.own]
    BY <1>1, <1>2 DEF IndInv, StoppedHoldsNothing, Open
  <1> HIDE DEF msg
  <1>6. Lifecycle'
    <2> SUFFICES ASSUME NEW d \in End PROVE EndLifecycle(d)'
      BY DEF Lifecycle
    <2>1. EndLifecycle(d) /\ Other(d) \in End
      BY EndFacts DEF IndInv, Lifecycle
    <2>2. CASE d = e
      BY <1>2, <1>3, <2>2 DEF EndLifecycle
    <2>3. CASE d # e
      BY <1>3, <2>1, <2>3 DEF EndLifecycle, Open
    <2> QED BY <2>2, <2>3
  <1>7. WellPlaced'
    BY <1>1, <1>3 DEF IndInv, WellPlaced
  <1>8. StoppedHoldsNothing'
    BY <1>1, <1>3, <1>4, <1>5 DEF IndInv, StoppedHoldsNothing, Open
  <1>9. KeysArePublished' /\ GreetingFirst'
    BY <1>3 DEF IndInv, KeysArePublished, GreetingFirst
  <1>10. EveryEndTracked'
    <2> SUFFICES ASSUME NEW d \in End PROVE EndTracked(d)'
      BY DEF EveryEndTracked
    <2>1. d.own \in Node /\ d.peer \in Node /\ EndTracked(d)
      BY EndFacts DEF IndInv, EveryEndTracked
    <2>2. CASE d = e
      BY <1>1, <1>2, <1>3, <2>2 DEF EndTracked, IsCurrent
    <2>3. CASE d # e
      <3>1. IsCurrent(d)' => IsCurrent(d)
        BY <1>1, <1>3, <2>1, <2>3 DEF IsCurrent
      <3>2. Outgoing(d) => ~(d.own = e.own /\ d.peer = e.peer)
        BY <1>2 DEF Outgoing
      <3>3. Outgoing(d) => (IsCurrent(d)' <=> IsCurrent(d))
        BY <1>3, <2>1, <3>2 DEF IsCurrent
      <3>4. phase'[d] = phase[d] /\ (d \in unknown'[d.own] <=> d \in unknown[d.own])
        BY <1>3, <2>1, <2>3
      <3> QED BY <2>1, <3>1, <3>3, <3>4 DEF EndTracked, Open
    <2> QED BY <2>2, <2>3
  <1>11. NotifiedIsAuthenticated'
    <2> SUFFICES ASSUME NEW a \in Node, NEW b \in Node PROVE PeerNotified(a, b)'
      BY DEF NotifiedIsAuthenticated
    <2>1. PeerNotified(a, b)
      BY DEF IndInv, NotifiedIsAuthenticated
    <2>2. CASE a = e.own /\ b = e.peer
      BY <1>1, <1>2, <1>3, <1>4, <2>2 DEF PeerNotified, Unproven
    <2>3. CASE ~(a = e.own /\ b = e.peer)
      <3>1. conn'[a][b] = conn[a][b] /\ (conn[a][b] \in End => conn[a][b] # e)
        BY <1>1, <1>3, <2>3 DEF IndInv, WellPlaced
      <3> QED BY <1>3, <1>4, <2>1, <2>3, <3>1 DEF PeerNotified, Unproven
    <2> QED BY <2>2, <2>3
  <1>12. NothingPassesUnverified'
    <2> SUFFICES ASSUME NEW d \in End, phase'[d] = "verified"
                 PROVE  \/ peerKey'[d.own][d.peer] # NoKey
                        \/ Unproven(d.own, d.peer)'
      BY DEF NothingPassesUnverified
    <2>1. d.own \in Node /\ d.peer \in Node /\ phase[d] = "verified"
      BY <1>3, EndFacts
    <2>2. CASE d.own = e.own /\ d.peer = e.peer
      BY <1>2, <1>3, <1>4, <2>2 DEF Unproven
    <2>3. CASE ~(d.own = e.own /\ d.peer = e.peer)
      BY <1>3, <1>4, <2>1, <2>3 DEF IndInv, NothingPassesUnverified, Unproven
    <2> QED BY <2>2, <2>3
  <1> QED BY <1>0, <1>6, <1>7, <1>8, <1>9, <1>10, <1>11, <1>12 DEF IndInv

LEMMA HandshakeResponseInv ==
    ASSUME IndInv, NEW e \in End, HandshakeResponse(e)
    PROVE  IndInv'
  <1> DEFINE msg == Head(inbox[e])
  <1>0. TypeOK'
    BY TypeStep DEF IndInv, Next, EndStep, Receive
  <1>1. e.own \in Node /\ e.peer \in Node
    BY EndFacts
  <1>2. /\ phase[e] = "handshake" /\ inbox[e] # <<>> /\ Outgoing(e) /\ IsCurrent(e)
    BY DEF HandshakeResponse, Readable, IndInv, EveryEndTracked, EndTracked, Open
  <1>3. /\ msg.type = "handshake" /\ msg.key # NoKey
        /\ SentFrom(e, msg) = "valid" \/ Unproven(e.own, e.peer)
    BY <1>2, HandshakeHead, KeyFacts DEF HandshakeResponse, Message
  <1>4. /\ phase'[e] = "verified" /\ \A d \in End : d # e => phase'[d] = phase[d]
        /\ enc'[e] = Crypto /\ \A d \in End : d # e => enc'[d] = enc[d]
        /\ inbox'[e] = Tail(inbox[e]) /\ \A d \in End : d # e => inbox'[d] = inbox[d]
        /\ UNCHANGED <<disk, alive, signKey, conn, unknown>>
    BY <1>1 DEF HandshakeResponse, IndInv, TypeOK
  <1>5. /\ peerKey'[e.own][e.peer] # NoKey \/ Unproven(e.own, e.peer)
        /\ up'[e.own] = up[e.own] \cup {e.peer}
        /\ \A n, m \in Node : ~(n = e.own /\ m = e.peer) =>
              /\ peerKey'[n][m] = peerKey[n][m]
              /\ m \in up'[n] <=> m \in up[n]
        /\ \A n \in Node : n # e.own => up'[n] = up[n]
    BY <1>3, AuthenticatedEffect DEF HandshakeResponse, IndInv
  <1>6. alive[e.own]
    BY <1>1, <1>2 DEF IndInv, StoppedHoldsNothing, Open
  <1>7. \A i \in DOMAIN Tail(inbox[e]) : Tail(inbox[e])[i].key <= signKey[e.peer]
    BY <1>2, HandshakeHead
  <1> HIDE DEF msg
  <1>8. Lifecycle'
    <2> SUFFICES ASSUME NEW d \in End PROVE EndLifecycle(d)'
      BY DEF Lifecycle
    <2>1. /\ EndLifecycle(d) /\ Other(d) \in End /\ Other(Other(d)) = d
          /\ (Outgoing(Other(d)) <=> ~Outgoing(d))
      BY EndFacts DEF IndInv, Lifecycle
    <2>2. CASE d = e
      BY <1>2, <1>4, <2>2 DEF EndLifecycle
    <2>3. CASE d # e
      <3>1. phase[d] = "connecting" \/ Outgoing(d) => Other(d) # e
        BY <1>2, <2>1 DEF EndLifecycle
      <3> QED BY <1>4, <2>1, <2>3, <3>1 DEF EndLifecycle, Open
    <2> QED BY <2>2, <2>3
  <1>9. WellPlaced'
    BY <1>4 DEF IndInv, WellPlaced
  <1>10. StoppedHoldsNothing'
    BY <1>1, <1>4, <1>5, <1>6 DEF IndInv, StoppedHoldsNothing, Open
  <1>11. KeysArePublished'
    BY <1>4, <1>7 DEF IndInv, KeysArePublished
  <1>12. EveryEndTracked'
    <2> SUFFICES ASSUME NEW d \in End PROVE EndTracked(d)'
      BY DEF EveryEndTracked
    <2>1. EndTracked(d) /\ (IsCurrent(d)' <=> IsCurrent(d))
      BY <1>4 DEF IndInv, EveryEndTracked, IsCurrent
    <2> QED BY <1>2, <1>4, <2>1 DEF EndTracked, Open
  <1>13. GreetingFirst'
    BY <1>4 DEF IndInv, GreetingFirst
  <1>14. NotifiedIsAuthenticated'
    <2> SUFFICES ASSUME NEW a \in Node, NEW b \in Node PROVE PeerNotified(a, b)'
      BY DEF NotifiedIsAuthenticated
    <2>1. PeerNotified(a, b)
      BY DEF IndInv, NotifiedIsAuthenticated
    <2>2. CASE a = e.own /\ b = e.peer
      BY <1>1, <1>2, <1>3, <1>4, <1>5, <2>2 DEF PeerNotified, Unproven, IsCurrent, Outgoing
    <2>3. CASE ~(a = e.own /\ b = e.peer)
      <3>1. conn[a][b] \in End => conn[a][b] # e
        BY <2>3 DEF IndInv, WellPlaced
      <3> QED BY <1>4, <1>5, <2>1, <2>3, <3>1 DEF PeerNotified, Unproven
    <2> QED BY <2>2, <2>3
  <1>15. NothingPassesUnverified'
    <2> SUFFICES ASSUME NEW d \in End, phase'[d] = "verified"
                 PROVE  \/ peerKey'[d.own][d.peer] # NoKey
                        \/ Unproven(d.own, d.peer)'
      BY DEF NothingPassesUnverified
    <2>1. d.own \in Node /\ d.peer \in Node
      BY EndFacts
    <2>2. CASE d.own = e.own /\ d.peer = e.peer
      BY <1>2, <1>4, <1>5, <2>2 DEF Unproven
    <2>3. CASE ~(d.own = e.own /\ d.peer = e.peer)
      BY <1>4, <1>5, <2>1, <2>3 DEF IndInv, NothingPassesUnverified, Unproven
    <2> QED BY <2>2, <2>3
  <1> QED BY <1>0, <1>8, <1>9, <1>10, <1>11, <1>12, <1>13, <1>14, <1>15 DEF IndInv

LEMMA ReceiveVerifiedInv ==
    ASSUME IndInv, NEW e \in End, ReceiveVerified(e)
    PROVE  IndInv'
  <1>0. TypeOK'
    BY TypeStep DEF IndInv, Next, EndStep, Receive
  <1>1. /\ phase[e] = "verified" /\ inbox[e] # <<>> /\ inbox[e] \in Seq(Message)
    BY DEF ReceiveVerified, Readable, IndInv, TypeOK
  <1>2. /\ inbox'[e] = Tail(inbox[e]) /\ \A d \in End : d # e => inbox'[d] = inbox[d]
        /\ UNCHANGED <<disk, alive, signKey, conn, unknown, peerKey, up, phase, enc>>
    BY DEF ReceiveVerified, IndInv, TypeOK, local
  <1>3. Lifecycle'
    <2> SUFFICES ASSUME NEW d \in End PROVE EndLifecycle(d)'
      BY DEF Lifecycle
    <2>1. EndLifecycle(d)
      BY DEF IndInv, Lifecycle
    <2> QED BY <1>1, <1>2, <2>1 DEF EndLifecycle, Open
  <1>4. KeysArePublished'
    <2> SUFFICES ASSUME NEW d \in End, NEW i \in DOMAIN inbox'[d]
                 PROVE  inbox'[d][i].key <= signKey'[d.peer]
      BY DEF KeysArePublished
    <2>1. CASE d = e
      <3>0. Tail(inbox[e]) \in Seq(Message)
        BY <1>1
      <3>1. inbox'[d] = Tail(inbox[e]) /\ i \in DOMAIN Tail(inbox[e])
        BY <1>2, <2>1
      <3>2. i + 1 \in DOMAIN inbox[e] /\ Tail(inbox[e])[i] = inbox[e][i + 1]
        BY <1>1, <3>0, <3>1
      <3> QED BY <1>2, <2>1, <3>1, <3>2 DEF IndInv, KeysArePublished
    <2>2. CASE d # e
      BY <1>2, <2>2 DEF IndInv, KeysArePublished
    <2> QED BY <2>1, <2>2
  <1>5. GreetingFirst'
    BY <1>1, <1>2 DEF IndInv, GreetingFirst
  <1>6. WellPlaced' /\ StoppedHoldsNothing' /\ EveryEndTracked'
    BY <1>2 DEF IndInv, WellPlaced, StoppedHoldsNothing, EveryEndTracked, EndTracked,
                IsCurrent, Open
  <1>7. NotifiedIsAuthenticated' /\ NothingPassesUnverified'
    BY <1>2 DEF IndInv, NotifiedIsAuthenticated, PeerNotified, Unproven, NothingPassesUnverified, Unproven
  <1> QED BY <1>0, <1>3, <1>4, <1>5, <1>6, <1>7 DEF IndInv

LEMMA SendInv ==
    ASSUME IndInv, NEW n \in Node, NEW m \in Node, Send(n, m)
    PROVE  IndInv'
  <1> DEFINE e == conn[n][m]
             o == Other(e)
             new == Append(inbox[o], Outbound(e, "raft"))
  <1>0. TypeOK'
    BY TypeStep DEF IndInv, Next, NodeStep
  <1>1. /\ e \in End /\ IsCurrent(e) /\ Connected(e) /\ Open(o)
    BY DEF Send, IsCurrent, IndInv, WellPlaced
  <1>2. /\ o \in End /\ o # e /\ Other(o) = e /\ o.peer = e.own
        /\ (Outgoing(o) <=> ~Outgoing(e))
    BY <1>1, EndFacts
  <1>3. /\ inbox'[o] = new /\ \A d \in End : d # o => inbox'[d] = inbox[d]
        /\ UNCHANGED <<disk, alive, signKey, conn, unknown, peerKey, up, phase, enc>>
    BY <1>1, <1>2 DEF Send, Delivered, IndInv, TypeOK, local
  <1>4. /\ inbox[o] \in Seq(Message)
        /\ \A i \in DOMAIN inbox[o] : inbox[o][i].key <= signKey[o.peer]
    BY <1>2 DEF IndInv, TypeOK, KeysArePublished
  <1>5. /\ new # <<>>
        /\ Head(new).type = IF inbox[o] = <<>> THEN "raft" ELSE Head(inbox[o]).type
        /\ \A i \in DOMAIN new : new[i].key <= signKey[o.peer]
    BY <1>1, <1>2, <1>4, AppendFacts DEF IndInv
  <1>6. phase[o] # "connecting" /\ (phase[o] \in {"backlog", "handshake"} => inbox[o] # <<>>)
    <2>1. EndLifecycle(o) /\ EndLifecycle(e) /\ EndTracked(e)
      BY <1>1, <1>2 DEF IndInv, Lifecycle, EveryEndTracked
    <2> QED BY <1>1, <1>2, <2>1 DEF EndLifecycle, EndTracked, Connected, Open
  <1> HIDE DEF e, o, new
  <1>7. Lifecycle'
    <2> SUFFICES ASSUME NEW d \in End PROVE EndLifecycle(d)'
      BY DEF Lifecycle
    <2>1. EndLifecycle(d)
      BY DEF IndInv, Lifecycle
    <2>2. CASE d = o
      BY <1>1, <1>3, <1>5, <1>6, <2>1, <2>2 DEF EndLifecycle, Open
    <2>3. CASE d # o
      BY <1>3, <2>1, <2>3 DEF EndLifecycle, Open
    <2> QED BY <2>2, <2>3
  <1>8. KeysArePublished'
    <2> SUFFICES ASSUME NEW d \in End
                 PROVE  \A i \in DOMAIN inbox'[d] : inbox'[d][i].key <= signKey'[d.peer]
      BY DEF KeysArePublished
    <2>1. CASE d = o
      BY <1>3, <1>5, <2>1
    <2>2. CASE d # o
      BY <1>3, <2>2 DEF IndInv, KeysArePublished
    <2> QED BY <2>1, <2>2
  <1>9. GreetingFirst'
    <2> SUFFICES ASSUME NEW d \in End, phase'[d] \in {"backlog", "handshake"},
                        inbox'[d] # <<>>
                 PROVE  Head(inbox'[d]).type = "handshake"
      BY DEF GreetingFirst
    <2>1. CASE d = o
      BY <1>3, <1>5, <1>6, <2>1 DEF IndInv, GreetingFirst
    <2>2. CASE d # o
      BY <1>3, <2>2 DEF IndInv, GreetingFirst
    <2> QED BY <2>1, <2>2
  <1>10. WellPlaced' /\ StoppedHoldsNothing' /\ EveryEndTracked'
    BY <1>3 DEF IndInv, WellPlaced, StoppedHoldsNothing, EveryEndTracked, EndTracked,
                IsCurrent, Open
  <1>11. NotifiedIsAuthenticated' /\ NothingPassesUnverified'
    BY <1>3 DEF IndInv, NotifiedIsAuthenticated, PeerNotified, Unproven, NothingPassesUnverified, Unproven
  <1> QED BY <1>0, <1>7, <1>8, <1>9, <1>10, <1>11 DEF IndInv

LEMMA StopInv ==
    ASSUME IndInv, NEW n \in Node, Stop(n)
    PROVE  IndInv'
  <1> USE NoEndAssumption
  <1>0. TypeOK'
    BY TypeStep DEF IndInv, Next, NodeStep
  <1>1. /\ \A d \in End : phase'[d] = IF d.own = n THEN "closed" ELSE phase[d]
        /\ \A d \in End : d.own = n => enc'[d] = FALSE
        /\ \A d \in End : d.own # n => enc'[d] = enc[d]
        /\ \A d \in End : inbox'[d] = IF d.own = n THEN <<>> ELSE inbox[d]
    BY DEF Stop
  <1>2. /\ alive'[n] = FALSE /\ up'[n] = {} /\ unknown'[n] = {}
        /\ \A m \in Node : conn'[n][m] = NoConn /\ peerKey'[n][m] = NoKey
        /\ \A k \in Node : k # n =>
              /\ alive'[k] = alive[k] /\ up'[k] = up[k] /\ unknown'[k] = unknown[k]
              /\ conn'[k] = conn[k] /\ peerKey'[k] = peerKey[k]
        /\ disk' = disk /\ signKey' = signKey
    BY DEF Stop, IndInv, TypeOK
  <1>3. Lifecycle'
    <2> SUFFICES ASSUME NEW d \in End PROVE EndLifecycle(d)'
      BY DEF Lifecycle
    <2>1. EndLifecycle(d) /\ Other(d) \in End
      BY EndFacts DEF IndInv, Lifecycle
    <2>2. CASE d.own = n
      BY <1>1, <2>2 DEF EndLifecycle
    <2>3. CASE d.own # n
      BY <1>1, <2>1, <2>3 DEF EndLifecycle, Open
    <2> QED BY <2>2, <2>3
  <1>4. WellPlaced'
    BY <1>2 DEF IndInv, WellPlaced
  <1>5. StoppedHoldsNothing'
    BY <1>1, <1>2 DEF IndInv, StoppedHoldsNothing, Open
  <1>6. KeysArePublished'
    <2> SUFFICES ASSUME NEW d \in End, NEW i \in DOMAIN inbox'[d]
                 PROVE  inbox'[d][i].key <= signKey'[d.peer]
      BY DEF KeysArePublished
    <2>1. CASE d.own = n
      BY <1>1, <2>1
    <2>2. CASE d.own # n
      BY <1>1, <1>2, <2>2 DEF IndInv, KeysArePublished
    <2> QED BY <2>1, <2>2
  <1>7. EveryEndTracked'
    <2> SUFFICES ASSUME NEW d \in End PROVE EndTracked(d)'
      BY DEF EveryEndTracked
    <2>1. d.own \in Node /\ d.peer \in Node /\ EndTracked(d)
      BY EndFacts DEF IndInv, EveryEndTracked
    <2>2. CASE d.own = n
      BY <1>1, <1>2, <2>1, <2>2 DEF EndTracked, IsCurrent, Open
    <2>3. CASE d.own # n
      BY <1>1, <1>2, <2>1, <2>3 DEF EndTracked, IsCurrent, Open
    <2> QED BY <2>2, <2>3
  <1>8. GreetingFirst'
    BY <1>1 DEF IndInv, GreetingFirst
  <1>9. NotifiedIsAuthenticated'
    <2> SUFFICES ASSUME NEW a \in Node, NEW b \in Node PROVE PeerNotified(a, b)'
      BY DEF NotifiedIsAuthenticated
    <2>1. PeerNotified(a, b)
      BY DEF IndInv, NotifiedIsAuthenticated
    <2>2. CASE a = n
      BY <1>2, <2>2 DEF PeerNotified, Unproven
    <2>3. CASE a # n
      <3>1. conn[a][b] \in End => conn[a][b].own # n
        BY <2>3 DEF IndInv, WellPlaced
      <3> QED BY <1>1, <1>2, <2>1, <2>3, <3>1 DEF PeerNotified, Unproven
    <2> QED BY <2>2, <2>3
  <1>10. NothingPassesUnverified'
    BY <1>1, <1>2, EndFacts DEF IndInv, NothingPassesUnverified, Unproven
  <1> QED BY <1>0, <1>3, <1>4, <1>5, <1>6, <1>7, <1>8, <1>9, <1>10 DEF IndInv

LEMMA StartInv ==
    ASSUME IndInv, NEW n \in Node, Start(n)
    PROVE  IndInv'
  <1> USE NoEndAssumption
  <1>0. TypeOK'
    BY TypeStep DEF IndInv, Next, NodeStep
  <1>1. /\ up[n] = {} /\ \A d \in End : d.own = n => phase[d] = "closed"
        /\ \A d \in End : d.own = n => ~IsCurrent(d)
    BY EndFacts DEF Start, IndInv, StoppedHoldsNothing, Open, IsCurrent
  <1>2. /\ alive'[n] = TRUE
        /\ \A m \in Node : conn'[n][m] \in {NoConn, Idle}
        /\ \A k \in Node : k # n =>
              alive'[k] = alive[k] /\ conn'[k] = conn[k] /\ signKey'[k] = signKey[k]
        /\ UNCHANGED <<disk, unknown, peerKey, up, phase, enc, inbox>>
    BY DEF Start, NewConnections, IndInv, TypeOK, wire
  <1>3. \A k \in Node : signKey[k] \in Nat /\ signKey'[k] \in Nat /\ signKey[k] <= signKey'[k]
    <2>1. PICK k \in {signKey[n], signKey[n] + 1} \cap Generation :
             signKey' = [signKey EXCEPT ![n] = k]
      BY DEF Start
    <2>2. signKey[n] \in Nat /\ k \in Nat /\ signKey[n] <= k
      BY <2>1, MaxKeyAssumption DEF IndInv, TypeOK, Generation
    <2> QED BY <2>1, <2>2, MaxKeyAssumption DEF IndInv, TypeOK, Generation
  <1>4. /\ Lifecycle' /\ GreetingFirst'
        /\ \A a, b \in Node : Unproven(a, b) => Unproven(a, b)'
    <2>1. Lifecycle' /\ GreetingFirst'
      BY <1>2 DEF IndInv, Lifecycle, EndLifecycle, GreetingFirst, Open
    <2>2. ASSUME NEW b \in Node, NEW k \in 1 .. signKey[b] PROVE k \in 1 .. signKey'[b]
      BY <1>3
    <2> QED BY <1>2, <2>1, <2>2 DEF Unproven
  <1>10. NothingPassesUnverified'
    BY <1>2, <1>4, EndFacts DEF IndInv, NothingPassesUnverified
  <1>5. WellPlaced'
    BY <1>2 DEF IndInv, WellPlaced
  <1>6. StoppedHoldsNothing'
    BY <1>2 DEF IndInv, StoppedHoldsNothing, Open
  <1>7. KeysArePublished'
    <2> SUFFICES ASSUME NEW d \in End, NEW i \in DOMAIN inbox[d]
                 PROVE  inbox[d][i].key <= signKey'[d.peer]
      BY <1>2 DEF KeysArePublished
    <2>1. inbox[d][i].key \in Nat /\ inbox[d][i].key <= signKey[d.peer]
      <3>1. inbox[d] \in Seq(Message)
        BY DEF IndInv, TypeOK
      <3>2. inbox[d][i] \in Message
        BY <3>1
      <3>3. inbox[d][i].key \in Nat
        BY <3>2, MaxKeyAssumption DEF Message, Generation
      <3> QED BY <3>3 DEF IndInv, KeysArePublished
    <2>2. d.peer \in Node
      BY EndFacts
    <2> QED BY <1>3, <2>1, <2>2
  <1>8. EveryEndTracked'
    <2> SUFFICES ASSUME NEW d \in End PROVE EndTracked(d)'
      BY DEF EveryEndTracked
    <2>1. d.own \in Node /\ d.peer \in Node /\ EndTracked(d)
      BY EndFacts DEF IndInv, EveryEndTracked
    <2>2. IsCurrent(d)' <=> IsCurrent(d)
      BY <1>1, <1>2, <2>1 DEF IsCurrent
    <2> QED BY <1>2, <2>1, <2>2 DEF EndTracked, Open
  <1>9. NotifiedIsAuthenticated'
    <2> SUFFICES ASSUME NEW a \in Node, NEW b \in Node PROVE PeerNotified(a, b)'
      BY DEF NotifiedIsAuthenticated
    <2>1. PeerNotified(a, b)
      BY DEF IndInv, NotifiedIsAuthenticated
    <2> QED BY <1>1, <1>2, <1>4, <2>1 DEF PeerNotified
  <1> QED BY <1>0, <1>4, <1>5, <1>6, <1>7, <1>8, <1>9, <1>10 DEF IndInv

LEMMA IndStep == IndInv /\ [Next]_vars => IndInv'
  <1> SUFFICES ASSUME IndInv, [Next]_vars PROVE IndInv'
    OBVIOUS
  <1>1. ASSUME NEW n \in Node, NodeStep(n) PROVE IndInv'
    BY <1>1, StopInv, StartInv, ConnectInv, SendInv DEF NodeStep
  <1>2. ASSUME NEW e \in End, Refused(e) \/ PeerClosed(e) \/ Timeout(e) PROVE IndInv'
    <2>1. Open(e) /\ phase[e] # "backlog" /\ Disconnected(e)
      BY <1>2 DEF Refused, PeerClosed, Timeout, Connected, Open
    <2> QED BY <2>1, DisconnectedInv
  <1>3. ASSUME NEW e \in End, Undecodable(e) \/ RejectHandshake(e) PROVE IndInv'
    <2>1. Open(e) /\ phase[e] # "backlog" /\ Disconnected(e)
      BY <1>3 DEF Undecodable, RejectHandshake, Readable, Connected, Open
    <2> QED BY <2>1, DisconnectedInv
  <1>4. ASSUME NEW e \in End,
               \/ Established(e) \/ Accept(e) \/ AcceptHandshake(e) \/ AnswerFails(e)
               \/ HandshakeResponse(e) \/ ReceiveVerified(e)
        PROVE  IndInv'
    BY <1>4, EstablishedInv, AcceptInv, AcceptHandshakeInv, AnswerFailsInv,
       HandshakeResponseInv, ReceiveVerifiedInv
  <1>5. ASSUME NEW e \in End, EndStep(e) PROVE IndInv'
    BY <1>2, <1>3, <1>4, <1>5 DEF EndStep, Receive
  <1>6. ASSUME UNCHANGED vars PROVE IndInv'
    <2>1. TypeOK'
      BY <1>6, TypeStep DEF IndInv
    <2>2. UNCHANGED <<disk, alive, signKey, conn, unknown, peerKey, up, phase, enc, inbox>>
      BY <1>6 DEF vars, local, wire
    <2>3. /\ Lifecycle' /\ WellPlaced' /\ StoppedHoldsNothing' /\ KeysArePublished'
          /\ EveryEndTracked' /\ GreetingFirst'
      BY <2>2 DEF IndInv, Lifecycle, EndLifecycle, WellPlaced, StoppedHoldsNothing,
                  KeysArePublished, EveryEndTracked, EndTracked, GreetingFirst,
                  IsCurrent, Open
    <2>4. NotifiedIsAuthenticated' /\ NothingPassesUnverified'
      BY <2>2 DEF IndInv, NotifiedIsAuthenticated, PeerNotified, Unproven, NothingPassesUnverified, Unproven
    <2> QED BY <2>1, <2>3, <2>4 DEF IndInv
  <1> QED BY <1>1, <1>5, <1>6 DEF Next

LEMMA IndInit == Init => IndInv
  <1> SUFFICES ASSUME Init PROVE IndInv
    OBVIOUS
  <1> USE NoEndAssumption DEF Init
  <1>1. TypeOK
    BY KeyFacts, DeploymentsAssumption DEF TypeOK, NewConnections, Phase
  <1>2. \A n, m \in Node : conn[n][m] \in {NoConn, Idle}
    BY DEF NewConnections
  <1>3. Lifecycle /\ GreetingFirst /\ KeysArePublished /\ NothingPassesUnverified
    BY DEF Lifecycle, EndLifecycle, GreetingFirst, KeysArePublished,
           NothingPassesUnverified, Open
  <1>4. WellPlaced /\ StoppedHoldsNothing /\ NotifiedIsAuthenticated
    BY <1>2 DEF WellPlaced, StoppedHoldsNothing, NotifiedIsAuthenticated, PeerNotified, Unproven
  <1>5. EveryEndTracked
    BY <1>2, EndFacts DEF EveryEndTracked, EndTracked, IsCurrent, Open
  <1> QED BY <1>1, <1>3, <1>4, <1>5 DEF IndInv

LEMMA Inductive == Spec => []IndInv
  BY IndInit, IndStep, PTL DEF Spec

(* Every open socket can be found again through _connections or              *)
(* _unknownConnections, and only finished ones are in the former.            *)
THEOREM Tracked == Spec => []EveryEndTracked
  <1>1. IndInv => EveryEndTracked
    BY DEF IndInv
  <1> QED BY <1>1, Inductive, PTL

(* What SyncObj was told of a peer is backed by its handshake.               *)
THEOREM Authentic == Spec => []NotifiedIsAuthenticated
  <1>1. IndInv => NotifiedIsAuthenticated
    BY DEF IndInv
  <1> QED BY <1>1, Inductive, PTL

(* No finished connection lacks the peer's key, so _unwrap_and_verify never  *)
(* passes a message on unverified.                                           *)
THEOREM AlwaysVerified == Spec => []NothingPassesUnverified
  <1>1. IndInv => NothingPassesUnverified
    BY DEF IndInv
  <1> QED BY <1>1, Inductive, PTL

(* An end waiting for a handshake finds the handshake in front.              *)
THEOREM HandshakeLeads == Spec => []GreetingFirst
  <1>1. IndInv => GreetingFirst
    BY DEF IndInv
  <1> QED BY <1>1, Inductive, PTL

(* How the directory of authenticated peers is affected: by a disconnection, *)
LEMMA DisconnectedWithdraws ==
    ASSUME IndInv, NEW e \in End, Disconnected(e)
    PROVE  [Directory!Next]_(Directory!vars)
  <1>1. e.own \in Node /\ e.peer \in Node
    BY EndFacts
  <1>2. UNCHANGED <<disk, alive, signKey, peerKey>>
    BY DEF Disconnected
  <1>3. CASE IsCurrent(e) /\ e.peer \in up[e.own]
    <2>1. up' = [up EXCEPT ![e.own] = @ \ {e.peer}]
      BY <1>3 DEF Disconnected
    <2>2. alive[e.own]
      BY <1>1, <1>3 DEF IndInv, StoppedHoldsNothing
    <2>3. Directory!Withdraw(e.own, e.peer)
      BY <1>2, <1>3, <2>1, <2>2 DEF Directory!Withdraw
    <2> QED BY <1>1, <2>3 DEF Directory!Next
  <1>4. CASE ~(IsCurrent(e) /\ e.peer \in up[e.own])
    <2>1. up' = [up EXCEPT ![e.own] = IF IsCurrent(e) THEN @ \ {e.peer} ELSE @]
      BY DEF Disconnected
    <2>2. up \in [Node -> SUBSET Node] /\ up[e.own] \ {e.peer} \subseteq up[e.own]
      BY <1>1 DEF IndInv, TypeOK
    <2>3. (IF IsCurrent(e) THEN up[e.own] \ {e.peer} ELSE up[e.own]) = up[e.own]
      BY <1>4
    <2>4. up' = up
      BY <1>1, <2>1, <2>2, <2>3
    <2> QED BY <1>2, <2>4 DEF Directory!vars
  <1> QED BY <1>3, <1>4

(* and by a handshake that is accepted.                                      *)
LEMMA AuthenticatedReports ==
    ASSUME IndInv, NEW e \in End, phase[e] = "handshake", inbox[e] # <<>>,
           ~Rejected(e, Head(inbox[e])),
           Authenticated(e, Head(inbox[e])), UNCHANGED <<disk, alive, signKey>>
    PROVE  Directory!Next
  <1> DEFINE k == Head(inbox[e]).key
  <1>1. e.own \in Node /\ e.peer \in Node /\ e.own # e.peer
    BY EndFacts DEF End
  <1>2. Head(inbox[e]) \in Message /\ Head(inbox[e]).type = "handshake" /\ k <= signKey[e.peer]
    BY HandshakeHead
  <1>3. k \in Nat \ {0} /\ signKey[e.peer] \in Nat
    BY <1>1, <1>2, MaxKeyAssumption DEF IndInv, TypeOK, Message, Generation
  <1>4. alive[e.own]
    BY <1>1 DEF IndInv, StoppedHoldsNothing, Open
  <1>5. up' = [up EXCEPT ![e.own] = @ \cup {e.peer}]
    BY DEF Authenticated
  <1>6. CASE SentFrom(e, Head(inbox[e])) = "valid"
    <2>1. k \in 1 .. signKey[e.peer]
      BY <1>2, <1>3
    <2>2. peerKey' = [peerKey EXCEPT ![e.own][e.peer] = k]
      BY <1>2, <1>6 DEF Authenticated
    <2>3. Directory!Report(e.own, e.peer)
      BY <1>1, <1>4, <1>5, <1>6, <2>1, <2>2 DEF Directory!Report, SentFrom
    <2> QED BY <1>1, <2>3 DEF Directory!Next
  <1>7. CASE SentFrom(e, Head(inbox[e])) # "valid"
    <2>1. peerKey' = peerKey
      BY <1>1, <1>2, <1>7 DEF Authenticated, IndInv, TypeOK
    <2>2. PICK g \in 1 .. signKey[e.peer] :
             \/ disk[e.peer][g] = "blank"
             \/ disk[e.peer][g] = "unsigned" /\ e.own > e.peer
      BY <1>7, HandshakeHead DEF Unproven, ShouldConnect
    <2>3. Directory!Report(e.own, e.peer)
      BY <1>1, <1>4, <1>5, <2>1, <2>2 DEF Directory!Report
    <2> QED BY <1>1, <2>3 DEF Directory!Next
  <1> QED BY <1>6, <1>7

LEMMA DirectoryInit == Init => Directory!Init
  BY DEF Init, Directory!Init, NoKey

LEMMA DirectoryStep == IndInv /\ [Next]_vars => [Directory!Next]_(Directory!vars)
  <1> SUFFICES ASSUME IndInv, [Next]_vars PROVE [Directory!Next]_(Directory!vars)
    OBVIOUS
  <1>1. ASSUME NEW n \in Node, Stop(n) PROVE Directory!Next
    <2>1. Directory!Stop(n)
      BY <1>1 DEF Stop, Directory!Stop, NoKey
    <2> QED BY <2>1 DEF Directory!Next
  <1>2. ASSUME NEW n \in Node, Start(n) PROVE Directory!Next
    <2>1. Directory!Start(n)
      BY <1>2 DEF Start, Directory!Start, Generation
    <2> QED BY <2>1 DEF Directory!Next
  <1>3. ASSUME NEW n \in Node, NEW m \in Node, Connect(n, m) \/ Send(n, m)
        PROVE  UNCHANGED Directory!vars
    BY <1>3 DEF Connect, Send, local, Directory!vars
  <1>4. ASSUME NEW e \in End,
               \/ Refused(e) \/ PeerClosed(e) \/ Timeout(e)
               \/ Undecodable(e) \/ RejectHandshake(e)
        PROVE  [Directory!Next]_(Directory!vars)
    <2>1. Disconnected(e)
      BY <1>4 DEF Refused, PeerClosed, Timeout, Undecodable, RejectHandshake
    <2> QED BY <2>1, DisconnectedWithdraws
  <1>5. ASSUME NEW e \in End, Established(e) \/ Accept(e) \/ ReceiveVerified(e)
        PROVE  UNCHANGED Directory!vars
    BY <1>5 DEF Established, Accept, ReceiveVerified, local, Directory!vars
  <1>6. ASSUME NEW e \in End, AcceptHandshake(e) \/ AnswerFails(e) \/ HandshakeResponse(e)
        PROVE  Directory!Next
    <2>1. /\ phase[e] = "handshake" /\ inbox[e] # <<>>
          /\ Authenticated(e, Head(inbox[e])) /\ UNCHANGED <<disk, alive, signKey>>
      BY <1>6 DEF AcceptHandshake, AnswerFails, HandshakeResponse, Readable
    <2>2. Head(inbox[e]).type = "handshake"
      BY <2>1, HandshakeHead
    <2>3. ~Rejected(e, Head(inbox[e]))
      BY <1>6 DEF AcceptHandshake, AnswerFails, HandshakeResponse
    <2> QED BY <2>1, <2>3, AuthenticatedReports
  <1>7. ASSUME UNCHANGED vars PROVE UNCHANGED Directory!vars
    BY <1>7 DEF vars, local, Directory!vars
  <1> QED BY <1>1, <1>2, <1>3, <1>4, <1>5, <1>6, <1>7
          DEF Next, NodeStep, EndStep, Receive

(* The transport implements the directory of authenticated peers.            *)
THEOREM Implements == Spec => ImplementsDirectory
  BY DirectoryInit, DirectoryStep, Inductive, PTL
     DEF Spec, ImplementsDirectory, Directory!Spec
-----------------------------------------------------------------------------
(* That sealed messages are readable, that two nodes on one connection have  *)
(* each other's keys, and that a peer is withdrawn for a reason only, on top *)
(* of the inductive invariant.                                               *)

(* What SealedNeedsCrypto and SealedIsReadable say of one buffer and the     *)
(* encryptor of the end that reads it.                                       *)
Readables(box, encryptor) ==
    \A i \in 1 .. Len(box) :
        box[i].sealed =>
            /\ Crypto /\ box[i].type = "raft"
            /\ encryptor \/ \E j \in 1 .. i - 1 : box[j].type = "handshake"

LEMMA BoxByBox ==
    (SealedNeedsCrypto /\ SealedIsReadable) <=> \A e \in End : Readables(inbox[e], enc[e])
  BY DEF SealedNeedsCrypto, SealedIsReadable, Readables

LEMMA EmptyBox ==
    ASSUME NEW encryptor
    PROVE  Readables(<<>>, encryptor)
  BY DEF Readables

(* The first message is read, and the encryptor is or becomes set.           *)
LEMMA TailBox ==
    ASSUME NEW box \in Seq(Message), box # <<>>,
           NEW encryptor, Readables(box, encryptor),
           NEW after, Crypto => after
    PROVE  Readables(Tail(box), after)
  <1> SUFFICES ASSUME NEW i \in 1 .. Len(Tail(box)), Tail(box)[i].sealed
               PROVE  Crypto /\ Tail(box)[i].type = "raft" /\ after
    BY DEF Readables
  <1>1. i + 1 \in 1 .. Len(box) /\ Tail(box)[i] = box[i + 1]
    OBVIOUS
  <1> QED BY <1>1 DEF Readables

(* A message is added: a handshake in the clear, or one behind a handshake.  *)
LEMMA AppendBox ==
    ASSUME NEW box \in Seq(Message), NEW msg \in Message,
           NEW encryptor, Readables(box, encryptor),
           msg.sealed => /\ Crypto /\ msg.type = "raft"
                         /\ encryptor \/ (box # <<>> /\ Head(box).type = "handshake")
    PROVE  Readables(Append(box, msg), encryptor)
  <1> DEFINE new == Append(box, msg)
  <1> SUFFICES ASSUME NEW i \in 1 .. Len(new), new[i].sealed
               PROVE  /\ Crypto /\ new[i].type = "raft"
                      /\ encryptor \/ \E j \in 1 .. i - 1 : new[j].type = "handshake"
    BY DEF Readables
  <1>1. Len(box) \in Nat /\ Len(new) = Len(box) + 1
        /\ \A j \in 1 .. Len(box) : new[j] = box[j]
    OBVIOUS
  <1>2. CASE i = Len(box) + 1
    <2>1. new[i] = msg
      BY <1>2
    <2>2. box # <<>> => 1 \in 1 .. i - 1 /\ new[1] = Head(box)
      BY <1>1, <1>2
    <2> QED BY <2>1, <2>2
  <1>3. CASE i # Len(box) + 1
    <2>1. i \in 1 .. Len(box) /\ new[i] = box[i]
      BY <1>1, <1>3
    <2>2. ASSUME NEW j \in 1 .. i - 1 PROVE new[j] = box[j]
      BY <1>1, <2>1
    <2> QED BY <2>1, <2>2 DEF Readables
  <1> QED BY <1>2, <1>3
-----------------------------------------------------------------------------
LEMMA SealInit == Init => SealInv
  BY DEF Init, SealInv, SealedNeedsCrypto, SealedIsReadable, HeardFromVerified

(* What all lemmas below start from. *)
LEMMA SealFacts ==
    ASSUME IndInv, SealInv, NEW e \in End
    PROVE  /\ inbox[e] \in Seq(Message) /\ Readables(inbox[e], enc[e])
           /\ HeardFromVerified(e) /\ EndLifecycle(e) /\ EndTracked(e)
  <1>1. inbox[e] \in Seq(Message) /\ EndLifecycle(e) /\ EndTracked(e)
    BY DEF IndInv, TypeOK, Lifecycle, EveryEndTracked
  <1>2. Readables(inbox[e], enc[e]) /\ HeardFromVerified(e)
    BY BoxByBox DEF SealInv
  <1> QED BY <1>1, <1>2

(* SealInv' from what it says of each end.                                   *)
LEMMA SealedAgain ==
    ASSUME \A d \in End : Readables(inbox'[d], enc'[d]) /\ HeardFromVerified(d)'
    PROVE  SealInv'
  <1>1. SealedNeedsCrypto' /\ SealedIsReadable'
    BY DEF SealedNeedsCrypto, SealedIsReadable, Readables
  <1> QED BY <1>1 DEF SealInv

(* A connection goes down, with or without another attempt.                  *)
LEMMA DisconnectedSeals ==
    ASSUME IndInv, SealInv, NEW e \in End, Open(e), Disconnected(e)
    PROVE  SealInv'
  <1>1. GoesDown(e) /\ (HangUp(e) \/ \E r \in End : Redial(e, r))
    BY DisconnectedEffect DEF IndInv
  <1>2. ASSUME NEW d \in End PROVE Readables(inbox'[d], enc'[d])
    BY <1>1, SealFacts, EmptyBox DEF GoesDown
  <1>3. ASSUME NEW d \in End PROVE HeardFromVerified(d)'
    <2>1. Other(d) \in End /\ Other(Other(d)) = d /\ HeardFromVerified(d)
      BY EndFacts, SealFacts
    <2>2. CASE d = e
      BY <1>1, <2>2 DEF GoesDown, HeardFromVerified
    <2>3. ASSUME d # e, HangUp(e) PROVE HeardFromVerified(d)'
      BY <1>1, <2>1, <2>3 DEF GoesDown, HangUp, HeardFromVerified
    <2>4. ASSUME d # e, NEW r \in End, Redial(e, r) PROVE HeardFromVerified(d)'
      <3>1. /\ phase[r] = "closed" /\ inbox[r] = <<>> /\ Outgoing(r) /\ r # e
            /\ phase'[r] = "connecting"
            /\ \A c \in End : c # e /\ c # r => phase'[c] = phase[c]
        BY <2>4, SealFacts, EndFacts, FreshFacts DEF Redial, EndLifecycle, Open, Outgoing
      <3>2. CASE d = r
        BY <1>1, <2>4, <3>1, <3>2 DEF GoesDown, HeardFromVerified
      <3>3. CASE d # r /\ Other(d) # r
        BY <1>1, <2>1, <2>4, <3>1, <3>3 DEF GoesDown, HeardFromVerified
      <3>4. CASE Other(d) = r
        BY <2>1, <3>1, <3>4, EndFacts DEF HeardFromVerified
      <3> QED BY <3>2, <3>3, <3>4
    <2> QED BY <1>1, <2>2, <2>3, <2>4
  <1> QED BY <1>2, <1>3, SealedAgain

LEMMA ConnectSeals ==
    ASSUME IndInv, SealInv, NEW n \in Node, NEW m \in Node, Connect(n, m)
    PROVE  SealInv'
  <1>1. PICK r \in Fresh(n, m) : phase' = [phase EXCEPT ![r] = "connecting"]
    BY DEF Connect
  <1>2. r \in End /\ Outgoing(r) /\ inbox[r] = <<>>
    BY FreshFacts, SealFacts DEF Connect, EndLifecycle
  <1>3. /\ phase'[r] = "connecting" /\ \A d \in End : d # r => phase'[d] = phase[d]
        /\ inbox' = inbox /\ enc' = enc
    BY <1>1, <1>2 DEF Connect, IndInv, TypeOK
  <1>4. ASSUME NEW d \in End PROVE HeardFromVerified(d)'
    <2>1. Other(d) \in End /\ HeardFromVerified(d)
      BY EndFacts, SealFacts
    <2>2. CASE d = r
      BY <1>2, <1>3, <2>2 DEF HeardFromVerified
    <2>3. CASE Other(d) = r
      BY <1>2, <2>3, EndFacts DEF HeardFromVerified
    <2>4. CASE d # r /\ Other(d) # r
      BY <1>3, <2>1, <2>4 DEF HeardFromVerified
    <2> QED BY <2>2, <2>3, <2>4
  <1> QED BY <1>3, <1>4, SealFacts, SealedAgain

(* Whoever has the encryptor and sends, has a peer that has it too, or will  *)
(* find the handshake in front.                                              *)
LEMMA SendSeals ==
    ASSUME IndInv, SealInv, NEW n \in Node, NEW m \in Node, Send(n, m)
    PROVE  SealInv'
  <1> DEFINE e == conn[n][m]
             o == Other(e)
             msg == Outbound(e, "raft")
  <1>1. /\ e \in End /\ IsCurrent(e) /\ Connected(e) /\ Open(o)
    BY DEF Send, IsCurrent, IndInv, WellPlaced
  <1>2. /\ o \in End /\ o # e /\ Other(o) = e /\ (Outgoing(o) <=> ~Outgoing(e))
    BY <1>1, EndFacts
  <1>3. /\ inbox'[o] = Append(inbox[o], msg) /\ \A d \in End : d # o => inbox'[d] = inbox[d]
        /\ phase' = phase /\ enc' = enc
    BY <1>1, <1>2 DEF Send, Delivered, IndInv, TypeOK
  <1>4. /\ EndLifecycle(e) /\ EndLifecycle(o) /\ EndTracked(e)
        /\ HeardFromVerified(e) /\ HeardFromVerified(o)
        /\ inbox[o] \in Seq(Message) /\ Readables(inbox[o], enc[o])
    BY <1>1, <1>2, SealFacts
  <1>5. msg \in Message /\ msg.type = "raft" /\ msg.sealed = enc[e]
    BY <1>1, OutboundType DEF IndInv, Outbound
  <1>6. ~Outgoing(e) => phase[e] = "verified"
    BY <1>1, <1>4 DEF EndTracked
  <1>7. enc[e] => Crypto /\ (enc[o] \/ (inbox[o] # <<>> /\ Head(inbox[o]).type = "handshake"))
    <2> SUFFICES ASSUME enc[e]
                 PROVE  Crypto /\ (enc[o] \/ (inbox[o] # <<>> /\ Head(inbox[o]).type = "handshake"))
      OBVIOUS
    <2>0. phase[e] = "verified" /\ Crypto /\ phase[o] # "closed"
      BY <1>1, <1>4 DEF EndLifecycle, Open
    <2>1. CASE Outgoing(e)
      <3>1. phase[o] = "verified"
        BY <2>0, <2>1, <1>2, <1>4 DEF HeardFromVerified
      <3>2. enc[o]
        BY <1>4, <2>0, <3>1 DEF EndLifecycle
      <3> QED BY <2>0, <3>2
    <2>2. CASE ~Outgoing(e)
      <3>1. phase[o] \in {"handshake", "verified"}
        BY <1>1, <1>2, <1>4, <2>0, <2>2 DEF EndLifecycle, IndInv, TypeOK, Phase, Open
      <3>2. CASE phase[o] = "handshake"
        <4>1. inbox[o] # <<>>
          BY <1>2, <1>4, <2>0, <2>2, <3>2 DEF EndLifecycle
        <4>2. Head(inbox[o]).type = "handshake"
          BY <1>2, <3>2, <4>1 DEF IndInv, GreetingFirst
        <4> QED BY <2>0, <4>1, <4>2
      <3>3. CASE phase[o] = "verified"
        <4>1. enc[o]
          BY <1>4, <2>0, <3>3 DEF EndLifecycle
        <4> QED BY <2>0, <4>1
      <3> QED BY <3>1, <3>2, <3>3
    <2> QED BY <2>1, <2>2
  <1> HIDE DEF e, o, msg
  <1>8. ASSUME NEW d \in End PROVE Readables(inbox'[d], enc'[d])
    <2>1. CASE d = o
      BY <1>3, <1>4, <1>5, <1>7, <2>1, AppendBox
    <2>2. CASE d # o
      BY <1>3, <2>2, SealFacts
    <2> QED BY <2>1, <2>2
  <1>9. ASSUME NEW d \in End PROVE HeardFromVerified(d)'
    <2>1. CASE d = o
      BY <1>2, <1>3, <1>6, <2>1 DEF HeardFromVerified
    <2>2. CASE d # o
      BY <1>3, <2>2, SealFacts DEF HeardFromVerified
    <2> QED BY <2>1, <2>2
  <1> QED BY <1>8, <1>9, SealedAgain

LEMMA StopSeals ==
    ASSUME IndInv, SealInv, NEW n \in Node, Stop(n)
    PROVE  SealInv'
  <1>1. /\ \A d \in End : phase'[d] = IF d.own = n THEN "closed" ELSE phase[d]
        /\ \A d \in End : enc'[d] = IF d.own = n THEN FALSE ELSE enc[d]
        /\ \A d \in End : inbox'[d] = IF d.own = n THEN <<>> ELSE inbox[d]
    BY DEF Stop
  <1>2. ASSUME NEW d \in End PROVE Readables(inbox'[d], enc'[d])
    BY <1>1, SealFacts, EmptyBox
  <1>3. ASSUME NEW d \in End PROVE HeardFromVerified(d)'
    BY <1>1, SealFacts, EndFacts DEF HeardFromVerified
  <1> QED BY <1>2, <1>3, SealedAgain

LEMMA StartSeals ==
    ASSUME SealInv, NEW n \in Node, Start(n)
    PROVE  SealInv'
  BY DEF Start, wire, SealInv, SealedNeedsCrypto, SealedIsReadable, HeardFromVerified

LEMMA EstablishedSeals ==
    ASSUME IndInv, SealInv, NEW e \in End, Established(e)
    PROVE  SealInv'
  <1> DEFINE o == Other(e)
             msg == Outbound(e, "handshake")
  <1>1. o \in End /\ o # e /\ Other(o) = e /\ EndLifecycle(e)
    BY EndFacts, SealFacts
  <1>2. /\ phase[e] = "connecting" /\ Outgoing(e) /\ ~Outgoing(o) /\ inbox[e] = <<>>
        /\ ~enc[e]
    BY <1>1, EndFacts DEF Established, EndLifecycle
  <1>3. /\ phase'[e] = "handshake" /\ \A d \in End : d # e /\ d # o => phase'[d] = phase[d]
        /\ inbox'[o] = <<msg>> /\ \A d \in End : d # o => inbox'[d] = inbox[d]
        /\ enc' = enc
    BY <1>1 DEF Established, IndInv, TypeOK
  <1>4. ~msg.sealed
    BY <1>2 DEF Outbound
  <1> HIDE DEF o, msg
  <1>5. ASSUME NEW d \in End PROVE Readables(inbox'[d], enc'[d])
    <2>1. CASE d = o
      BY <1>3, <1>4, <2>1 DEF Readables
    <2>2. CASE d # o
      BY <1>3, <2>2, SealFacts
    <2> QED BY <2>1, <2>2
  <1>6. ASSUME NEW d \in End PROVE HeardFromVerified(d)'
    <2>1. CASE d = o
      BY <1>2, <2>1 DEF HeardFromVerified
    <2>2. CASE d = e
      BY <1>1, <1>2, <1>3, <2>2 DEF HeardFromVerified
    <2>3. CASE d # o /\ d # e
      <3>1. Other(d) \in End /\ Other(d) # o /\ Other(d) # e
        BY <1>1, <2>3, EndFacts DEF o
      <3> QED BY <1>3, <2>3, <3>1, SealFacts DEF HeardFromVerified
    <2> QED BY <2>1, <2>2, <2>3
  <1> QED BY <1>5, <1>6, SealedAgain

(* The accepting end has been silent so far.                                 *)
LEMMA AcceptSeals ==
    ASSUME IndInv, SealInv, NEW e \in End, Accept(e)
    PROVE  SealInv'
  <1>1. phase[e] = "backlog" /\ ~Outgoing(e) /\ inbox' = inbox /\ enc' = enc
    BY SealFacts DEF Accept, EndLifecycle
  <1>2. phase'[e] = "handshake" /\ \A d \in End : d # e => phase'[d] = phase[d]
    BY DEF Accept, IndInv, TypeOK
  <1>3. ASSUME NEW d \in End PROVE HeardFromVerified(d)'
    <2>1. Other(d) \in End /\ Other(Other(d)) = d /\ HeardFromVerified(d)
      BY EndFacts, SealFacts
    <2>2. CASE d = e
      BY <1>1, <2>2 DEF HeardFromVerified
    <2>3. CASE d # e
      BY <1>1, <1>2, <2>1, <2>3 DEF HeardFromVerified
    <2> QED BY <2>2, <2>3
  <1> QED BY <1>1, <1>3, SealFacts, SealedAgain

(* A handshake is accepted and answered: the encryptor is installed before   *)
(* anything behind the handshake is read, the answer travels in the clear.   *)
LEMMA AcceptHandshakeSeals ==
    ASSUME IndInv, SealInv, NEW e \in End, AcceptHandshake(e)
    PROVE  SealInv'
  <1> DEFINE o == Other(e)
             msg == Outbound(e, "handshake")
  <1>1. /\ o \in End /\ o # e /\ Other(o) = e
        /\ phase[e] = "handshake" /\ inbox[e] # <<>> /\ ~Outgoing(e)
    BY EndFacts DEF AcceptHandshake, Readable
  <1>2. /\ phase'[e] = "verified" /\ \A d \in End : d # e => phase'[d] = phase[d]
        /\ enc'[e] = Crypto /\ \A d \in End : d # e => enc'[d] = enc[d]
        /\ inbox'[e] = Tail(inbox[e])
        /\ inbox'[o] = IF Open(o) THEN Append(inbox[o], msg) ELSE inbox[o]
        /\ \A d \in End : d # e /\ d # o => inbox'[d] = inbox[d]
    BY <1>1 DEF AcceptHandshake, Delivered, IndInv, TypeOK
  <1>3. msg \in Message /\ ~msg.sealed
    <2>1. ~enc[e]
      BY <1>1, SealFacts DEF EndLifecycle
    <2> QED BY <2>1, OutboundType DEF Outbound, IndInv
  <1>4. /\ inbox[e] \in Seq(Message) /\ Readables(inbox[e], enc[e])
        /\ inbox[o] \in Seq(Message) /\ Readables(inbox[o], enc[o])
    BY <1>1, SealFacts
  <1> HIDE DEF o, msg
  <1>5. ASSUME NEW d \in End PROVE Readables(inbox'[d], enc'[d])
    <2>1. CASE d = e
      <3>1. Readables(Tail(inbox[e]), Crypto)
        BY <1>1, <1>4, TailBox
      <3> QED BY <1>2, <2>1, <3>1
    <2>2. CASE d = o
      <3>1. Readables(Append(inbox[o], msg), enc[o])
        BY <1>3, <1>4, AppendBox
      <3> QED BY <1>1, <1>2, <1>4, <2>2, <3>1
    <2>3. CASE d # e /\ d # o
      BY <1>2, <2>3, SealFacts
    <2> QED BY <2>1, <2>2, <2>3
  <1>6. ASSUME NEW d \in End PROVE HeardFromVerified(d)'
    <2>1. Other(d) \in End /\ Other(Other(d)) = d /\ HeardFromVerified(d)
      BY EndFacts, SealFacts
    <2>2. CASE d = e
      BY <1>1, <2>2 DEF HeardFromVerified
    <2>3. CASE d = o
      BY <1>1, <1>2, <2>3 DEF HeardFromVerified
    <2>4. CASE d # e /\ d # o
      <3>1. Other(d) # e
        BY <2>1, <2>4 DEF o
      <3> QED BY <1>2, <2>1, <2>4, <3>1 DEF HeardFromVerified
    <2> QED BY <2>2, <2>3, <2>4
  <1> QED BY <1>5, <1>6, SealedAgain

LEMMA AnswerFailsSeals ==
    ASSUME IndInv, SealInv, NEW e \in End, AnswerFails(e)
    PROVE  SealInv'
  <1>1. ~Outgoing(e)
    BY DEF AnswerFails
  <1>2. /\ phase'[e] = "closed" /\ \A d \in End : d # e => phase'[d] = phase[d]
        /\ inbox'[e] = <<>> /\ \A d \in End : d # e => inbox'[d] = inbox[d]
        /\ enc' = enc
    BY DEF AnswerFails, IndInv, TypeOK
  <1>3. ASSUME NEW d \in End PROVE Readables(inbox'[d], enc'[d])
    BY <1>2, SealFacts, EmptyBox
  <1>4. ASSUME NEW d \in End PROVE HeardFromVerified(d)'
    <2>1. Other(d) \in End /\ HeardFromVerified(d)
      BY EndFacts, SealFacts
    <2>2. CASE d = e
      BY <1>1, <2>2 DEF HeardFromVerified
    <2>3. CASE d # e
      BY <1>2, <2>1, <2>3 DEF HeardFromVerified
    <2> QED BY <2>2, <2>3
  <1> QED BY <1>3, <1>4, SealedAgain

(* Whatever is read first on a dialled connection, the accepting end had     *)
(* verified it by then.                                                      *)
LEMMA HandshakeResponseSeals ==
    ASSUME IndInv, SealInv, NEW e \in End, HandshakeResponse(e)
    PROVE  SealInv'
  <1>1. phase[e] = "handshake" /\ inbox[e] # <<>> /\ Outgoing(e)
    BY DEF HandshakeResponse, Readable
  <1>2. /\ phase'[e] = "verified" /\ \A d \in End : d # e => phase'[d] = phase[d]
        /\ enc'[e] = Crypto /\ \A d \in End : d # e => enc'[d] = enc[d]
        /\ inbox'[e] = Tail(inbox[e]) /\ \A d \in End : d # e => inbox'[d] = inbox[d]
    BY DEF HandshakeResponse, IndInv, TypeOK
  <1>3. ASSUME NEW d \in End PROVE Readables(inbox'[d], enc'[d])
    <2>1. CASE d = e
      <3>1. Readables(Tail(inbox[e]), Crypto)
        BY <1>1, SealFacts, TailBox
      <3> QED BY <1>2, <2>1, <3>1
    <2>2. CASE d # e
      BY <1>2, <2>2, SealFacts
    <2> QED BY <2>1, <2>2
  <1>4. ASSUME NEW d \in End PROVE HeardFromVerified(d)'
    <2>1. Other(d) \in End /\ Other(d) # d /\ HeardFromVerified(d)
      BY EndFacts, SealFacts
    <2>2. CASE d = e
      BY <1>1, <1>2, <2>1, <2>2 DEF HeardFromVerified
    <2>3. CASE d # e
      BY <1>2, <2>1, <2>3 DEF HeardFromVerified
    <2> QED BY <2>2, <2>3
  <1> QED BY <1>3, <1>4, SealedAgain

LEMMA ReceiveVerifiedSeals ==
    ASSUME IndInv, SealInv, NEW e \in End, ReceiveVerified(e)
    PROVE  SealInv'
  <1>1. phase[e] = "verified" /\ inbox[e] # <<>>
    BY DEF ReceiveVerified, Readable
  <1>2. /\ inbox'[e] = Tail(inbox[e]) /\ \A d \in End : d # e => inbox'[d] = inbox[d]
        /\ phase' = phase /\ enc' = enc
    BY DEF ReceiveVerified, IndInv, TypeOK
  <1>3. Crypto => enc[e]
    BY <1>1, SealFacts DEF EndLifecycle
  <1>4. ASSUME NEW d \in End PROVE Readables(inbox'[d], enc'[d])
    <2>1. CASE d = e
      <3>1. Readables(Tail(inbox[e]), enc[e])
        BY <1>1, <1>3, SealFacts, TailBox
      <3> QED BY <1>2, <2>1, <3>1
    <2>2. CASE d # e
      BY <1>2, <2>2, SealFacts
    <2> QED BY <2>1, <2>2
  <1>5. ASSUME NEW d \in End PROVE HeardFromVerified(d)'
    <2>1. CASE d = e
      BY <1>1, <1>2, <2>1, SealFacts DEF HeardFromVerified
    <2>2. CASE d # e
      BY <1>2, <2>2, SealFacts DEF HeardFromVerified
    <2> QED BY <2>1, <2>2
  <1> QED BY <1>4, <1>5, SealedAgain
-----------------------------------------------------------------------------
LEMMA SealStep == IndInv /\ SealInv /\ [Next]_vars => SealInv'
  <1> SUFFICES ASSUME IndInv, SealInv, [Next]_vars PROVE SealInv'
    OBVIOUS
  <1>1. ASSUME NEW n \in Node, NodeStep(n) PROVE SealInv'
    BY <1>1, StopSeals, StartSeals, ConnectSeals, SendSeals DEF NodeStep
  <1>2. ASSUME NEW e \in End,
               \/ Refused(e) \/ PeerClosed(e) \/ Timeout(e)
               \/ Undecodable(e) \/ RejectHandshake(e)
        PROVE  SealInv'
    <2>1. Open(e) /\ Disconnected(e)
      BY <1>2 DEF Refused, PeerClosed, Timeout, Undecodable, RejectHandshake,
                  Readable, Connected, Open
    <2> QED BY <2>1, DisconnectedSeals
  <1>3. ASSUME NEW e \in End,
               \/ Established(e) \/ Accept(e) \/ AcceptHandshake(e) \/ AnswerFails(e)
               \/ HandshakeResponse(e) \/ ReceiveVerified(e)
        PROVE  SealInv'
    BY <1>3, EstablishedSeals, AcceptSeals, AcceptHandshakeSeals, AnswerFailsSeals,
       HandshakeResponseSeals, ReceiveVerifiedSeals
  <1>4. ASSUME NEW e \in End, EndStep(e) PROVE SealInv'
    BY <1>2, <1>3, <1>4 DEF EndStep, Receive
  <1>5. ASSUME UNCHANGED vars PROVE SealInv'
    BY <1>5 DEF vars, wire, SealInv, SealedNeedsCrypto, SealedIsReadable,
                HeardFromVerified
  <1> QED BY <1>1, <1>4, <1>5 DEF Next

(* What a connection's encryptor sealed can be read by the peer: the         *)
(* handshake in front installs its encryptor first, and handshakes travel in *)
(* the clear, whatever reconnections and restarts went before.               *)
THEOREM SealedReadable == Spec => []SealedIsReadable
  <1>1. SealInv => SealedIsReadable
    BY DEF SealInv
  <1> QED BY <1>1, Inductive, SealInit, SealStep, PTL DEF Spec

(* No standoff: the end that waits with an empty buffer has dialled, and the *)
(* handshake it sent is still waiting to be read at the other end.           *)
THEOREM SomeoneMoves == Spec => []NoStandoff
  <1>1. IndInv /\ SealInv => NoStandoff
    <2> SUFFICES ASSUME IndInv, SealInv,
                        NEW e \in End, phase[e] = "handshake", inbox[e] = <<>>
                 PROVE  /\ Outgoing(e)
                        /\ Open(Other(e)) =>
                             /\ phase[Other(e)] \in {"backlog", "handshake"}
                             /\ inbox[Other(e)] # <<>>
                             /\ Head(inbox[Other(e)]).type = "handshake"
                             /\ Decodable(Other(e))
      BY DEF NoStandoff
    <2> DEFINE o == Other(e)
    <2>1. o \in End /\ (Outgoing(o) <=> ~Outgoing(e))
      BY EndFacts
    <2>2. EndLifecycle(e) /\ EndLifecycle(o)
      BY <2>1, SealFacts
    <2>3. Outgoing(e)
      BY <2>2 DEF EndLifecycle
    <2>4. phase[o] \in Phase
      BY <2>1 DEF IndInv, TypeOK
    <2>5. ASSUME Open(o)
          PROVE  phase[o] \in {"backlog", "handshake"} /\ inbox[o] # <<>> /\ ~enc[o]
      BY <2>1, <2>2, <2>3, <2>4, <2>5 DEF EndLifecycle, Open, Phase
    <2>6. ASSUME Open(o)
          PROVE  Head(inbox[o]).type = "handshake" /\ Decodable(o)
      <3>1. Head(inbox[o]).type = "handshake"
        BY <2>1, <2>5, <2>6 DEF IndInv, GreetingFirst
      <3>2. inbox[o] \in Seq(Message) /\ Readables(inbox[o], enc[o])
        BY <2>1, SealFacts
      <3>3. /\ Head(inbox[o]) = inbox[o][1] /\ 1 \in 1 .. Len(inbox[o])
            /\ inbox[o][1] \in Message
        BY <3>2, <2>5, <2>6
      <3>4. inbox[o][1].sealed = FALSE
        <4>1. ~inbox[o][1].sealed
          BY <3>1, <3>2, <3>3 DEF Readables
        <4> QED BY <4>1, <3>3 DEF Message
      <3>5. enc[o] = FALSE
        BY <2>1, <2>5, <2>6 DEF IndInv, TypeOK
      <3> QED BY <3>1, <3>3, <3>4, <3>5 DEF Decodable
    <2> QED BY <2>3, <2>5, <2>6
  <1> QED BY <1>1, Inductive, SealInit, SealStep, PTL DEF Spec
-----------------------------------------------------------------------------
(* What SentWithPresentKey says of one buffer.                               *)
AllWith(box, key) == \A i \in DOMAIN box : box[i].key = key

LEMMA TailWith ==
    ASSUME NEW box \in Seq(Message), box # <<>>, NEW key, AllWith(box, key)
    PROVE  AllWith(Tail(box), key) /\ Head(box).key = key
  <1>1. \A i \in DOMAIN Tail(box) : i + 1 \in DOMAIN box /\ Tail(box)[i] = box[i + 1]
    OBVIOUS
  <1>2. 1 \in DOMAIN box /\ Head(box) = box[1]
    OBVIOUS
  <1> QED BY <1>1, <1>2 DEF AllWith

LEMMA AppendWith ==
    ASSUME NEW box \in Seq(Message), NEW msg \in Message, NEW key,
           AllWith(box, key), msg.key = key
    PROVE  AllWith(Append(box, msg), key)
  <1> SUFFICES ASSUME NEW i \in DOMAIN Append(box, msg)
               PROVE  Append(box, msg)[i].key = key
    BY DEF AllWith
  <1>1. CASE i = Len(box) + 1
    BY <1>1
  <1>2. CASE i # Len(box) + 1
    <2>1. i \in DOMAIN box /\ Append(box, msg)[i] = box[i]
      BY <1>2
    <2> QED BY <2>1 DEF AllWith
  <1> QED BY <1>1, <1>2

LEMMA EmptyWith ==
    ASSUME NEW key
    PROVE  AllWith(<<>>, key)
  BY DEF AllWith

(* What all lemmas below start from. *)
LEMMA LinkFacts ==
    ASSUME IndInv, LinkInv, NEW e \in End
    PROVE  /\ inbox[e] \in Seq(Message) /\ EndLifecycle(e) /\ EndTracked(e)
           /\ Open(Other(e)) => AllWith(inbox[e], signKey[e.peer])
           /\ KnownAsDeployed(e)
  BY DEF IndInv, TypeOK, Lifecycle, EveryEndTracked, LinkInv, SentWithPresentKey,
         AllWith

(* LinkInv' from what it says of each end.                                   *)
LEMMA LinkedAgain ==
    ASSUME StoredWasPublished',
           \A d \in End : /\ Open(Other(d))' => AllWith(inbox'[d], signKey'[d.peer])
                          /\ KnownAsDeployed(d)'
    PROVE  LinkInv'
  BY DEF LinkInv, SentWithPresentKey, AllWith

(* An end that only a message arrives at, or leaves, keeps its facts if      *)
(* nothing else changes for it.                                              *)
LEMMA KeyKept ==
    ASSUME NEW d \in End, KnownAsDeployed(d), IsCurrent(d)' => IsCurrent(d),
           phase'[d] = "verified" => phase[d] = "verified",
           phase'[d] = "verified" /\ Open(Other(d))' => Open(Other(d)),
           peerKey'[d.own][d.peer] = peerKey[d.own][d.peer],
           signKey'[d.peer] = signKey[d.peer], disk' = disk
    PROVE  KnownAsDeployed(d)'
  BY DEF KnownAsDeployed, Admits, GradeOf

LEMMA LinkInit == Init => LinkInv
  <1> SUFFICES ASSUME Init PROVE LinkInv
    OBVIOUS
  <1>1. \A e \in End : inbox[e] = <<>> /\ phase[e] = "closed"
    BY DEF Init
  <1>2. StoredWasPublished
    BY MaxKeyAssumption DEF Init, StoredWasPublished, NoKey
  <1> QED BY <1>1, <1>2 DEF LinkInv, SentWithPresentKey, KnownAsDeployed

LEMMA DisconnectedLinks ==
    ASSUME IndInv, LinkInv, NEW e \in End, Open(e), Disconnected(e)
    PROVE  LinkInv'
  <1> USE NoEndAssumption
  <1>1. GoesDown(e) /\ (HangUp(e) \/ \E r \in End : Redial(e, r))
    BY DisconnectedEffect DEF IndInv
  <1>2. \A d \in End : d # e =>
           \/ phase'[d] = phase[d]
           \/ /\ phase'[d] = "connecting" /\ phase[d] = "closed"
              /\ phase[Other(d)] = "closed" /\ d.own = e.own /\ d.peer = e.peer
              /\ conn'[e.own][e.peer] = d
    BY <1>1, FreshFacts, EndFacts DEF HangUp, Redial
  <1>3. StoredWasPublished'
    BY <1>1 DEF GoesDown, LinkInv, StoredWasPublished
  <1>4. ASSUME NEW d \in End, Open(Other(d))'
        PROVE  AllWith(inbox'[d], signKey'[d.peer])
    <2>1. Other(d) \in End /\ Other(d) # e /\ Other(Other(d)) = d
      BY <1>1, <1>4, EndFacts DEF GoesDown, Open
    <2>2. CASE d = e
      BY <1>1, <2>2, EmptyWith DEF GoesDown
    <2>3. CASE d # e /\ phase'[Other(d)] = phase[Other(d)]
      BY <1>1, <1>4, <2>3, LinkFacts DEF GoesDown, Open
    <2>4. CASE d # e /\ phase'[Other(d)] # phase[Other(d)]
      <3>1. phase[d] = "closed"
        BY <1>2, <2>1, <2>4
      <3>2. inbox'[d] = <<>>
        BY <1>1, <2>4, <3>1, LinkFacts DEF GoesDown, EndLifecycle
      <3> QED BY <3>2, EmptyWith
    <2> QED BY <2>2, <2>3, <2>4
  <1>5. ASSUME NEW d \in End, phase'[d] = "verified" PROVE KnownAsDeployed(d)'
    <2>1. d # e /\ phase[d] = "verified" /\ d.own \in Node /\ d.peer \in Node
      BY <1>1, <1>2, <1>5, EndFacts DEF GoesDown
    <2>2. Open(Other(d))' => Open(Other(d))
      BY <1>1, <1>2, <2>1, EndFacts DEF GoesDown, Open
    <2>3. IsCurrent(d)' => IsCurrent(d)
      <3>1. CASE d.own = e.own /\ d.peer = e.peer
        <4>1. CASE HangUp(e)
          BY <1>1, <2>1, <3>1, <4>1 DEF HangUp, IsCurrent
        <4>2. ASSUME NEW r \in End, Redial(e, r) PROVE ~IsCurrent(d)'
          BY <1>5, <3>1, <4>2 DEF Redial, IsCurrent
        <4> QED BY <1>1, <4>1, <4>2
      <3>2. CASE ~(d.own = e.own /\ d.peer = e.peer)
        BY <1>1, <2>1, <3>2 DEF GoesDown, IsCurrent
      <3> QED BY <3>1, <3>2
    <2> QED BY <1>1, <2>1, <2>2, <2>3, LinkFacts, KeyKept DEF GoesDown
  <1>6. ASSUME NEW d \in End PROVE KnownAsDeployed(d)'
    BY <1>5 DEF KnownAsDeployed
  <1> QED BY <1>3, <1>4, <1>6, LinkedAgain

LEMMA ConnectLinks ==
    ASSUME IndInv, LinkInv, NEW n \in Node, NEW m \in Node, Connect(n, m)
    PROVE  LinkInv'
  <1>1. PICK r \in Fresh(n, m) : /\ phase' = [phase EXCEPT ![r] = "connecting"]
                                 /\ conn' = [conn EXCEPT ![n][m] = r]
    BY DEF Connect
  <1>2. /\ r \in End /\ r.own = n /\ r.peer = m
        /\ phase[r] = "closed" /\ phase[Other(r)] = "closed"
    BY FreshFacts
  <1>3. /\ phase'[r] = "connecting" /\ \A d \in End : d # r => phase'[d] = phase[d]
        /\ \A a, b \in Node : conn'[a][b] = IF a = n /\ b = m THEN r ELSE conn[a][b]
        /\ inbox' = inbox /\ peerKey' = peerKey
        /\ disk' = disk /\ signKey' = signKey
    BY <1>1, <1>2 DEF Connect, IndInv, TypeOK
  <1>4. StoredWasPublished'
    BY <1>3 DEF LinkInv, StoredWasPublished
  <1>5. ASSUME NEW d \in End, Open(Other(d))'
        PROVE  AllWith(inbox'[d], signKey'[d.peer])
    <2>1. Other(d) \in End /\ Other(Other(d)) = d
      BY EndFacts
    <2>2. CASE Other(d) = r
      <3>1. inbox[d] = <<>>
        BY <1>2, <2>1, <2>2, LinkFacts DEF EndLifecycle
      <3> QED BY <1>3, <3>1, EmptyWith
    <2>3. CASE Other(d) # r
      BY <1>3, <1>5, <2>1, <2>3, LinkFacts DEF Open
    <2> QED BY <2>2, <2>3
  <1>6. ASSUME NEW d \in End, phase'[d] = "verified" PROVE KnownAsDeployed(d)'
    <2>1. /\ d # r /\ phase[d] = "verified" /\ d.own \in Node /\ d.peer \in Node
          /\ Other(d) \in End /\ Other(d) # r
      BY <1>2, <1>3, <1>6, EndFacts
    <2>2. (IsCurrent(d)' => IsCurrent(d)) /\ (Open(Other(d))' => Open(Other(d)))
      BY <1>3, <2>1 DEF IsCurrent, Open
    <2> QED BY <1>3, <2>1, <2>2, LinkFacts, KeyKept
  <1>7. ASSUME NEW d \in End PROVE KnownAsDeployed(d)'
    BY <1>6 DEF KnownAsDeployed
  <1> QED BY <1>4, <1>5, <1>7, LinkedAgain

(* What is sent carries the sender's present key.                            *)
LEMMA SentWith ==
    ASSUME IndInv, LinkInv, NEW e \in End, NEW type \in {"handshake", "raft"}, Open(e)
    PROVE  AllWith(Append(inbox[Other(e)], Outbound(e, type)), signKey[e.own])
  <1>1. Other(e) \in End /\ Other(Other(e)) = e /\ Other(e).peer = e.own
    BY EndFacts
  <1>2. Outbound(e, type) \in Message /\ Outbound(e, type).key = signKey[e.own]
    BY OutboundType DEF IndInv, Outbound
  <1>3. inbox[Other(e)] \in Seq(Message) /\ AllWith(inbox[Other(e)], signKey[e.own])
    <2>1. Open(Other(Other(e)))
      BY <1>1
    <2> QED BY <1>1, <2>1, LinkFacts
  <1> QED BY <1>2, <1>3, AppendWith

LEMMA SendLinks ==
    ASSUME IndInv, LinkInv, NEW n \in Node, NEW m \in Node, Send(n, m)
    PROVE  LinkInv'
  <1> DEFINE e == conn[n][m]
             o == Other(e)
  <1>1. e \in End /\ Connected(e) /\ Open(e)
    BY DEF Send, Connected, Open
  <1>2. o \in End /\ o.peer = e.own /\ Open(o)
    BY <1>1, EndFacts DEF Send
  <1>3. /\ inbox'[o] = Append(inbox[o], Outbound(e, "raft"))
        /\ \A d \in End : d # o => inbox'[d] = inbox[d]
        /\ UNCHANGED <<disk, alive, signKey, conn, unknown, peerKey, up, phase, enc>>
    BY <1>1, <1>2 DEF Send, Delivered, IndInv, TypeOK, local
  <1>4. AllWith(inbox'[o], signKey[o.peer])
    BY <1>1, <1>2, <1>3, SentWith
  <1> HIDE DEF e, o
  <1>5. ASSUME NEW d \in End, Open(Other(d))'
        PROVE  AllWith(inbox'[d], signKey'[d.peer])
    BY <1>3, <1>4, <1>5, LinkFacts DEF Open
  <1>6. ASSUME NEW d \in End PROVE KnownAsDeployed(d)'
    BY <1>3, LinkFacts DEF KnownAsDeployed, Admits, GradeOf, IsCurrent, Open
  <1>7. StoredWasPublished'
    BY <1>3 DEF LinkInv, StoredWasPublished
  <1> QED BY <1>5, <1>6, <1>7, LinkedAgain

LEMMA StopLinks ==
    ASSUME IndInv, LinkInv, NEW n \in Node, Stop(n)
    PROVE  LinkInv'
  <1>1. /\ \A d \in End : phase'[d] = IF d.own = n THEN "closed" ELSE phase[d]
        /\ \A d \in End : inbox'[d] = IF d.own = n THEN <<>> ELSE inbox[d]
        /\ \A a, b \in Node : a # n => conn'[a][b] = conn[a][b]
        /\ \A a, b \in Node : peerKey'[a][b] = IF a = n THEN NoKey ELSE peerKey[a][b]
        /\ disk' = disk /\ signKey' = signKey
    BY DEF Stop, IndInv, TypeOK
  <1>2. StoredWasPublished'
    <2>1. \A b \in Node : NoKey <= signKey[b]
      BY MaxKeyAssumption DEF IndInv, TypeOK, Generation, NoKey
    <2> QED BY <1>1, <2>1 DEF LinkInv, StoredWasPublished
  <1>3. ASSUME NEW d \in End, Open(Other(d))'
        PROVE  AllWith(inbox'[d], signKey'[d.peer])
    <2>1. Open(Other(d))
      BY <1>1, <1>3, EndFacts DEF Open
    <2> QED BY <1>1, <2>1, LinkFacts, EmptyWith
  <1>4. ASSUME NEW d \in End, phase'[d] = "verified" PROVE KnownAsDeployed(d)'
    <2>1. d.own # n /\ phase[d] = "verified" /\ d.own \in Node /\ d.peer \in Node
      BY <1>1, <1>4, EndFacts
    <2>2. (IsCurrent(d)' => IsCurrent(d)) /\ (Open(Other(d))' => Open(Other(d)))
      BY <1>1, <2>1, EndFacts DEF IsCurrent, Open
    <2> QED BY <1>1, <2>1, <2>2, LinkFacts, KeyKept
  <1>5. ASSUME NEW d \in End PROVE KnownAsDeployed(d)'
    BY <1>4 DEF KnownAsDeployed
  <1> QED BY <1>2, <1>3, <1>5, LinkedAgain

(* A node that starts, perhaps with a new key, has no open end.              *)
LEMMA StartLinks ==
    ASSUME IndInv, LinkInv, NEW n \in Node, Start(n)
    PROVE  LinkInv'
  <1>1. /\ ~alive[n] /\ UNCHANGED <<disk, peerKey, phase, inbox>>
        /\ \A a, b \in Node : a # n => conn'[a][b] = conn[a][b]
    BY DEF Start, wire, IndInv, TypeOK
  <1>2. PICK k \in {signKey[n], signKey[n] + 1} \cap Generation : signKey' = [signKey EXCEPT ![n] = k]
    BY DEF Start
  <1>3. \A a \in Node : signKey'[a] = IF a = n THEN k ELSE signKey[a]
    BY <1>2 DEF IndInv, TypeOK
  <1>4. \A a, b \in Node : peerKey[a][b] \in Nat /\ signKey[b] \in Nat
    BY MaxKeyAssumption DEF IndInv, TypeOK, Key, Generation
  <1>5. StoredWasPublished'
    <2>1. k \in Nat /\ signKey[n] <= k
      BY <1>2, <1>4
    <2> QED BY <1>1, <1>3, <1>4, <2>1 DEF LinkInv, StoredWasPublished
  <1>6. \A d \in End : d.own = n => ~Open(d)
    BY <1>1 DEF IndInv, StoppedHoldsNothing
  <1>7. ASSUME NEW d \in End, Open(Other(d))'
        PROVE  AllWith(inbox'[d], signKey'[d.peer])
    <2>1. Open(Other(d)) /\ d.peer # n /\ d.peer \in Node
      BY <1>1, <1>6, <1>7, EndFacts DEF Open
    <2> QED BY <1>1, <1>3, <2>1, LinkFacts
  <1>8. ASSUME NEW d \in End, phase'[d] = "verified", Open(Other(d))'
        PROVE  KnownAsDeployed(d)'
    <2>1. /\ Open(Other(d)) /\ d.peer # n /\ d.own # n /\ phase[d] = "verified"
          /\ d.own \in Node /\ d.peer \in Node
      BY <1>1, <1>6, <1>8, EndFacts DEF Open
    <2>2. IsCurrent(d)' => IsCurrent(d)
      BY <1>1, <2>1 DEF IsCurrent
    <2> QED BY <1>1, <1>3, <2>1, <2>2, LinkFacts, KeyKept
  <1>9. ASSUME NEW d \in End PROVE KnownAsDeployed(d)'
    BY <1>8 DEF KnownAsDeployed
  <1> QED BY <1>5, <1>7, <1>9, LinkedAgain

LEMMA EstablishedLinks ==
    ASSUME IndInv, LinkInv, NEW e \in End, Established(e)
    PROVE  LinkInv'
  <1> DEFINE o == Other(e)
             msg == Outbound(e, "handshake")
  <1>1. /\ o \in End /\ o # e /\ Other(o) = e /\ o.peer = e.own /\ EndLifecycle(e)
        /\ phase[e] = "connecting" /\ inbox[e] = <<>>
    BY EndFacts, LinkFacts DEF Established, EndLifecycle
  <1>2. /\ phase'[e] = "handshake" /\ phase'[o] = "backlog"
        /\ \A d \in End : d # e /\ d # o => phase'[d] = phase[d]
        /\ inbox'[o] = <<msg>> /\ \A d \in End : d # o => inbox'[d] = inbox[d]
        /\ disk' = disk /\ signKey' = signKey /\ peerKey' = peerKey /\ conn' = conn
    BY <1>1 DEF Established, IndInv, TypeOK, local
  <1>3. AllWith(inbox'[o], signKey[o.peer])
    BY <1>1, <1>2 DEF AllWith, Outbound
  <1>4. ASSUME NEW d \in End, Open(Other(d))'
        PROVE  AllWith(inbox'[d], signKey'[d.peer])
    <2>1. CASE d = o
      BY <1>2, <1>3, <2>1
    <2>2. CASE d = e
      BY <1>1, <1>2, <2>2, EmptyWith
    <2>3. CASE d # o /\ d # e
      <3>1. Other(d) \in End /\ Other(d) # o /\ Other(d) # e
        BY <1>1, <2>3, EndFacts
      <3> QED BY <1>2, <1>4, <2>3, <3>1, LinkFacts DEF Open
    <2> QED BY <2>1, <2>2, <2>3
  <1>5. ASSUME NEW d \in End, phase'[d] = "verified" PROVE KnownAsDeployed(d)'
    <2>1. d # o /\ d # e
      BY <1>2, <1>5
    <2>2. Other(d) \in End /\ Other(d) # o /\ Other(d) # e
      BY <1>1, <2>1, EndFacts
    <2> QED BY <1>2, <1>5, <2>1, <2>2, LinkFacts, KeyKept DEF Open, IsCurrent
  <1>6. ASSUME NEW d \in End PROVE KnownAsDeployed(d)'
    BY <1>5 DEF KnownAsDeployed
  <1>7. StoredWasPublished'
    BY <1>2 DEF LinkInv, StoredWasPublished
  <1> QED BY <1>4, <1>6, <1>7, LinkedAgain

LEMMA AcceptLinks ==
    ASSUME IndInv, LinkInv, NEW e \in End, Accept(e)
    PROVE  LinkInv'
  <1>1. /\ phase[e] = "backlog" /\ phase'[e] = "handshake"
        /\ \A d \in End : d # e => phase'[d] = phase[d]
        /\ UNCHANGED <<disk, signKey, peerKey, conn, inbox>>
    BY DEF Accept, IndInv, TypeOK
  <1>2. ASSUME NEW d \in End
        PROVE  /\ Open(Other(d))' => AllWith(inbox'[d], signKey'[d.peer])
               /\ KnownAsDeployed(d)'
    <2>1. Other(d) \in End /\ (Open(Other(d))' <=> Open(Other(d)))
      BY <1>1, EndFacts DEF Open
    <2> QED BY <1>1, <2>1, LinkFacts, KeyKept DEF IsCurrent
  <1>3. StoredWasPublished'
    BY <1>1 DEF LinkInv, StoredWasPublished
  <1> QED BY <1>2, <1>3, LinkedAgain

(* A handshake is taken: the key stored was published, and is the peer's     *)
(* present one if the peer's end is still open.                              *)
LEMMA HandshakeKey ==
    ASSUME IndInv, LinkInv, NEW e \in End, phase[e] = "handshake", inbox[e] # <<>>,
           ~Rejected(e, Head(inbox[e])), Authenticated(e, Head(inbox[e]))
    PROVE  /\ peerKey'[e.own][e.peer] <= signKey[e.peer]
           /\ Open(Other(e)) =>
                /\ Admits(e.own, e.peer)
                /\ GradeOf(e.peer) = "valid" => peerKey'[e.own][e.peer] = signKey[e.peer]
                /\ AllWith(Tail(inbox[e]), signKey[e.peer])
           /\ \A n, m \in Node : ~(n = e.own /\ m = e.peer) => peerKey'[n][m] = peerKey[n][m]
  <1> DEFINE msg == Head(inbox[e])
  <1>1. /\ msg \in Message /\ msg.type = "handshake" /\ msg.key <= signKey[e.peer]
        /\ inbox[e] \in Seq(Message) /\ e.own \in Node /\ e.peer \in Node
    BY HandshakeHead, EndFacts, LinkFacts
  <1>2. /\ peerKey'[e.own][e.peer] =
             IF SentFrom(e, msg) = "valid" THEN msg.key ELSE peerKey[e.own][e.peer]
        /\ \A n, m \in Node : ~(n = e.own /\ m = e.peer) => peerKey'[n][m] = peerKey[n][m]
    BY <1>1, AuthenticatedEffect DEF IndInv
  <1>3. Open(Other(e)) => msg.key = signKey[e.peer] /\ AllWith(Tail(inbox[e]), signKey[e.peer])
    BY <1>1, LinkFacts, TailWith
  <1>4. /\ peerKey[e.own][e.peer] \in Nat /\ signKey[e.peer] \in Nat
        /\ peerKey[e.own][e.peer] <= signKey[e.peer]
    BY <1>1, MaxKeyAssumption DEF IndInv, TypeOK, Key, Generation, LinkInv, StoredWasPublished
  <1>5. Open(Other(e)) => GradeOf(e.peer) = SentFrom(e, msg) /\ SentFrom(e, msg) \in Grade
    BY <1>1, <1>3 DEF GradeOf, SentFrom, IndInv, TypeOK
  <1>6. Open(Other(e)) => Admits(e.own, e.peer)
    BY <1>1, <1>5 DEF Rejected, Admits, Grade, Outgoing
  <1> HIDE DEF msg
  <1> QED BY <1>1, <1>2, <1>3, <1>4, <1>5, <1>6

LEMMA AcceptHandshakeLinks ==
    ASSUME IndInv, LinkInv, NEW e \in End, AcceptHandshake(e)
    PROVE  LinkInv'
  <1> DEFINE o == Other(e)
  <1>1. /\ o \in End /\ o # e /\ Other(o) = e /\ o.peer = e.own
        /\ phase[e] = "handshake" /\ inbox[e] # <<>> /\ Open(e)
        /\ e.own \in Node /\ e.peer \in Node
    BY EndFacts DEF AcceptHandshake, Readable, Open
  <1>2. /\ phase'[e] = "verified" /\ \A d \in End : d # e => phase'[d] = phase[d]
        /\ inbox'[e] = Tail(inbox[e])
        /\ inbox'[o] = IF Open(o) THEN Append(inbox[o], Outbound(e, "handshake")) ELSE inbox[o]
        /\ \A d \in End : d # e /\ d # o => inbox'[d] = inbox[d]
        /\ \A a, b \in Node : conn'[a][b] = IF a = e.own /\ b = e.peer THEN e ELSE conn[a][b]
        /\ disk' = disk /\ signKey' = signKey
    BY <1>1 DEF AcceptHandshake, Delivered, IndInv, TypeOK
  <1>3. /\ peerKey'[e.own][e.peer] <= signKey[e.peer]
        /\ Open(o) =>
             /\ Admits(e.own, e.peer)
             /\ GradeOf(e.peer) = "valid" => peerKey'[e.own][e.peer] = signKey[e.peer]
             /\ AllWith(Tail(inbox[e]), signKey[e.peer])
        /\ \A n, m \in Node : ~(n = e.own /\ m = e.peer) => peerKey'[n][m] = peerKey[n][m]
    BY <1>1, HandshakeKey DEF AcceptHandshake
  <1>4. AllWith(Append(inbox[o], Outbound(e, "handshake")), signKey[o.peer])
    BY <1>1, SentWith
  <1>5. \A d \in End : Other(d) \in End /\ (Open(d)' <=> Open(d))
    BY <1>1, <1>2, EndFacts DEF Open
  <1> HIDE DEF o
  <1>6. StoredWasPublished'
    BY <1>2, <1>3 DEF LinkInv, StoredWasPublished
  <1>7. ASSUME NEW d \in End, Open(Other(d))'
        PROVE  AllWith(inbox'[d], signKey'[d.peer])
    <2>1. Open(Other(d))
      BY <1>5, <1>7
    <2>2. CASE d = e
      BY <1>2, <1>3, <2>1, <2>2 DEF o
    <2>3. CASE d = o
      BY <1>1, <1>2, <1>4, <2>1, <2>3, LinkFacts
    <2>4. CASE d # e /\ d # o
      BY <1>2, <2>1, <2>4, LinkFacts
    <2> QED BY <2>2, <2>3, <2>4
  <1>8. ASSUME NEW d \in End, phase'[d] = "verified" PROVE KnownAsDeployed(d)'
    <2>1. d.own \in Node /\ d.peer \in Node /\ Other(d) \in End
      BY EndFacts
    <2>2. CASE d = e
      BY <1>2, <1>3, <1>5, <2>1, <2>2 DEF KnownAsDeployed, Admits, GradeOf, o
    <2>3. CASE d # e /\ d.own = e.own /\ d.peer = e.peer
      BY <1>2, <1>5, <1>8, <2>1, <2>3, LinkFacts DEF KnownAsDeployed, IsCurrent, Admits, GradeOf
    <2>4. CASE ~(d.own = e.own /\ d.peer = e.peer)
      <3>1. (IsCurrent(d)' <=> IsCurrent(d)) /\ phase[d] = "verified"
        BY <1>2, <1>8, <2>1, <2>4 DEF IsCurrent
      <3> QED BY <1>2, <1>3, <1>5, <2>1, <2>4, <3>1, LinkFacts, KeyKept
    <2> QED BY <2>2, <2>3, <2>4
  <1>9. ASSUME NEW d \in End PROVE KnownAsDeployed(d)'
    BY <1>8 DEF KnownAsDeployed
  <1> QED BY <1>6, <1>7, <1>9, LinkedAgain

LEMMA AnswerFailsLinks ==
    ASSUME IndInv, LinkInv, NEW e \in End, AnswerFails(e)
    PROVE  LinkInv'
  <1> USE NoEndAssumption
  <1>1. /\ phase[e] = "handshake" /\ inbox[e] # <<>>
        /\ e.own \in Node /\ e.peer \in Node
    BY EndFacts DEF AnswerFails, Readable
  <1>2. /\ phase'[e] = "closed" /\ \A d \in End : d # e => phase'[d] = phase[d]
        /\ inbox'[e] = <<>> /\ \A d \in End : d # e => inbox'[d] = inbox[d]
        /\ \A a, b \in Node : conn'[a][b] = IF a = e.own /\ b = e.peer THEN Idle ELSE conn[a][b]
        /\ disk' = disk /\ signKey' = signKey
    BY <1>1 DEF AnswerFails, IndInv, TypeOK
  <1>3. /\ peerKey'[e.own][e.peer] <= signKey[e.peer]
        /\ \A n, m \in Node : ~(n = e.own /\ m = e.peer) => peerKey'[n][m] = peerKey[n][m]
    BY <1>1, HandshakeKey DEF AnswerFails
  <1>4. StoredWasPublished'
    BY <1>2, <1>3 DEF LinkInv, StoredWasPublished
  <1>5. \A d \in End : Other(d) \in End /\ (Open(d)' => Open(d))
    BY <1>1, <1>2, EndFacts DEF Open
  <1>6. ASSUME NEW d \in End, Open(Other(d))'
        PROVE  AllWith(inbox'[d], signKey'[d.peer])
    BY <1>2, <1>5, <1>6, LinkFacts, EmptyWith
  <1>7. ASSUME NEW d \in End, phase'[d] = "verified" PROVE KnownAsDeployed(d)'
    <2>1. d.own \in Node /\ d.peer \in Node /\ d # e /\ phase[d] = "verified"
      BY <1>2, <1>7, EndFacts
    <2>2. CASE d.own = e.own /\ d.peer = e.peer
      BY <1>2, <1>5, <2>1, <2>2, LinkFacts DEF KnownAsDeployed, IsCurrent, Admits, GradeOf
    <2>3. CASE ~(d.own = e.own /\ d.peer = e.peer)
      <3>1. IsCurrent(d)' <=> IsCurrent(d)
        BY <1>2, <2>1, <2>3 DEF IsCurrent
      <3> QED BY <1>2, <1>3, <1>5, <2>1, <2>3, <3>1, LinkFacts, KeyKept
    <2> QED BY <2>2, <2>3
  <1>8. ASSUME NEW d \in End PROVE KnownAsDeployed(d)'
    BY <1>7 DEF KnownAsDeployed
  <1> QED BY <1>4, <1>6, <1>8, LinkedAgain

(* On the dialling side only the current connection is ever promoted.        *)
LEMMA HandshakeResponseLinks ==
    ASSUME IndInv, LinkInv, NEW e \in End, HandshakeResponse(e)
    PROVE  LinkInv'
  <1>1. /\ phase[e] = "handshake" /\ inbox[e] # <<>> /\ IsCurrent(e) /\ Open(e)
        /\ e.own \in Node /\ e.peer \in Node
    BY EndFacts, LinkFacts DEF HandshakeResponse, Readable, EndTracked, Open
  <1>2. /\ phase'[e] = "verified" /\ \A d \in End : d # e => phase'[d] = phase[d]
        /\ inbox'[e] = Tail(inbox[e]) /\ \A d \in End : d # e => inbox'[d] = inbox[d]
        /\ disk' = disk /\ signKey' = signKey /\ conn' = conn
    BY <1>1 DEF HandshakeResponse, IndInv, TypeOK
  <1>3. /\ peerKey'[e.own][e.peer] <= signKey[e.peer]
        /\ Open(Other(e)) =>
             /\ Admits(e.own, e.peer)
             /\ GradeOf(e.peer) = "valid" => peerKey'[e.own][e.peer] = signKey[e.peer]
             /\ AllWith(Tail(inbox[e]), signKey[e.peer])
        /\ \A n, m \in Node : ~(n = e.own /\ m = e.peer) => peerKey'[n][m] = peerKey[n][m]
    BY <1>1, HandshakeKey DEF HandshakeResponse
  <1>4. StoredWasPublished'
    BY <1>2, <1>3 DEF LinkInv, StoredWasPublished
  <1>5. \A d \in End : Other(d) \in End /\ (Open(d)' <=> Open(d))
    BY <1>1, <1>2, EndFacts DEF Open
  <1>6. ASSUME NEW d \in End, Open(Other(d))'
        PROVE  AllWith(inbox'[d], signKey'[d.peer])
    BY <1>2, <1>3, <1>5, <1>6, LinkFacts
  <1>7. ASSUME NEW d \in End, phase'[d] = "verified" PROVE KnownAsDeployed(d)'
    <2>1. d.own \in Node /\ d.peer \in Node /\ (IsCurrent(d)' <=> IsCurrent(d))
      BY <1>2, EndFacts DEF IsCurrent
    <2>2. CASE d = e
      BY <1>2, <1>3, <1>5, <2>2 DEF KnownAsDeployed, Admits, GradeOf
    <2>3. CASE d # e /\ d.own = e.own /\ d.peer = e.peer
      BY <1>1, <1>2, <1>5, <1>7, <2>1, <2>3, LinkFacts DEF KnownAsDeployed, IsCurrent, Admits, GradeOf
    <2>4. CASE ~(d.own = e.own /\ d.peer = e.peer)
      BY <1>2, <1>3, <1>5, <1>7, <2>1, <2>4, LinkFacts, KeyKept
    <2> QED BY <2>2, <2>3, <2>4
  <1>8. ASSUME NEW d \in End PROVE KnownAsDeployed(d)'
    BY <1>7 DEF KnownAsDeployed
  <1> QED BY <1>4, <1>6, <1>8, LinkedAgain

LEMMA ReceiveVerifiedLinks ==
    ASSUME IndInv, LinkInv, NEW e \in End, ReceiveVerified(e)
    PROVE  LinkInv'
  <1>1. /\ inbox[e] # <<>> /\ inbox'[e] = Tail(inbox[e])
        /\ \A d \in End : d # e => inbox'[d] = inbox[d]
        /\ UNCHANGED <<disk, signKey, peerKey, conn, phase>>
    BY DEF ReceiveVerified, Readable, IndInv, TypeOK, local
  <1>2. ASSUME NEW d \in End, Open(Other(d))'
        PROVE  AllWith(inbox'[d], signKey'[d.peer])
    <2>1. Open(Other(d)) /\ inbox[d] \in Seq(Message)
      BY <1>1, <1>2, LinkFacts DEF Open
    <2> QED BY <1>1, <2>1, LinkFacts, TailWith
  <1>3. ASSUME NEW d \in End PROVE KnownAsDeployed(d)'
    BY <1>1, LinkFacts DEF KnownAsDeployed, Admits, GradeOf, IsCurrent, Open
  <1>4. StoredWasPublished'
    BY <1>1 DEF LinkInv, StoredWasPublished
  <1> QED BY <1>2, <1>3, <1>4, LinkedAgain

LEMMA LinkStep == IndInv /\ LinkInv /\ [Next]_vars => LinkInv'
  <1> SUFFICES ASSUME IndInv, LinkInv, [Next]_vars PROVE LinkInv'
    OBVIOUS
  <1>1. ASSUME NEW n \in Node, NodeStep(n) PROVE LinkInv'
    BY <1>1, StopLinks, StartLinks, ConnectLinks, SendLinks DEF NodeStep
  <1>2. ASSUME NEW e \in End,
               \/ Refused(e) \/ PeerClosed(e) \/ Timeout(e)
               \/ Undecodable(e) \/ RejectHandshake(e)
        PROVE  LinkInv'
    <2>1. Open(e) /\ Disconnected(e)
      BY <1>2 DEF Refused, PeerClosed, Timeout, Undecodable, RejectHandshake,
                  Readable, Connected, Open
    <2> QED BY <2>1, DisconnectedLinks
  <1>3. ASSUME NEW e \in End,
               \/ Established(e) \/ Accept(e) \/ AcceptHandshake(e) \/ AnswerFails(e)
               \/ HandshakeResponse(e) \/ ReceiveVerified(e)
        PROVE  LinkInv'
    BY <1>3, EstablishedLinks, AcceptLinks, AcceptHandshakeLinks, AnswerFailsLinks,
       HandshakeResponseLinks, ReceiveVerifiedLinks
  <1>4. ASSUME NEW e \in End, EndStep(e) PROVE LinkInv'
    BY <1>2, <1>3, <1>4 DEF EndStep, Receive
  <1>5. ASSUME UNCHANGED vars PROVE LinkInv'
    BY <1>5 DEF vars, local, wire, LinkInv, SentWithPresentKey, StoredWasPublished,
                KnownAsDeployed, Admits, GradeOf, IsCurrent, Open
  <1> QED BY <1>1, <1>4, <1>5 DEF Next

(* Two nodes that use one connection for each other have each other's        *)
(* present signing key, and nothing in flight between them will be dropped.  *)
THEOREM LinksVerify == Spec => []MutualLinkVerifies
  <1>1. IndInv /\ LinkInv => MutualLinkVerifies
    <2> SUFFICES ASSUME IndInv, LinkInv, NEW e \in End, MutualLink(e)
                 PROVE  /\ Admits(e.own, e.peer)
                        /\ GradeOf(e.peer) = "valid" =>
                             /\ peerKey[e.own][e.peer] = signKey[e.peer]
                             /\ \A i \in 1 .. Len(inbox[e]) : Passes(e, inbox[e][i])
      BY DEF MutualLinkVerifies
    <2>1. Open(Other(e))
      <3>1. Other(e) \in End /\ EndTracked(Other(e))
        BY EndFacts, LinkFacts
      <3> QED BY <3>1 DEF MutualLink, EndTracked, Open
    <2>2. /\ Admits(e.own, e.peer)
          /\ GradeOf(e.peer) = "valid" => peerKey[e.own][e.peer] = signKey[e.peer]
      BY <2>1, LinkFacts DEF MutualLink, KnownAsDeployed
    <2>3. ASSUME GradeOf(e.peer) = "valid", NEW i \in 1 .. Len(inbox[e])
          PROVE  Passes(e, inbox[e][i])
      <3>1. i \in DOMAIN inbox[e] /\ AllWith(inbox[e], signKey[e.peer])
        BY <2>1, LinkFacts
      <3>2. inbox[e][i].key = signKey[e.peer]
        BY <3>1 DEF AllWith
      <3> QED BY <2>2, <2>3, <3>2 DEF Passes
    <2> QED BY <2>2, <2>3
  <1> QED BY <1>1, Inductive, LinkInit, LinkStep, PTL DEF Spec
-----------------------------------------------------------------------------
(* A node that keeps running withdraws a peer from SyncObj only when the     *)
(* connection it has filed for it goes down.                                 *)
THEOREM Withdrawal == Spec => WithdrawnWithItsConnection
  <1> DEFINE Reason(n, m) == \/ ~alive'[n]
                             \/ conn[n][m] \in End /\ phase'[conn[n][m]] = "closed"
  <1>1. ASSUME IndInv, NEW e \in End, Open(e), Disconnected(e),
               NEW n \in Node, NEW m \in up[n] \ up'[n]
        PROVE  Reason(n, m)
    <2>1. GoesDown(e)
      BY <1>1, DisconnectedEffect DEF IndInv
    <2>2. n = e.own /\ IsCurrent(e) /\ m = e.peer
      BY <1>1, <2>1 DEF GoesDown
    <2> QED BY <2>1, <2>2 DEF GoesDown, IsCurrent
  <1>2. ASSUME IndInv, NEW e \in End,
               \/ Established(e) \/ Accept(e) \/ AcceptHandshake(e) \/ AnswerFails(e)
               \/ HandshakeResponse(e) \/ ReceiveVerified(e),
               NEW n \in Node
        PROVE  up[n] \ up'[n] = {}
    <2>1. up' = up \/ up' = [up EXCEPT ![e.own] = @ \cup {e.peer}]
      BY <1>2 DEF Established, Accept, AcceptHandshake, AnswerFails, HandshakeResponse,
                  ReceiveVerified, Authenticated, local
    <2>2. e.own \in Node /\ up \in [Node -> SUBSET Node]
      BY <1>2, EndFacts DEF IndInv, TypeOK
    <2> QED BY <2>1, <2>2
  <1>3. ASSUME IndInv, NEW k \in Node, NodeStep(k),
               NEW n \in Node, NEW m \in up[n] \ up'[n]
        PROVE  Reason(n, m)
    <2>1. ASSUME Stop(k) PROVE Reason(n, m)
      BY <1>3, <2>1 DEF Stop, IndInv, TypeOK
    <2>2. ASSUME \/ Start(k)
                 \/ \E l \in Node : Connect(k, l) \/ Send(k, l)
          PROVE  FALSE
      BY <1>3, <2>2 DEF Start, Connect, Send, local
    <2> QED BY <1>3, <2>1, <2>2 DEF NodeStep
  <1>4. ASSUME IndInv, NEW e \in End, EndStep(e),
               NEW n \in Node, NEW m \in up[n] \ up'[n]
        PROVE  Reason(n, m)
    <2>1. ASSUME \/ Refused(e) \/ PeerClosed(e) \/ Timeout(e)
                 \/ Undecodable(e) \/ RejectHandshake(e)
          PROVE  Open(e) /\ Disconnected(e)
      BY <2>1 DEF Refused, PeerClosed, Timeout, Undecodable, RejectHandshake,
                  Readable, Connected, Open
    <2> QED BY <1>1, <1>2, <1>4, <2>1 DEF EndStep, Receive
  <1>5. IndInv /\ [Next]_vars =>
          [\A n \in Node : \A m \in up[n] \ up'[n] : Reason(n, m)]_vars
    BY <1>3, <1>4 DEF Next
  <1> QED BY <1>5, Inductive, PTL DEF Spec, WithdrawnWithItsConnection
=============================================================================
