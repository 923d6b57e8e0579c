-------------------------- MODULE TlsSessionProofs --------------------------
(* Proofs about TlsSession, for any number of messages. *)
EXTENDS TlsSession, SequenceTheorems, TLAPS

LEMMA SideFacts ==
    /\ \A s \in Side : Peer(s) \in Side /\ Peer(s) # s
    /\ \A flight \in Flight : Answer(flight) \in Flight
    /\ NoFlight \in Flight
    /\ Dummy \in Nat
  BY DEF Side, Peer, Flight, Answer, NoFlight, Dummy

(* A frame has its type, and what stays in the queue is messages. *)
LEMMA FrameType ==
    ASSUME TypeOK, NEW s \in Side, NEW data \in Nat, NEW state, NEW flight \in Flight
    PROVE  Sealed(s, data, state, flight) \in Frame /\ Waiting(s, data, state) \in Seq(Nat)
  <1>1. pending[s] \in Seq(Nat)
    BY DEF TypeOK
  <1>2. Append(pending[s], data) \in Seq(Nat) /\ <<>> \in Seq(Nat)
    BY <1>1
  <1> QED BY <1>2 DEF Sealed, Waiting, Frame

LEMMA SendType ==
    ASSUME TypeOK, NEW s \in Side, Send(s)
    PROVE  TypeOK'
  <1> DEFINE m == sent[s] + 1
             frame == Sealed(s, m, session[s], out[s])
  <1>1. m \in Nat
    BY DEF TypeOK
  <1>2. frame \in Frame /\ Waiting(s, m, session[s]) \in Seq(Nat)
    BY <1>1, FrameType DEF TypeOK
  <1>3. Append(net[Peer(s)], frame) \in Seq(Frame)
    BY <1>2, SideFacts DEF TypeOK
  <1>4. net' = [net EXCEPT ![Peer(s)] = Append(@, frame)]
    BY DEF Send
  <1> HIDE DEF frame
  <1>5. net' \in [Side -> Seq(Frame)]
    BY <1>3, <1>4, SideFacts DEF TypeOK
  <1>6. sent' \in [Side -> Nat] /\ queued' \in [Side -> Nat]
    BY <1>1 DEF TypeOK, Send
  <1>7. pending' \in [Side -> Seq(Nat)] /\ out' \in [Side -> Flight]
    BY <1>2, SideFacts DEF TypeOK, Send
  <1> QED BY <1>5, <1>6, <1>7 DEF TypeOK, Send

(* What decrypt passes on is a message, or nothing. *)
LEMMA PassedType ==
    ASSUME NEW app \in Seq(Nat)
    PROVE  Lead(app) \in Nat /\ Passed(app) \in Seq(Nat \ {Dummy})
  <1>1. Lead(app) \in Nat
    BY SideFacts DEF Lead
  <1>2. CASE Lead(app) = Dummy
    BY <1>1, <1>2 DEF Passed
  <1>3. CASE Lead(app) # Dummy
    <2>1. Lead(app) \in Nat \ {Dummy}
      BY <1>1, <1>3
    <2>2. <<Lead(app)>> \in Seq(Nat \ {Dummy})
      BY <2>1
    <2> QED BY <1>1, <1>3, <2>2 DEF Passed
  <1> QED BY <1>2, <1>3, <1>1

LEMMA DeliveredAreNumbers ==
    ASSUME TypeOK, NEW s \in Side
    PROVE  delivered[s] \in Seq(Nat)
  <1>1. delivered[s] \in Seq(Nat \ {Dummy})
    BY DEF TypeOK
  <1> QED BY <1>1

LEMMA DecryptType ==
    ASSUME TypeOK, NEW s \in Side, Decrypt(s)
    PROVE  TypeOK'
  <1> DEFINE frame == Head(net[s])
             state == Advanced(s, frame.flight)
             flight == Written(s, frame.flight)
             rest == [net EXCEPT ![s] = Tail(@)]
  <1>1. frame \in Frame /\ Tail(net[s]) \in Seq(Frame)
    BY DEF TypeOK, Decrypt
  <1>2. frame.flight \in Flight /\ frame.app \in Seq(Nat)
    BY <1>1 DEF Frame
  <1>3. state \in {"none", "handshaking", "complete"} /\ flight \in Flight
    BY <1>2, SideFacts DEF TypeOK, Advanced, Written
  <1>4. rest \in [Side -> Seq(Frame)]
    BY <1>1 DEF TypeOK
  <1>5. Sealed(s, Dummy, state, flight) \in Frame /\ Waiting(s, Dummy, state) \in Seq(Nat)
    BY <1>3, FrameType, SideFacts
  <1>6. session' = [session EXCEPT ![s] = state]
        /\ delivered' = [delivered EXCEPT ![s] = @ \o Passed(frame.app)]
        /\ UNCHANGED <<sent, queued>>
    BY DEF Decrypt
  <1>7. Passed(frame.app) \in Seq(Nat \ {Dummy})
    BY <1>2, PassedType
  <1>8. delivered' \in [Side -> Seq(Nat \ {Dummy})]
    BY <1>6, <1>7 DEF TypeOK
  <1> HIDE DEF frame, state, flight
  <1>9. CASE /\ net' = [rest EXCEPT ![Peer(s)] = Append(@, Sealed(s, Dummy, state, flight))]
             /\ pending' = [pending EXCEPT ![s] = Waiting(s, Dummy, state)]
             /\ out' = [out EXCEPT ![s] = NoFlight]
    <2>1. Append(rest[Peer(s)], Sealed(s, Dummy, state, flight)) \in Seq(Frame)
      BY <1>4, <1>5, SideFacts
    <2>2. net' \in [Side -> Seq(Frame)]
      BY <1>4, <1>9, <2>1, SideFacts
    <2> QED BY <1>3, <1>5, <1>6, <1>8, <1>9, <2>2, SideFacts DEF TypeOK
  <1>10. CASE /\ net' = rest
              /\ out' = [out EXCEPT ![s] = flight]
              /\ UNCHANGED pending
    BY <1>3, <1>4, <1>6, <1>8, <1>10 DEF TypeOK
  <1> QED BY <1>9, <1>10 DEF Decrypt, frame, state, flight

LEMMA TypeStep == TypeOK /\ [Next]_vars => TypeOK'
  <1> SUFFICES ASSUME TypeOK, [Next]_vars PROVE TypeOK'
    OBVIOUS
  <1>1. ASSUME NEW s \in Side, NewSession(s) PROVE TypeOK'
    BY <1>1 DEF TypeOK, NewSession, Flight, NoFlight
  <1>2. ASSUME NEW s \in Side, Decrypt(s) PROVE TypeOK'
    BY <1>2, DecryptType
  <1>3. ASSUME NEW s \in Side, Send(s) PROVE TypeOK'
    BY <1>3, SendType
  <1>4. CASE UNCHANGED vars
    BY <1>4 DEF vars, TypeOK
  <1> QED BY <1>1, <1>2, <1>3, <1>4 DEF Next, SideStep

(* Every variable of the two sessions keeps its type. *)
THEOREM TypeCorrect == Spec => []TypeOK
  <1>1. Init => TypeOK
    BY DEF Init, TypeOK, Flight, NoFlight
  <1> QED BY <1>1, TypeStep, PTL DEF Spec

(* The step that finishes the handshake writes a flight, so that the flush   *)
(* empties the queue in that step; a finished session never queues.          *)
LEMMA StrandedStep ==
    ASSUME TypeOK, NothingStranded, [Next]_vars
    PROVE  NothingStranded'
  <1>1. ASSUME NEW s \in Side, NewSession(s) PROVE NothingStranded'
    BY <1>1 DEF TypeOK, NothingStranded, NewSession
  <1>2. ASSUME NEW s \in Side, Send(s) PROVE NothingStranded'
    <2>1. pending' = [pending EXCEPT ![s] = Waiting(s, sent[s] + 1, session[s])] /\ session' = session
      BY <1>2 DEF Send
    <2> QED BY <2>1 DEF TypeOK, NothingStranded, Waiting
  <1>3. ASSUME NEW s \in Side, Decrypt(s) PROVE NothingStranded'
    <2> DEFINE frame == Head(net[s])
               state == Advanced(s, frame.flight)
               flight == Written(s, frame.flight)
    <2>1. session' = [session EXCEPT ![s] = state]
      BY <1>3 DEF Decrypt
    <2>2. \A p \in Side : p # s => session'[p] = session[p] /\ pending'[p] = pending[p]
      BY <1>3, <2>1 DEF Decrypt, TypeOK
    <2>3. ASSUME state = "complete" PROVE pending'[s] = <<>>
      <3>1. CASE session[s] = "complete"
        <4>1. pending[s] = <<>>
          BY <3>1 DEF NothingStranded
        <4>2. pending'[s] = Waiting(s, Dummy, state) \/ pending'[s] = pending[s]
          BY <1>3 DEF Decrypt, TypeOK
        <4> QED BY <2>3, <4>1, <4>2 DEF Waiting
      <3>2. CASE session[s] # "complete"
        <4>1. frame.flight \in {"ServerFlight", "Finished"}
          BY <2>3, <3>2 DEF Advanced
        <4>2. flight # NoFlight
          BY <3>2, <4>1 DEF Written, Answer, NoFlight
        <4>3. pending' = [pending EXCEPT ![s] = Waiting(s, Dummy, state)]
          BY <1>3, <4>2 DEF Decrypt, MustFlush
        <4> QED BY <2>3, <4>3 DEF Waiting, TypeOK
      <3> QED BY <3>1, <3>2
    <2>4. session'[s] = state
      BY <2>1 DEF TypeOK
    <2> QED BY <2>2, <2>3, <2>4 DEF NothingStranded
  <1>4. CASE UNCHANGED vars
    BY <1>4 DEF vars, NothingStranded
  <1> QED BY <1>1, <1>2, <1>3, <1>4 DEF Next, SideStep

(* No message stays in the queue of a session whose handshake is complete.   *)
THEOREM QueueEmptied == Spec => []NothingStranded
  <1>1. Init => NothingStranded
    BY DEF Init, NothingStranded
  <1> QED BY <1>1, TypeCorrect, StrandedStep, PTL DEF Spec
-----------------------------------------------------------------------------
(* Why the channel keeps the order.  Along a direction, what was passed on,  *)
(* the message each frame on its way leads with, and the one the queue leads *)
(* with are numbered upwards, and were all sent.                             *)
Follows(m, n, passed) == m \in 1..n /\ \A i \in DOMAIN passed : passed[i] < m

Ordered(n, passed, frames, queue) ==
    /\ \A i \in DOMAIN passed : passed[i] \in 1..n
    /\ \A k \in DOMAIN frames :
          Lead(frames[k].app) # Dummy => Follows(Lead(frames[k].app), n, passed)
    /\ \A k, l \in DOMAIN frames :
          k < l /\ Lead(frames[k].app) # Dummy /\ Lead(frames[l].app) # Dummy
          => Lead(frames[k].app) < Lead(frames[l].app)
    /\ Lead(queue) # Dummy =>
          /\ Follows(Lead(queue), n, passed)
          /\ \A k \in DOMAIN frames : Lead(frames[k].app) < Lead(queue)

Order(s) == Ordered(sent[s], delivered[Peer(s)], net[Peer(s)], pending[s])

(* The leads of what a session writes and of what it keeps: the lead of the  *)
(* queue with the new message behind it, in the one place or in the other.   *)
LeadOf(queue, data) == IF queue = <<>> THEN data ELSE Lead(queue)

LEMMA Leads ==
    ASSUME TypeOK, NEW s \in Side, NEW data \in Nat, NEW state, NEW flight
    PROVE  \/ /\ Lead(Sealed(s, data, state, flight).app) = LeadOf(pending[s], data)
              /\ Lead(Waiting(s, data, state)) = Dummy
              /\ state = "complete"
           \/ /\ Lead(Sealed(s, data, state, flight).app) = Dummy
              /\ Lead(Waiting(s, data, state)) = LeadOf(pending[s], data)
              /\ state # "complete"
  <1> DEFINE both == Append(pending[s], data)
  <1>1. pending[s] \in Seq(Nat)
    BY DEF TypeOK
  <1>2. both # <<>> /\ Head(both) = IF pending[s] = <<>> THEN data ELSE Head(pending[s])
    <2>1. both # <<>> /\ Len(both) = Len(pending[s]) + 1 /\ both[Len(pending[s]) + 1] = data
          /\ \A i \in 1 .. Len(pending[s]) : both[i] = pending[s][i]
      BY <1>1, AppendProperties
    <2>2. CASE pending[s] = <<>>
      BY <2>1, <2>2
    <2>3. CASE pending[s] # <<>>
      <3>1. 1 \in 1 .. Len(pending[s])
        BY <1>1, <2>3
      <3> QED BY <1>1, <2>1, <2>3, <3>1
    <2> QED BY <2>2, <2>3
  <1>3. Lead(both) = LeadOf(pending[s], data)
    BY <1>2 DEF Lead, LeadOf
  <1>4. Lead(<<>>) = Dummy
    BY DEF Lead
  <1> QED BY <1>3, <1>4 DEF Sealed, Waiting

(* The leads of the frames are numbers.                                      *)
LEMMA LeadType ==
    ASSUME NEW frames \in Seq(Frame), NEW k \in DOMAIN frames
    PROVE  Lead(frames[k].app) \in Nat
  <1>1. frames[k] \in Frame
    OBVIOUS
  <1>2. frames[k].app \in Seq(Nat)
    BY <1>1 DEF Frame
  <1> QED BY <1>2, PassedType

(* Shipping a message, or the dummy of a flush, keeps the order.             *)
LEMMA ShipKeepsOrder ==
    ASSUME NEW n \in Nat, NEW n2 \in Nat, NEW data \in Nat,
           NEW passed \in Seq(Nat), NEW frames \in Seq(Frame), NEW frame \in Frame,
           NEW queue \in Seq(Nat), NEW kept,
           Ordered(n, passed, frames, queue),
           \/ data = Dummy /\ n2 = n
           \/ data = n + 1 /\ n2 = data,
           \/ Lead(frame.app) = LeadOf(queue, data) /\ Lead(kept) = Dummy
           \/ Lead(frame.app) = Dummy /\ Lead(kept) = LeadOf(queue, data)
    PROVE  Ordered(n2, passed, Append(frames, frame), kept)
  <1> DEFINE lead == LeadOf(queue, data)
             more == Append(frames, frame)
             len == Len(frames)
  <1>1. len \in Nat /\ DOMAIN frames = 1..len /\ DOMAIN more = 1..(len + 1)
        /\ more[len + 1] = frame /\ \A k \in 1..len : more[k] = frames[k]
    OBVIOUS
  <1>2. \A k \in 1..len : Lead(frames[k].app) \in Nat
    BY <1>1, LeadType
  <1>3. n2 >= n /\ \A i \in DOMAIN passed : passed[i] \in 1..n /\ passed[i] \in Nat
    BY DEF Ordered, Dummy
  <1>4. lead \in Nat
    BY PassedType DEF LeadOf
  <1>5. lead # Dummy => Follows(lead, n2, passed) /\ \A k \in 1..len : Lead(frames[k].app) < lead
    <2>1. CASE lead = data /\ data = n + 1 /\ n2 = data
      <3>1. ASSUME NEW k \in 1..len PROVE Lead(frames[k].app) <= n
        <4>1. Lead(frames[k].app) # Dummy => Follows(Lead(frames[k].app), n, passed)
          BY <1>1 DEF Ordered
        <4> QED BY <4>1 DEF Follows, Dummy
      <3> QED BY <1>2, <1>3, <2>1, <3>1 DEF Follows
    <2>2. CASE lead = Lead(queue) /\ lead # Dummy
      <3>1. Follows(lead, n, passed) /\ \A k \in 1..len : Lead(frames[k].app) < lead
        BY <1>1, <2>2 DEF Ordered
      <3> QED BY <1>3, <1>4, <3>1 DEF Follows
    <2>3. lead = data \/ lead = Lead(queue)
      BY DEF LeadOf
    <2> HIDE DEF lead
    <2> QED BY <2>1, <2>2, <2>3
  <1> HIDE DEF lead, more, len
  <1>6. \A i \in DOMAIN passed : passed[i] \in 1..n2
    BY <1>3
  <1>7. Lead(frame.app) # Dummy => Lead(frame.app) = lead /\ Lead(kept) = Dummy
    BY DEF lead
  <1>8. Lead(kept) # Dummy => Lead(kept) = lead /\ Lead(frame.app) = Dummy
    BY DEF lead
  <1>9. ASSUME NEW k \in 1..(len + 1), Lead(more[k].app) # Dummy
        PROVE  Follows(Lead(more[k].app), n2, passed)
    <2>1. CASE k \in 1..len
      <3>1. Follows(Lead(frames[k].app), n, passed) /\ more[k] = frames[k]
        BY <1>1, <1>9, <2>1 DEF Ordered
      <3> QED BY <1>3, <3>1 DEF Follows
    <2>2. CASE k = len + 1
      BY <1>1, <1>5, <1>7, <1>9, <2>2
    <2> QED BY <1>1, <2>1, <2>2
  <1>10. ASSUME NEW k \in 1..(len + 1), NEW l \in 1..(len + 1), k < l,
                Lead(more[k].app) # Dummy, Lead(more[l].app) # Dummy
         PROVE  Lead(more[k].app) < Lead(more[l].app)
    <2>1. k \in 1..len /\ more[k] = frames[k]
      BY <1>1, <1>10
    <2>2. CASE l \in 1..len
      BY <1>1, <1>10, <2>1, <2>2 DEF Ordered
    <2>3. CASE l = len + 1
      BY <1>1, <1>5, <1>7, <1>10, <2>1, <2>3
    <2> QED BY <1>1, <2>2, <2>3
  <1>11. Lead(kept) # Dummy =>
           Follows(Lead(kept), n2, passed) /\ \A k \in 1..(len + 1) : Lead(more[k].app) < Lead(kept)
    <2> SUFFICES ASSUME Lead(kept) # Dummy
                 PROVE  Follows(Lead(kept), n2, passed) /\ \A k \in 1..(len + 1) : Lead(more[k].app) < Lead(kept)
      OBVIOUS
    <2>1. Follows(lead, n2, passed) /\ \A k \in 1..len : Lead(frames[k].app) < lead
      BY <1>5, <1>8
    <2>2. Lead(more[len + 1].app) < lead
      BY <1>1, <1>4, <1>8 DEF Dummy
    <2>3. \A k \in 1..(len + 1) : k \in 1..len \/ k = len + 1
      BY <1>1
    <2> QED BY <1>1, <1>8, <2>1, <2>2, <2>3
  <1> QED BY <1>1, <1>6, <1>9, <1>10, <1>11 DEF Ordered, more

(* Reading the frame at the head keeps the order, and passes on a message    *)
(* that was sent and is later than what has been passed on.                  *)
LEMMA ReadKeepsOrder ==
    ASSUME NEW n \in Nat, NEW passed \in Seq(Nat), NEW frames \in Seq(Frame),
           NEW queue \in Seq(Nat), frames # <<>>,
           Ordered(n, passed, frames, queue)
    PROVE  /\ Ordered(n, passed \o Passed(Head(frames).app), Tail(frames), queue)
           /\ Lead(Head(frames).app) # Dummy => Follows(Lead(Head(frames).app), n, passed)
  <1> DEFINE head == Lead(Head(frames).app)
             rest == Tail(frames)
             longer == passed \o Passed(Head(frames).app)
  <1>1. /\ Head(frames) = frames[1] /\ 1 \in DOMAIN frames /\ rest \in Seq(Frame)
        /\ \A k \in DOMAIN rest : k + 1 \in DOMAIN frames /\ rest[k] = frames[k + 1] /\ 1 < k + 1
        /\ \A k \in DOMAIN rest : k \in Nat
    OBVIOUS
  <1>2. head # Dummy => Follows(head, n, passed)
    BY <1>1 DEF Ordered
  <1>3. \A k \in DOMAIN rest : Lead(rest[k].app) \in Nat
    BY <1>1, LeadType
  <1>4. CASE head = Dummy
    <2>1. longer = passed
      BY <1>4, ConcatEmptySeq DEF Passed
    <2> HIDE DEF rest
    <2>2. \A k \in DOMAIN rest :
            /\ Lead(rest[k].app) = Lead(frames[k + 1].app)
            /\ k + 1 \in DOMAIN frames /\ k \in Nat
      BY <1>1
    <2>3. Ordered(n, passed, frames, queue)
      OBVIOUS
    <2>4. \A k, l \in DOMAIN rest : k < l => k + 1 < l + 1
      BY <2>2
    <2>5. Ordered(n, passed, rest, queue)
      BY <2>2, <2>3, <2>4 DEF Ordered
    <2> QED BY <1>2, <2>1, <2>5 DEF rest
  <1>5. CASE head # Dummy
    <2>1. longer = Append(passed, head) /\ head \in Nat
      <3>1. head \in 1..n
        BY <1>2, <1>5 DEF Follows
      <3>2. longer = passed \o <<head>>
        BY <1>5 DEF Passed
      <3> HIDE DEF head
      <3> QED BY <3>1, <3>2
    <2> HIDE DEF head
    <2>2. DOMAIN longer = 1..(Len(passed) + 1) /\ longer[Len(passed) + 1] = head
          /\ DOMAIN passed = 1..Len(passed) /\ \A i \in 1..Len(passed) : longer[i] = passed[i]
      BY <2>1
    <2> HIDE DEF longer
    <2>3. \A i \in DOMAIN longer : (i \in DOMAIN passed /\ longer[i] = passed[i]) \/ longer[i] = head
      BY <2>2
    <2>4. \A i \in DOMAIN longer : longer[i] \in 1..n
      BY <1>2, <1>5, <2>3 DEF Ordered, Follows
    <2>5. \A m \in Nat : Follows(m, n, passed) /\ head < m => Follows(m, n, longer)
      BY <2>3 DEF Follows
    <2>6. \A k \in DOMAIN rest : Lead(rest[k].app) # Dummy =>
             Follows(Lead(rest[k].app), n, passed) /\ head < Lead(rest[k].app)
      BY <1>1, <1>5 DEF Ordered, head
    <2>7. Lead(queue) # Dummy => Follows(Lead(queue), n, longer)
      <3>1. Lead(queue) \in Nat
        BY PassedType
      <3>2. Lead(queue) # Dummy => Follows(Lead(queue), n, passed) /\ head < Lead(queue)
        BY <1>1 DEF Ordered, head
      <3> QED BY <2>5, <3>1, <3>2
    <2> QED BY <1>1, <1>2, <1>3, <2>4, <2>5, <2>6, <2>7 DEF Ordered, head, longer
  <1> QED BY <1>2, <1>4, <1>5

(* What a finished session sends is on its way or has been passed on.        *)
Arriving(m, passed, frames) ==
    \/ \E i \in DOMAIN passed : passed[i] = m
    \/ \E k \in DOMAIN frames : Lead(frames[k].app) = m

Arrives(s) ==
    \A m \in (queued[s] + 1)..sent[s] : Arriving(m, delivered[Peer(s)], net[Peer(s)])

LEMMA ArrivingStays ==
    ASSUME NEW m \in Nat, m # Dummy, NEW passed \in Seq(Nat), NEW frames \in Seq(Frame),
           Arriving(m, passed, frames)
    PROVE  /\ \A frame \in Frame : Arriving(m, passed, Append(frames, frame))
           /\ frames # <<>> =>
                Arriving(m, passed \o Passed(Head(frames).app), Tail(frames))
  <1>1. ASSUME NEW frame \in Frame PROVE Arriving(m, passed, Append(frames, frame))
    <2>1. \A k \in DOMAIN frames : k \in DOMAIN Append(frames, frame) /\ Append(frames, frame)[k] = frames[k]
      OBVIOUS
    <2> QED BY <2>1 DEF Arriving
  <1>2. ASSUME frames # <<>>
        PROVE  Arriving(m, passed \o Passed(Head(frames).app), Tail(frames))
    <2> DEFINE app == Head(frames).app
               longer == passed \o Passed(app)
    <2>1. Head(frames) \in Frame
      BY <1>2
    <2>2. app \in Seq(Nat)
      BY <2>1 DEF Frame
    <2>3. Passed(app) \in Seq(Nat)
      BY <2>2, PassedType
    <2> HIDE DEF app
    <2>4. \A i \in DOMAIN passed : i \in DOMAIN longer /\ longer[i] = passed[i]
      BY <2>3
    <2>5. CASE \E i \in DOMAIN passed : passed[i] = m
      BY <2>4, <2>5 DEF Arriving, app
    <2>6. CASE Lead(app) = m
      <3>1. Passed(app) = <<m>>
        BY <2>6 DEF Passed
      <3>2. Len(passed) + 1 \in DOMAIN longer /\ longer[Len(passed) + 1] = m
        BY <3>1
      <3> QED BY <3>2 DEF Arriving, app
    <2>7. ASSUME NEW k \in DOMAIN frames, k # 1, Lead(frames[k].app) = m
          PROVE  Arriving(m, longer, Tail(frames))
      <3>1. k - 1 \in DOMAIN Tail(frames) /\ Tail(frames)[k - 1] = frames[k]
        BY <1>2, <2>7
      <3> QED BY <2>7, <3>1 DEF Arriving
    <2>8. Head(frames) = frames[1]
      BY <1>2
    <2> QED BY <2>5, <2>6, <2>7, <2>8 DEF Arriving, app
  <1> QED BY <1>1, <1>2

IInv == TypeOK /\ NothingStranded /\ \A s \in Side : Order(s) /\ Arrives(s)

LEMMA InitInv == Init => IInv
  <1> SUFFICES ASSUME Init PROVE IInv
    OBVIOUS
  <1>1. TypeOK /\ NothingStranded
    BY DEF Init, TypeOK, NothingStranded, Flight, NoFlight
  <1>2. ASSUME NEW s \in Side PROVE Order(s) /\ Arrives(s)
    <2>1. sent[s] = 0 /\ queued[s] = 0 /\ delivered[Peer(s)] = <<>> /\ net[Peer(s)] = <<>> /\ pending[s] = <<>>
      BY SideFacts DEF Init
    <2> QED BY <2>1 DEF Order, Ordered, Arrives, Lead
  <1> QED BY <1>1, <1>2 DEF IInv

(* What Send does to the two directions.                                     *)
LEMMA SendKeeps ==
    ASSUME IInv, TypeOK', NEW s \in Side, Send(s), NEW p \in Side
    PROVE  Order(p)' /\ Arrives(p)' /\ delivered' = delivered
           /\ sent' = [sent EXCEPT ![s] = @ + 1]
  <1> DEFINE m == sent[s] + 1
             frame == Sealed(s, m, session[s], out[s])
             kept == Waiting(s, m, session[s])
  <1>1. /\ delivered' = delivered /\ sent' = [sent EXCEPT ![s] = m]
        /\ queued' = [queued EXCEPT ![s] = IF session[s] = "complete" THEN @ ELSE m]
        /\ net' = [net EXCEPT ![Peer(s)] = Append(@, frame)]
        /\ pending' = [pending EXCEPT ![s] = kept]
    BY DEF Send
  <1>2. TypeOK /\ Order(p) /\ Arrives(p) /\ Peer(p) \in Side /\ Peer(s) \in Side
    BY SideFacts DEF IInv
  <1>3. m \in Nat /\ out[s] \in Flight /\ frame \in Frame
    <2>1. sent[s] \in Nat /\ out[s] \in Flight /\ session[s] = session[s]
      BY <1>2 DEF TypeOK
    <2>2. m \in Nat
      BY <2>1
    <2> HIDE DEF m
    <2> QED BY <1>2, <2>1, <2>2, FrameType
  <1>4. \/ Lead(frame.app) = LeadOf(pending[s], m) /\ Lead(kept) = Dummy /\ session[s] = "complete"
        \/ Lead(frame.app) = Dummy /\ Lead(kept) = LeadOf(pending[s], m) /\ session[s] # "complete"
    BY <1>2, <1>3, Leads
  <1>5. /\ sent[p] \in Nat /\ delivered[Peer(p)] \in Seq(Nat) /\ net[Peer(p)] \in Seq(Frame)
        /\ pending[p] \in Seq(Nat) /\ queued[p] \in Nat
    BY <1>2, DeliveredAreNumbers DEF TypeOK
  <1> HIDE DEF frame, kept, m
  <1>6. CASE p = s
    <2>1. /\ sent'[p] = m /\ delivered'[Peer(p)] = delivered[Peer(p)]
          /\ net'[Peer(p)] = Append(net[Peer(p)], frame) /\ pending'[p] = kept
          /\ queued'[p] = IF session[s] = "complete" THEN queued[p] ELSE m
      BY <1>1, <1>2, <1>6 DEF TypeOK
    <2>2. Ordered(m, delivered[Peer(p)], Append(net[Peer(p)], frame), kept)
      BY <1>2, <1>3, <1>4, <1>5, <1>6, ShipKeepsOrder DEF Order, m
    <2>3. ASSUME NEW k \in (queued'[p] + 1)..sent'[p]
          PROVE  Arriving(k, delivered[Peer(p)], Append(net[Peer(p)], frame))
      <3>1. session[s] = "complete" /\ k \in Nat /\ k # Dummy
        BY <1>3, <1>5, <2>1, <2>3 DEF Dummy
      <3>2. CASE k = m
        <4>1. pending[s] = <<>>
          BY <3>1 DEF IInv, NothingStranded
        <4>2. Lead(frame.app) = m
          BY <1>4, <3>1, <4>1 DEF LeadOf
        <4>3. Len(net[Peer(p)]) + 1 \in DOMAIN Append(net[Peer(p)], frame)
              /\ Append(net[Peer(p)], frame)[Len(net[Peer(p)]) + 1] = frame
          BY <1>5
        <4> QED BY <3>2, <4>2, <4>3 DEF Arriving
      <3>3. CASE k # m
        <4>1. k \in (queued[p] + 1)..sent[p]
          BY <1>5, <1>6, <2>1, <2>3, <3>1, <3>3 DEF m
        <4> QED BY <1>2, <1>3, <1>5, <3>1, <4>1, ArrivingStays DEF Arrives
      <3> QED BY <3>2, <3>3
    <2>4. Order(p)'
      BY <2>1, <2>2, <1>6 DEF Order
    <2> QED BY <1>1, <1>6, <2>1, <2>3, <2>4 DEF Arrives, m
  <1>7. CASE p # s
    <2>1. Peer(p) # Peer(s)
      BY <1>7 DEF Peer, Side
    <2>2. /\ sent'[p] = sent[p] /\ delivered'[Peer(p)] = delivered[Peer(p)] /\ queued'[p] = queued[p]
          /\ net'[Peer(p)] = net[Peer(p)] /\ pending'[p] = pending[p]
      BY <1>1, <1>2, <1>7, <2>1 DEF TypeOK
    <2> QED BY <1>1, <1>2, <2>2 DEF Order, Arrives, m
  <1> QED BY <1>6, <1>7

(* What Decrypt does to them: it reads a frame of one, and may ship a dummy  *)
(* along the other.                                                          *)
LEMMA DecryptKeeps ==
    ASSUME IInv, TypeOK', NEW s \in Side, Decrypt(s), NEW p \in Side
    PROVE  /\ Order(p)' /\ Arrives(p)' /\ sent' = sent
           /\ delivered' = [delivered EXCEPT ![s] = @ \o Passed(Head(net[s]).app)]
           /\ Lead(Head(net[s]).app) # Dummy =>
                 Follows(Lead(Head(net[s]).app), sent[Peer(s)], delivered[s])
  <1> DEFINE state == Advanced(s, Head(net[s]).flight)
             flight == Written(s, Head(net[s]).flight)
             frame == Sealed(s, Dummy, state, flight)
             kept == Waiting(s, Dummy, state)
             rest == [net EXCEPT ![s] = Tail(@)]
  <1>1. /\ delivered' = [delivered EXCEPT ![s] = @ \o Passed(Head(net[s]).app)]
        /\ net[s] # <<>> /\ sent' = sent /\ queued' = queued
        /\ \/ net' = rest /\ pending' = pending
           \/ /\ net' = [rest EXCEPT ![Peer(s)] = Append(@, frame)]
              /\ pending' = [pending EXCEPT ![s] = kept]
    BY DEF Decrypt
  <1>2. TypeOK /\ Order(p) /\ Arrives(p) /\ Order(Peer(s)) /\ Peer(p) \in Side /\ Peer(s) \in Side
        /\ Peer(Peer(s)) = s /\ Peer(s) # s /\ (p = s \/ p = Peer(s))
    BY SideFacts DEF IInv, Peer, Side
  <1>3. flight \in Flight /\ frame \in Frame
    <2>1. net[s] \in Seq(Frame) /\ out[s] \in Flight
      BY <1>2 DEF TypeOK
    <2>2. Head(net[s]) \in Frame
      BY <1>1, <2>1
    <2>3. flight \in Flight
      BY <2>1, <2>2, SideFacts DEF Written, Frame
    <2> QED BY <1>2, <2>3, FrameType, SideFacts
  <1>4. \/ Lead(frame.app) = LeadOf(pending[s], Dummy) /\ Lead(kept) = Dummy
        \/ Lead(frame.app) = Dummy /\ Lead(kept) = LeadOf(pending[s], Dummy)
    BY <1>2, <1>3, Leads, SideFacts
  <1>5. \A q \in Side :
          /\ sent[q] \in Nat /\ delivered[Peer(q)] \in Seq(Nat) /\ net[Peer(q)] \in Seq(Frame)
          /\ pending[q] \in Seq(Nat) /\ queued[q] \in Nat
    BY <1>2, SideFacts, DeliveredAreNumbers DEF TypeOK
  <1> HIDE DEF frame, kept, state, flight
  <1>6. /\ net'[s] = Tail(net[s]) /\ delivered'[s] = delivered[s] \o Passed(Head(net[s]).app)
        /\ pending'[Peer(s)] = pending[Peer(s)] /\ delivered'[Peer(s)] = delivered[Peer(s)]
        /\ \/ net'[Peer(s)] = net[Peer(s)] /\ pending'[s] = pending[s]
           \/ net'[Peer(s)] = Append(net[Peer(s)], frame) /\ pending'[s] = kept
    BY <1>1, <1>2 DEF TypeOK
  <1>7. /\ Ordered(sent[Peer(s)], delivered'[s], net'[s], pending[Peer(s)])
        /\ Lead(Head(net[s]).app) # Dummy =>
              Follows(Lead(Head(net[s]).app), sent[Peer(s)], delivered[s])
    <2>1. Ordered(sent[Peer(s)], delivered[s], net[s], pending[Peer(s)])
      BY <1>2 DEF Order
    <2>2. delivered[s] \in Seq(Nat) /\ net[s] \in Seq(Frame) /\ net[s] # <<>>
          /\ pending[Peer(s)] \in Seq(Nat) /\ sent[Peer(s)] \in Nat
      BY <1>1, <1>2, DeliveredAreNumbers DEF TypeOK
    <2>3. Ordered(sent[Peer(s)], delivered[s] \o Passed(Head(net[s]).app), Tail(net[s]), pending[Peer(s)])
      BY <2>1, <2>2, ReadKeepsOrder
    <2>4. Lead(Head(net[s]).app) # Dummy => Follows(Lead(Head(net[s]).app), sent[Peer(s)], delivered[s])
      BY <2>1, <2>2, ReadKeepsOrder
    <2> QED BY <1>6, <2>3, <2>4
  <1>8. CASE p = s
    <2>1. CASE net'[Peer(s)] = net[Peer(s)] /\ pending'[s] = pending[s]
      <3>1. Order(p)' /\ Arrives(p)'
        BY <1>1, <1>2, <1>6, <1>8, <2>1 DEF Order, Arrives
      <3> QED BY <1>1, <1>7, <3>1
    <2>2. CASE net'[Peer(s)] = Append(net[Peer(s)], frame) /\ pending'[s] = kept
      <3>1. Ordered(sent[p], delivered[Peer(p)], Append(net[Peer(p)], frame), kept)
        BY <1>2, <1>3, <1>4, <1>5, <1>8, SideFacts, ShipKeepsOrder DEF Order
      <3>2. Order(p)'
        BY <1>1, <1>6, <1>8, <2>2, <3>1 DEF Order
      <3>3. ASSUME NEW k \in (queued[p] + 1)..sent[p]
            PROVE  Arriving(k, delivered[Peer(p)], Append(net[Peer(p)], frame))
        <4>1. k \in Nat /\ k # Dummy
          BY <1>5, <3>3 DEF Dummy
        <4> QED BY <1>2, <1>3, <1>5, <3>3, <4>1, ArrivingStays DEF Arrives
      <3>4. Arrives(p)'
        BY <1>1, <1>6, <1>8, <2>2, <3>3 DEF Arrives
      <3> QED BY <3>2, <3>4, <1>1, <1>7
    <2> QED BY <1>1, <1>6, <1>7, <2>1, <2>2
  <1>9. CASE p = Peer(s)
    <2>1. Order(p)'
      BY <1>1, <1>2, <1>6, <1>7, <1>9 DEF Order
    <2>2. ASSUME NEW k \in (queued[p] + 1)..sent[p]
          PROVE  Arriving(k, delivered'[Peer(p)], net'[Peer(p)])
      <3>1. k \in Nat /\ k # Dummy
        BY <1>5, <2>2 DEF Dummy
      <3>2. Arriving(k, delivered[s], net[s]) /\ delivered[s] \in Seq(Nat) /\ net[s] \in Seq(Frame)
        BY <1>2, <1>9, <2>2, DeliveredAreNumbers DEF Arrives, TypeOK
      <3>3. Arriving(k, delivered[s] \o Passed(Head(net[s]).app), Tail(net[s]))
        BY <1>1, <3>1, <3>2, ArrivingStays
      <3> QED BY <1>2, <1>6, <1>9, <3>3
    <2>3. Arrives(p)'
      BY <1>1, <2>2 DEF Arrives
    <2> QED BY <1>1, <1>7, <2>1, <2>3
  <1> QED BY <1>2, <1>8, <1>9

LEMMA NewSessionKeeps ==
    ASSUME IInv, NEW s \in Side, NewSession(s), NEW p \in Side
    PROVE  Order(p)' /\ Arrives(p)' /\ UNCHANGED <<sent, delivered>>
  BY DEF IInv, NewSession, Order, Arrives

LEMMA InvStep == IInv /\ [Next]_vars => IInv'
  <1> SUFFICES ASSUME IInv, [Next]_vars PROVE IInv'
    OBVIOUS
  <1>1. TypeOK' /\ NothingStranded'
    BY TypeStep, StrandedStep DEF IInv
  <1>2. ASSUME NEW p \in Side PROVE Order(p)' /\ Arrives(p)'
    <2>1. ASSUME NEW s \in Side, NewSession(s) PROVE Order(p)' /\ Arrives(p)'
      BY <2>1, NewSessionKeeps
    <2>2. ASSUME NEW s \in Side, Decrypt(s) PROVE Order(p)' /\ Arrives(p)'
      BY <1>1, <2>2, DecryptKeeps
    <2>3. ASSUME NEW s \in Side, Send(s) PROVE Order(p)' /\ Arrives(p)'
      BY <1>1, <2>3, SendKeeps
    <2>4. CASE UNCHANGED vars
      BY <2>4 DEF vars, IInv, Order, Arrives
    <2> QED BY <2>1, <2>2, <2>3, <2>4 DEF Next, SideStep
  <1> QED BY <1>1, <1>2 DEF IInv

THEOREM Invariant == Spec => []IInv
  <1> QED BY InitInv, InvStep, PTL DEF Spec

(* Nothing sent by a finished session is missing once all has been read.     *)
THEOREM LaterArrives == Spec => []OnlyQueuedAreLost
  <1>1. IInv => OnlyQueuedAreLost
    <2> SUFFICES ASSUME IInv, Quiet, NEW s \in Side, NEW m \in (queued[s] + 1)..sent[s]
                 PROVE  m \in Range(delivered[Peer(s)])
      BY DEF OnlyQueuedAreLost
    <2>1. Arriving(m, delivered[Peer(s)], net[Peer(s)]) /\ net[Peer(s)] = <<>>
      BY SideFacts DEF IInv, Arrives, Quiet
    <2> QED BY <2>1 DEF Arriving, Range
  <1> QED BY <1>1, Invariant, PTL
-----------------------------------------------------------------------------
(* Every step passes on nothing along a direction, or the next message in    *)
(* order.                                                                    *)
Direction(s) ==
    \/ UNCHANGED <<sent[s], delivered[Peer(s)]>>
    \/ sent'[s] = sent[s] + 1 /\ UNCHANGED delivered[Peer(s)]
    \/ \E m \in 1..sent[s] :
          /\ \A i \in DOMAIN delivered[Peer(s)] : delivered[Peer(s)][i] < m
          /\ delivered'[Peer(s)] = Append(delivered[Peer(s)], m)
          /\ UNCHANGED sent[s]

LEMMA DirectionStep ==
    ASSUME IInv, IInv', [Next]_vars, NEW s \in Side
    PROVE  Direction(s)
  <1>1. TypeOK /\ TypeOK' /\ Peer(s) \in Side
    BY SideFacts DEF IInv
  <1>2. ASSUME NEW p \in Side, NewSession(p) PROVE Direction(s)
    BY <1>2 DEF NewSession, Direction
  <1>3. ASSUME NEW p \in Side, Send(p) PROVE Direction(s)
    BY <1>1, <1>3, SendKeeps DEF Direction, TypeOK
  <1>4. ASSUME NEW p \in Side, Decrypt(p) PROVE Direction(s)
    <2> DEFINE m == Lead(Head(net[p]).app)
    <2>1. /\ sent' = sent
          /\ delivered' = [delivered EXCEPT ![p] = @ \o Passed(Head(net[p]).app)]
          /\ m # Dummy => Follows(m, sent[Peer(p)], delivered[p])
      BY <1>1, <1>4, DecryptKeeps
    <2>2. CASE Peer(s) # p
      BY <1>1, <2>1, <2>2 DEF Direction, TypeOK
    <2>3. CASE Peer(s) = p
      <3>1. delivered'[p] = delivered[p] \o Passed(Head(net[p]).app) /\ delivered[p] \in Seq(Nat)
        BY <1>1, <2>1, DeliveredAreNumbers DEF TypeOK
      <3>2. s = Peer(p)
        BY <2>3 DEF Peer, Side
      <3>3. CASE m = Dummy
        <4>1. delivered'[p] = delivered[p]
          BY <3>1, <3>3, ConcatEmptySeq DEF Passed
        <4> QED BY <2>1, <2>3, <4>1 DEF Direction
      <3>4. CASE m # Dummy
        <4>1. Follows(m, sent[s], delivered[p]) /\ Passed(Head(net[p]).app) = <<m>>
          BY <2>1, <3>2, <3>4 DEF Passed
        <4> HIDE DEF m
        <4>2. delivered'[p] = delivered[p] \o <<m>> /\ m \in 1..sent[s]
          BY <3>1, <4>1 DEF Follows
        <4>3. m \in Nat
          BY <1>1, <4>2 DEF TypeOK
        <4>4. \A d \in Seq(Nat), k \in Nat : d \o <<k>> = Append(d, k)
          OBVIOUS
        <4>5. delivered'[p] = Append(delivered[p], m)
          BY <3>1, <4>2, <4>3, <4>4
        <4> QED BY <2>1, <2>3, <4>1, <4>5 DEF Direction, Follows
      <3> QED BY <3>3, <3>4
    <2> QED BY <2>2, <2>3
  <1>5. CASE UNCHANGED vars
    BY <1>5 DEF vars, Direction
  <1> QED BY <1>2, <1>3, <1>4, <1>5 DEF Next, SideStep

(* Each direction of two sessions is a Channel: it passes on what was sent,  *)
(* in order and never twice, whatever waits for the handshake.               *)
THEOREM Refinement == Spec => ImplementsChannel
  <1>1. Init => ToServer!Init /\ ToClient!Init
    BY DEF Init, ToServer!Init, ToClient!Init, Side
  <1>2. IInv /\ IInv' /\ [Next]_vars =>
          /\ [ToServer!Next]_<<sent["client"], delivered["server"]>>
          /\ [ToClient!Next]_<<sent["server"], delivered["client"]>>
    <2> SUFFICES ASSUME IInv, IInv', [Next]_vars
                 PROVE  /\ [ToServer!Next]_<<sent["client"], delivered["server"]>>
                        /\ [ToClient!Next]_<<sent["server"], delivered["client"]>>
      OBVIOUS
    <2>1. Direction("client") /\ Peer("client") = "server"
      BY DirectionStep DEF Side, Peer
    <2>2. Direction("server") /\ Peer("server") = "client"
      BY DirectionStep DEF Side, Peer
    <2>3. [ToServer!Next]_<<sent["client"], delivered["server"]>>
      BY <2>1 DEF Direction, ToServer!Next, ToServer!Ship, ToServer!PassOn
    <2>4. [ToClient!Next]_<<sent["server"], delivered["client"]>>
      BY <2>2 DEF Direction, ToClient!Next, ToClient!Ship, ToClient!PassOn
    <2> QED BY <2>3, <2>4
  <1> QED BY <1>1, <1>2, Invariant, PTL DEF Spec, ImplementsChannel, ToServer!Spec, ToClient!Spec
-----------------------------------------------------------------------------
(* Why the handshake does not stall: of all flights there is exactly one,    *)
(* and it is on its way, except for the client's first, which is held until  *)
(* the client sends or reads anything.                                       *)
NoFlights(frames) == \A k \in DOMAIN frames : frames[k].flight = NoFlight

OneFlight(frames, flight) ==
    \E k \in DOMAIN frames :
        /\ frames[k].flight = flight
        /\ \A l \in DOMAIN frames : l # k => frames[l].flight = NoFlight

NothingHeld == out["client"] = NoFlight /\ out["server"] = NoFlight

(* Nobody has read what was sent before the client had a session.            *)
Unread == sent["client"] = 0 /\ (sent["server"] > 0 => net["client"] # <<>>)

NotBegun ==
    /\ session["client"] = "none" /\ session["server"] # "complete"
    /\ NothingHeld /\ Unread
    /\ NoFlights(net["client"]) /\ NoFlights(net["server"])

HelloHeld ==
    /\ session["client"] = "handshaking" /\ session["server"] = "handshaking"
    /\ out["client"] = "ClientHello" /\ out["server"] = NoFlight /\ Unread
    /\ NoFlights(net["client"]) /\ NoFlights(net["server"])

HelloSent ==
    /\ session["client"] = "handshaking" /\ session["server"] = "handshaking"
    /\ NothingHeld
    /\ OneFlight(net["server"], "ClientHello") /\ NoFlights(net["client"])

ServerAnswered ==
    /\ session["client"] = "handshaking" /\ session["server"] = "handshaking"
    /\ NothingHeld
    /\ OneFlight(net["client"], "ServerFlight") /\ NoFlights(net["server"])

ClientFinished ==
    /\ session["client"] = "complete" /\ session["server"] = "handshaking"
    /\ NothingHeld
    /\ OneFlight(net["server"], "Finished") /\ NoFlights(net["client"])

BothComplete == session["client"] = "complete" /\ session["server"] = "complete"

Progress ==
    \/ NotBegun \/ HelloHeld \/ HelloSent
    \/ ServerAnswered \/ ClientFinished \/ BothComplete

(* Flights in a queue of frames that grows and shrinks.                      *)
LEMMA FlightsAppend ==
    ASSUME NEW frames \in Seq(Frame), NEW frame \in Frame
    PROVE  /\ NoFlights(frames) /\ frame.flight = NoFlight => NoFlights(Append(frames, frame))
           /\ NoFlights(frames) => OneFlight(Append(frames, frame), frame.flight)
           /\ \A flight : OneFlight(frames, flight) /\ frame.flight = NoFlight
                 => OneFlight(Append(frames, frame), flight)
           /\ Append(frames, frame) # <<>>
  <1> DEFINE more == Append(frames, frame)
             len == Len(frames)
  <1>1. /\ len \in Nat /\ DOMAIN frames = 1 .. len /\ DOMAIN more = 1 .. len + 1
        /\ more[len + 1] = frame /\ \A k \in 1 .. len : more[k] = frames[k]
        /\ more # <<>>
    OBVIOUS
  <1>2. \A k \in 1 .. len + 1 : k \in 1 .. len \/ k = len + 1
    BY <1>1
  <1>3. \A k \in 1 .. len : k \in 1 .. len + 1 /\ k # len + 1
    BY <1>1
  <1>4. len + 1 \in 1 .. len + 1
    BY <1>1
  <1> HIDE DEF more, len
  <1>5. NoFlights(frames) /\ frame.flight = NoFlight => NoFlights(more)
    BY <1>1, <1>2 DEF NoFlights
  <1>6. NoFlights(frames) => OneFlight(more, frame.flight)
    BY <1>1, <1>2, <1>4 DEF NoFlights, OneFlight
  <1>7. \A flight : OneFlight(frames, flight) /\ frame.flight = NoFlight => OneFlight(more, flight)
    BY <1>1, <1>2, <1>3 DEF OneFlight
  <1> QED BY <1>1, <1>5, <1>6, <1>7 DEF more

LEMMA FlightsTail ==
    ASSUME NEW frames \in Seq(Frame), frames # <<>>
    PROVE  /\ NoFlights(frames) => Head(frames).flight = NoFlight /\ NoFlights(Tail(frames))
           /\ \A flight : OneFlight(frames, flight) =>
                 \/ Head(frames).flight = flight /\ NoFlights(Tail(frames))
                 \/ Head(frames).flight = NoFlight /\ OneFlight(Tail(frames), flight)
  <1> DEFINE rest == Tail(frames)
             len == Len(frames)
  <1>1. /\ len \in Nat /\ len >= 1 /\ DOMAIN frames = 1 .. len /\ DOMAIN rest = 1 .. len - 1
        /\ Head(frames) = frames[1] /\ \A k \in 1 .. len - 1 : rest[k] = frames[k + 1]
    OBVIOUS
  <1>2. /\ 1 \in 1 .. len
        /\ \A k \in 1 .. len - 1 : k + 1 \in 1 .. len /\ k + 1 # 1
        /\ \A k \in 1 .. len : k # 1 => k - 1 \in 1 .. len - 1 /\ (k - 1) + 1 = k
        /\ \A k, l \in 1 .. len - 1 : k # l => k + 1 # l + 1
    BY <1>1
  <1> HIDE DEF rest, len
  <1>3. NoFlights(frames) => Head(frames).flight = NoFlight /\ NoFlights(rest)
    BY <1>1, <1>2 DEF NoFlights
  <1>4. ASSUME NEW flight, OneFlight(frames, flight)
        PROVE  \/ Head(frames).flight = flight /\ NoFlights(rest)
               \/ Head(frames).flight = NoFlight /\ OneFlight(rest, flight)
    <2>1. PICK k \in 1 .. len : /\ frames[k].flight = flight
                                /\ \A l \in 1 .. len : l # k => frames[l].flight = NoFlight
      BY <1>1, <1>4 DEF OneFlight
    <2>2. CASE k = 1
      BY <1>1, <1>2, <2>1, <2>2 DEF NoFlights
    <2>3. CASE k # 1
      <3>1. k - 1 \in 1 .. len - 1 /\ rest[k - 1].flight = flight
        BY <1>1, <1>2, <2>1, <2>3
      <3>2. \A l \in 1 .. len - 1 : l # k - 1 => rest[l].flight = NoFlight
        BY <1>1, <1>2, <2>1, <2>3
      <3> QED BY <1>1, <1>2, <2>1, <2>3, <3>1, <3>2 DEF OneFlight
    <2> QED BY <2>2, <2>3
  <1> QED BY <1>3, <1>4 DEF rest

LEMMA SendProgress ==
    ASSUME TypeOK, Progress, NEW s \in Side, Send(s)
    PROVE  Progress'
  <1> DEFINE m == sent[s] + 1
             frame == Sealed(s, m, session[s], out[s])
  <1>1. /\ session' = session /\ out' = [out EXCEPT ![s] = NoFlight]
        /\ net' = [net EXCEPT ![Peer(s)] = Append(@, frame)]
        /\ sent' = [sent EXCEPT ![s] = sent[s] + 1] /\ session[s] # "none"
    BY DEF Send
  <1>2. frame \in Frame /\ frame.flight = out[s]
    <2>1. m \in Nat /\ out[s] \in Flight
      BY DEF TypeOK
    <2> HIDE DEF m
    <2>2. frame \in Frame
      BY <2>1, FrameType
    <2>3. frame.flight = out[s]
      BY DEF Sealed
    <2> QED BY <2>2, <2>3
  <1> HIDE DEF frame
  <1>3. /\ net["client"] \in Seq(Frame) /\ net["server"] \in Seq(Frame)
        /\ sent["client"] \in Nat /\ sent["server"] \in Nat
    BY DEF TypeOK, Side
  <1>4. CASE s = "client"
    <2>1. /\ net'["server"] = Append(net["server"], frame) /\ net'["client"] = net["client"]
          /\ out'["client"] = NoFlight /\ out'["server"] = out["server"]
          /\ frame.flight = out["client"] /\ session["client"] # "none"
      BY <1>1, <1>2, <1>4 DEF TypeOK, Side, Peer
    <2>2. /\ NoFlights(net["server"]) /\ frame.flight = NoFlight => NoFlights(net'["server"])
          /\ NoFlights(net["server"]) => OneFlight(net'["server"], frame.flight)
          /\ \A flight : OneFlight(net["server"], flight) /\ frame.flight = NoFlight
                => OneFlight(net'["server"], flight)
      BY <1>2, <1>3, <2>1, FlightsAppend
    <2> QED BY <1>1, <2>1, <2>2
            DEF Progress, NotBegun, HelloHeld, HelloSent, ServerAnswered, ClientFinished,
                BothComplete, NothingHeld
  <1>5. CASE s = "server"
    <2>1. /\ net'["client"] = Append(net["client"], frame) /\ net'["server"] = net["server"]
          /\ out'["server"] = NoFlight /\ out'["client"] = out["client"]
          /\ frame.flight = out["server"] /\ sent'["client"] = sent["client"]
      BY <1>1, <1>2, <1>5 DEF TypeOK, Side, Peer
    <2>2. /\ NoFlights(net["client"]) /\ frame.flight = NoFlight => NoFlights(net'["client"])
          /\ \A flight : OneFlight(net["client"], flight) /\ frame.flight = NoFlight
                => OneFlight(net'["client"], flight)
          /\ net'["client"] # <<>>
      BY <1>2, <1>3, <2>1, FlightsAppend
    <2> QED BY <1>1, <2>1, <2>2
            DEF Progress, NotBegun, HelloHeld, HelloSent, ServerAnswered, ClientFinished,
                BothComplete, NothingHeld, Unread
  <1> QED BY <1>4, <1>5 DEF Side

(* A frame without a flight is read: what is held is shipped, if anything.   *)
LEMMA ReadNoFlight ==
    ASSUME TypeOK, NEW s \in Side, Decrypt(s), Head(net[s]).flight = NoFlight
    PROVE  /\ UNCHANGED <<session, sent>>
           /\ net'[s] = Tail(net[s]) /\ out' = [out EXCEPT ![s] = NoFlight]
           /\ out[s] = NoFlight => net'[Peer(s)] = net[Peer(s)]
           /\ out[s] # NoFlight => \E frame \in Frame :
                 frame.flight = out[s] /\ net'[Peer(s)] = Append(net[Peer(s)], frame)
  <1> DEFINE state == Advanced(s, Head(net[s]).flight)
             flight == Written(s, Head(net[s]).flight)
             frame == Sealed(s, Dummy, state, flight)
  <1>1. state = session[s] /\ flight = out[s]
    BY DEF Advanced, Written, Answer, NoFlight
  <1>2. frame \in Frame /\ frame.flight = flight
    <2>1. flight \in Flight
      BY <1>1 DEF TypeOK
    <2> HIDE DEF state, flight
    <2>2. frame \in Frame
      BY <2>1, FrameType, SideFacts
    <2>3. frame.flight = flight
      BY DEF Sealed
    <2> QED BY <2>2, <2>3
  <1>3. /\ session' = [session EXCEPT ![s] = state] /\ sent' = sent
        /\ \/ /\ flight # NoFlight
              /\ net' = [[net EXCEPT ![s] = Tail(@)] EXCEPT ![Peer(s)] = Append(@, frame)]
              /\ out' = [out EXCEPT ![s] = NoFlight]
           \/ /\ flight = NoFlight
              /\ net' = [net EXCEPT ![s] = Tail(@)]
              /\ out' = [out EXCEPT ![s] = flight]
    BY DEF Decrypt, MustFlush
  <1> HIDE DEF state, flight, frame
  <1>4. session' = session
    BY <1>1, <1>3 DEF TypeOK
  <1> QED BY <1>1, <1>2, <1>3, <1>4, SideFacts DEF TypeOK

(* A flight that has an answer is read before the reader is done: the answer *)
(* is shipped in the same step.                                              *)
LEMMA ReadFlight ==
    ASSUME TypeOK, NEW s \in Side, Decrypt(s), session[s] # "complete",
           Head(net[s]).flight \in {"ClientHello", "ServerFlight", "Finished"}
    PROVE  /\ session' = [session EXCEPT ![s] = Advanced(s, Head(net[s]).flight)]
           /\ net'[s] = Tail(net[s]) /\ out' = [out EXCEPT ![s] = NoFlight]
           /\ \E frame \in Frame : /\ frame.flight = Answer(Head(net[s]).flight)
                                   /\ net'[Peer(s)] = Append(net[Peer(s)], frame)
  <1> DEFINE state == Advanced(s, Head(net[s]).flight)
             flight == Written(s, Head(net[s]).flight)
             frame == Sealed(s, Dummy, state, flight)
  <1>1. flight = Answer(Head(net[s]).flight) /\ flight \in Flight /\ flight # NoFlight
    BY DEF Written, Answer, NoFlight, Flight
  <1>2. frame \in Frame /\ frame.flight = flight
    BY <1>1, FrameType, SideFacts DEF Sealed
  <1>3. /\ session' = [session EXCEPT ![s] = state]
        /\ net' = [[net EXCEPT ![s] = Tail(@)] EXCEPT ![Peer(s)] = Append(@, frame)]
        /\ out' = [out EXCEPT ![s] = NoFlight]
    BY <1>1 DEF Decrypt, MustFlush
  <1> HIDE DEF flight, frame
  <1> QED BY <1>1, <1>2, <1>3, SideFacts DEF TypeOK

LEMMA DecryptProgress ==
    ASSUME TypeOK, Progress, NEW s \in Side, Decrypt(s)
    PROVE  Progress'
  <1> DEFINE head == Head(net[s]).flight
  <1>1. /\ net["client"] \in Seq(Frame) /\ net["server"] \in Seq(Frame)
        /\ session[s] # "none" /\ net[s] # <<>>
        /\ Peer("client") = "server" /\ Peer("server") = "client"
    BY DEF TypeOK, Side, Decrypt, Peer
  <1>2. /\ NoFlights(net[s]) => head = NoFlight /\ NoFlights(Tail(net[s]))
        /\ \A flight : OneFlight(net[s], flight) =>
              \/ head = flight /\ NoFlights(Tail(net[s]))
              \/ head = NoFlight /\ OneFlight(Tail(net[s]), flight)
    BY <1>1, FlightsTail DEF Side
  <1>3. CASE BothComplete
    <2>1. session' = [session EXCEPT ![s] = Advanced(s, head)]
      BY DEF Decrypt
    <2>2. session'[s] = "complete"
      BY <1>3, <2>1 DEF BothComplete, Advanced, TypeOK, Side
    <2> QED BY <1>3, <2>1, <2>2 DEF BothComplete, Progress, TypeOK, Side
  <1>4. CASE head = NoFlight /\ ~BothComplete
    <2>1. /\ UNCHANGED <<session, sent>>
          /\ net'[s] = Tail(net[s]) /\ out' = [out EXCEPT ![s] = NoFlight]
          /\ out[s] = NoFlight => net'[Peer(s)] = net[Peer(s)]
          /\ out[s] # NoFlight => \E frame \in Frame :
                frame.flight = out[s] /\ net'[Peer(s)] = Append(net[Peer(s)], frame)
      BY <1>4, ReadNoFlight
    <2>2. CASE s = "client"
      <3>1. CASE HelloHeld
        <4>1. PICK frame \in Frame : /\ frame.flight = "ClientHello"
                                     /\ net'["server"] = Append(net["server"], frame)
          BY <1>1, <2>1, <2>2, <3>1 DEF HelloHeld, NoFlight
        <4>2. OneFlight(net'["server"], "ClientHello") /\ NoFlights(net'["client"])
          BY <1>1, <1>2, <2>1, <2>2, <3>1, <4>1, FlightsAppend DEF HelloHeld
        <4>3. HelloSent'
          BY <2>1, <2>2, <3>1, <4>2 DEF HelloHeld, HelloSent, NothingHeld, TypeOK, Side
        <4> QED BY <4>3 DEF Progress
      <3>2. CASE ~HelloHeld
        <4>1. NothingHeld /\ ~NotBegun
          BY <1>1, <1>4, <2>2, <3>2
          DEF Progress, NotBegun, HelloSent, ServerAnswered, ClientFinished
        <4>2. /\ net'["server"] = net["server"] /\ net'["client"] = Tail(net["client"])
              /\ NothingHeld'
          BY <1>1, <2>1, <2>2, <4>1 DEF NothingHeld, TypeOK, Side
        <4>3. HelloSent => HelloSent'
          BY <1>2, <2>1, <2>2, <4>2 DEF HelloSent
        <4>4. ServerAnswered => ServerAnswered'
          BY <1>2, <1>4, <2>1, <2>2, <4>2 DEF ServerAnswered, NoFlight
        <4>5. ClientFinished => ClientFinished'
          BY <1>2, <2>1, <2>2, <4>2 DEF ClientFinished
        <4> QED BY <1>4, <3>2, <4>1, <4>3, <4>4, <4>5 DEF Progress
      <3> QED BY <3>1, <3>2
    <2>3. CASE s = "server"
      <3>1. out["server"] = NoFlight
        BY <1>4 DEF Progress, NotBegun, HelloHeld, HelloSent, ServerAnswered, ClientFinished,
                    NothingHeld
      <3>2. /\ net'["client"] = net["client"] /\ net'["server"] = Tail(net["server"])
            /\ UNCHANGED <<session, sent>> /\ out'["client"] = out["client"]
            /\ out'["server"] = out["server"]
        BY <1>1, <2>1, <2>3, <3>1 DEF TypeOK, Side
      <3>3. NotBegun => NotBegun'
        BY <1>2, <2>3, <3>2 DEF NotBegun, NothingHeld, Unread
      <3>4. HelloHeld => HelloHeld'
        BY <1>2, <2>3, <3>2 DEF HelloHeld, Unread
      <3>5. HelloSent => HelloSent'
        BY <1>2, <1>4, <2>3, <3>2 DEF HelloSent, NothingHeld, NoFlight
      <3>6. ServerAnswered => ServerAnswered'
        BY <1>2, <2>3, <3>2 DEF ServerAnswered, NothingHeld
      <3>7. ClientFinished => ClientFinished'
        BY <1>2, <1>4, <2>3, <3>2 DEF ClientFinished, NothingHeld, NoFlight
      <3> QED BY <1>4, <3>3, <3>4, <3>5, <3>6, <3>7 DEF Progress
    <2> QED BY <2>2, <2>3 DEF Side
  <1>5. CASE head # NoFlight /\ ~BothComplete
    <2>1. \/ HelloSent /\ s = "server" /\ head = "ClientHello"
          \/ ServerAnswered /\ s = "client" /\ head = "ServerFlight"
          \/ ClientFinished /\ s = "server" /\ head = "Finished"
      BY <1>2, <1>5 DEF Progress, NotBegun, HelloHeld, HelloSent, ServerAnswered,
                        ClientFinished, Side
    <2>2. /\ NoFlights(Tail(net[s])) /\ NoFlights(net[Peer(s)]) /\ session[s] # "complete"
      BY <1>1, <1>2, <1>5, <2>1 DEF HelloSent, ServerAnswered, ClientFinished
    <2>3. /\ session' = [session EXCEPT ![s] = Advanced(s, head)]
          /\ net'[s] = Tail(net[s]) /\ out' = [out EXCEPT ![s] = NoFlight]
      BY <2>1, <2>2, ReadFlight
    <2>4. PICK frame \in Frame : /\ frame.flight = Answer(head)
                                 /\ net'[Peer(s)] = Append(net[Peer(s)], frame)
      BY <2>1, <2>2, ReadFlight
    <2>5. OneFlight(net'[Peer(s)], Answer(head)) /\ NoFlights(net'[s])
      BY <1>1, <2>2, <2>3, <2>4, FlightsAppend DEF Side
    <2>6. NothingHeld'
      BY <2>1, <2>3 DEF HelloSent, ServerAnswered, ClientFinished, NothingHeld, TypeOK, Side
    <2> HIDE DEF head
    <2>7. CASE HelloSent /\ s = "server" /\ head = "ClientHello"
      <3>1. ServerAnswered'
        BY <1>1, <2>3, <2>5, <2>6, <2>7
        DEF HelloSent, ServerAnswered, Advanced, Answer, TypeOK, Side
      <3> QED BY <3>1 DEF Progress
    <2>8. CASE ServerAnswered /\ s = "client" /\ head = "ServerFlight"
      <3>1. ClientFinished'
        BY <1>1, <2>3, <2>5, <2>6, <2>8
        DEF ServerAnswered, ClientFinished, Advanced, Answer, TypeOK, Side
      <3> QED BY <3>1 DEF Progress
    <2>9. CASE ClientFinished /\ s = "server" /\ head = "Finished"
      <3>1. BothComplete'
        BY <2>3, <2>9 DEF ClientFinished, BothComplete, Advanced, TypeOK, Side
      <3> QED BY <3>1 DEF Progress
    <2> QED BY <2>1, <2>7, <2>8, <2>9
  <1> QED BY <1>3, <1>4, <1>5

LEMMA ProgressStep == TypeOK /\ Progress /\ [Next]_vars => Progress'
  <1> SUFFICES ASSUME TypeOK, Progress, [Next]_vars PROVE Progress'
    OBVIOUS
  <1>1. ASSUME NEW s \in Side, NewSession(s) PROVE Progress'
    <2>1. /\ session' = [session EXCEPT ![s] = "handshaking"] /\ session[s] = "none"
          /\ UNCHANGED <<net, sent>>
          /\ s = "client" => session["server"] # "none"
          /\ out' = [out EXCEPT ![s] = IF s = "client" THEN "ClientHello" ELSE NoFlight]
      BY <1>1 DEF NewSession
    <2>2. NotBegun
      BY <2>1 DEF Progress, NotBegun, HelloHeld, HelloSent, ServerAnswered, ClientFinished,
                  BothComplete, Side
    <2>3. /\ NoFlights(net["client"])' /\ NoFlights(net["server"])' /\ Unread'
      BY <2>1, <2>2 DEF NotBegun, NoFlights, Unread
    <2>4. CASE s = "client"
      <3>1. /\ session'["client"] = "handshaking" /\ session'["server"] = session["server"]
            /\ out'["client"] = "ClientHello" /\ out'["server"] = out["server"]
            /\ session["server"] \in {"none", "handshaking", "complete"}
        BY <2>1, <2>4 DEF TypeOK, Side
      <3>2. HelloHeld'
        BY <2>1, <2>2, <2>3, <2>4, <3>1 DEF NotBegun, HelloHeld, NothingHeld
      <3> QED BY <3>2 DEF Progress
    <2>5. CASE s = "server"
      <3>1. /\ session'["server"] = "handshaking" /\ session'["client"] = session["client"]
            /\ out'["server"] = NoFlight /\ out'["client"] = out["client"]
        BY <2>1, <2>5 DEF TypeOK, Side
      <3>2. NotBegun'
        BY <2>2, <2>3, <3>1 DEF NotBegun, NothingHeld
      <3> QED BY <3>2 DEF Progress
    <2> QED BY <2>4, <2>5 DEF Side
  <1>2. CASE UNCHANGED vars
    BY <1>2 DEF vars, Progress, NotBegun, HelloHeld, HelloSent, ServerAnswered, ClientFinished,
                BothComplete, NothingHeld, Unread
  <1> QED BY <1>1, <1>2, SendProgress, DecryptProgress DEF Next, SideStep

(* One message is enough: as long as the handshake is not complete on both   *)
(* sides something is on its way, whoever sent first and however the flights *)
(* and the messages interleave.                                              *)
THEOREM Proceeds == Spec => []NeverStalls
  <1>1. Init => Progress
    BY DEF Init, Progress, NotBegun, NothingHeld, Unread, NoFlights, Side
  <1>2. TypeOK /\ Progress => NeverStalls
    <2> SUFFICES ASSUME TypeOK, Progress, NEW p \in Side, sent[p] > 0,
                        \A s \in Side : session[s] # "none" /\ net[s] = <<>>
                 PROVE  \A s \in Side : session[s] = "complete"
      BY DEF NeverStalls
    <2>1. "client" \in Side /\ "server" \in Side /\ p \in {"client", "server"}
      BY DEF Side
    <2>2. ~Unread
      BY <2>1 DEF Unread, TypeOK
    <2>3. \A flight : ~OneFlight(net["client"], flight) /\ ~OneFlight(net["server"], flight)
      BY <2>1 DEF OneFlight
    <2>4. BothComplete
      BY <2>2, <2>3 DEF Progress, NotBegun, HelloHeld, HelloSent, ServerAnswered, ClientFinished
    <2> QED BY <2>4 DEF BothComplete, Side
  <1> QED BY <1>1, <1>2, TypeCorrect, ProgressStep, PTL DEF Spec
=============================================================================
