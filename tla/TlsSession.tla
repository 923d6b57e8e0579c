----------------------------- MODULE TlsSession -----------------------------
(* TLS mode (--tls): a TLS_Session (src/Cryptography/TLS/tls_session.py) at  *)
(* each end of a connection whose signed handshake is done.  The TLS 1.3     *)
(* handshake is carried inside the connection's ordinary messages, whichever *)
(* way they happen to flow; data that is sent before it has finished waits   *)
(* in the session.                                                           *)
(*                                                                           *)
(* The TLS engine (ssl.SSLObject with its two memory buffers) is external:   *)
(* modelled are the flights it asks to be carried and when it is done.  TCP  *)
(* keeps the order; a connection that breaks takes both sessions with it, so *)
(* this module follows one connection.  Each side numbers the messages it    *)
(* sends from 1.                                                             *)
EXTENDS Integers, Sequences, Functions

CONSTANT MaxSend    \* bound: the messages each side is given to send

ASSUME MaxSendAssumption == MaxSend \in Nat

VARIABLES
    session,    \* session[s]: none yet, handshaking, or handshake_complete
    pending,    \* pending[s]: _pending_plaintext_out
    out,        \* out[s]: the handshake flight in out_bio
    net,        \* net[s]: the messages on their way to s
    sent,       \* sent[s]: how many messages s was given to send
    queued,     \* queued[s]: history: how many of them before it could write
    delivered   \* delivered[s]: the messages of its peer passed on at s

vars == <<session, pending, out, net, sent, queued, delivered>>
-----------------------------------------------------------------------------
(* The dialling side is the client (_is_client_for compares the addresses as *)
(* _shouldConnect does).                                                     *)
Side == {"client", "server"}
Peer(s) == IF s = "client" THEN "server" ELSE "client"

(* b'', what the flush callback sends: it is shorter than any signed message *)
(* and dropped by the receiver.                                              *)
Dummy == 0

(* The flights of the TLS handshake.  The engine answers each with the next  *)
(* one, and never holds two: it writes again only after its peer has seen    *)
(* what it wrote.                                                            *)
NoFlight == "none"
Flight == {NoFlight, "ClientHello", "ServerFlight", "Finished", "Tickets"}
Answer(flight) ==
    CASE flight = "ClientHello"  -> "ServerFlight"
      [] flight = "ServerFlight" -> "Finished"
      [] flight = "Finished"     -> "Tickets"
      [] OTHER                   -> NoFlight

(* One message of the connection: a flight, and the plaintexts written to    *)
(* the engine with one write, which the receiver reads as one.               *)
Frame == [flight: Flight, app: Seq(Nat)]

TypeOK ==
    /\ session \in [Side -> {"none", "handshaking", "complete"}]
    /\ pending \in [Side -> Seq(Nat)]
    /\ out \in [Side -> Flight]
    /\ net \in [Side -> Seq(Frame)]
    /\ sent \in [Side -> Nat]
    /\ queued \in [Side -> Nat]
    /\ delivered \in [Side -> Seq(Nat \ {Dummy})]

Init ==
    /\ session = [s \in Side |-> "none"]
    /\ pending = [s \in Side |-> <<>>]
    /\ out = [s \in Side |-> NoFlight]
    /\ net = [s \in Side |-> <<>>]
    /\ sent = [s \in Side |-> 0]
    /\ queued = [s \in Side |-> 0]
    /\ delivered = [s \in Side |-> <<>>]
-----------------------------------------------------------------------------
(* The constructor, run by the handshake handlers of the transport: the      *)
(* server's in the handler that answers the client's handshake, the client's *)
(* when that answer arrives.  The client's engine writes its first flight.   *)
NewSession(s) ==
    /\ session[s] = "none"
    /\ s = "client" => session["server"] # "none"
    /\ session' = [session EXCEPT ![s] = "handshaking"]
    /\ out' = [out EXCEPT ![s] = IF s = "client" THEN "ClientHello" ELSE NoFlight]
    /\ UNCHANGED <<pending, net, sent, queued, delivered>>

(* Mutant: what is pending is never cleared.                                 *)
Waiting_NeverCleared(s, data, state) ==
    IF state = "complete" THEN pending[s] ELSE Append(pending[s], data)

(* encrypt_at_time, given the state and the flight the session is in: all    *)
(* that is pending is written together with data, or data has to wait.       *)
Sealed(s, data, state, flight) ==
    [flight |-> flight,
     app |-> IF state = "complete" THEN Append(pending[s], data) ELSE <<>>]

Waiting(s, data, state) ==
    IF state = "complete" THEN <<>> ELSE Append(pending[s], data)

(* send: the connection ships a message through its encryptor.               *)
Send(s) ==
    LET m == sent[s] + 1 IN
    /\ session[s] # "none"
    /\ m <= MaxSend
    /\ sent' = [sent EXCEPT ![s] = m]
    /\ queued' = [queued EXCEPT ![s] = IF session[s] = "complete" THEN @ ELSE m]
    /\ net' = [net EXCEPT ![Peer(s)] =
                 Append(@, Sealed(s, m, session[s], out[s]))]
    /\ pending' = [pending EXCEPT ![s] = Waiting(s, m, session[s])]
    /\ out' = [out EXCEPT ![s] = NoFlight]
    /\ UNCHANGED <<session, delivered>>

(* _try_complete_handshake on the flight of a message that has arrived.      *)
Advanced(s, flight) ==
    IF flight \in {"ServerFlight", "Finished"} THEN "complete" ELSE session[s]

Written(s, flight) ==
    IF session[s] = "complete" \/ Answer(flight) = NoFlight
    THEN out[s] ELSE Answer(flight)

(* Mutants: nothing is ever flushed; the flush does not look at out_bio.     *)
MustFlush_Never(flight) == FALSE
MustFlush_Always(flight) == TRUE

(* _flush_if_pending: is there a flight to push out?                         *)
MustFlush(flight) == flight # NoFlight

(* What the receiver makes of the plaintext of one message: the concatenated *)
(* streams are decompressed up to the end of the first, the rest is ignored. *)
Lead(app) == IF app = <<>> THEN Dummy ELSE Head(app)

(* b'' and the None that stands for an empty plaintext are dropped.          *)
Passed(app) == IF Lead(app) = Dummy THEN <<>> ELSE <<Lead(app)>>

(* decrypt: feed the engine, push out the flight it wrote, read what is      *)
(* there.  Data follows the flight that lets the receiver finish, so it is   *)
(* never in a frame the receiver cannot read yet.                            *)
Decrypt(s) ==
    LET frame == Head(net[s])
        state == Advanced(s, frame.flight)
        flight == Written(s, frame.flight)
        rest == [net EXCEPT ![s] = Tail(@)]
    IN
    /\ session[s] # "none"
    /\ net[s] # <<>>
    /\ session' = [session EXCEPT ![s] = state]
    /\ delivered' = [delivered EXCEPT ![s] = @ \o Passed(frame.app)]
    /\ \/ /\ MustFlush(flight)
          /\ net' = [rest EXCEPT ![Peer(s)] =
                       Append(@, Sealed(s, Dummy, state, flight))]
          /\ pending' = [pending EXCEPT ![s] = Waiting(s, Dummy, state)]
          /\ out' = [out EXCEPT ![s] = NoFlight]
       \/ /\ ~MustFlush(flight)
          /\ net' = rest
          /\ out' = [out EXCEPT ![s] = flight]
          /\ UNCHANGED pending
    /\ UNCHANGED <<sent, queued>>

SideStep(s) ==
    \/ NewSession(s)
    \/ Decrypt(s)
    \/ Send(s)

Next == \E s \in Side : SideStep(s)

Spec == Init /\ [][Next]_vars

(* The transport's handlers create both sessions, and its poll loop reads    *)
(* what arrives.  Nothing makes SyncObj send.                                *)
Fairness == \A s \in Side : WF_vars(NewSession(s)) /\ WF_vars(Decrypt(s))

FairSpec == Spec /\ Fairness
-----------------------------------------------------------------------------
(* Each direction of the connection is a Channel: what is passed on was      *)
(* sent, at most once and in the order it was sent - although it crosses a   *)
(* queue that both Send and the flush fill and empty.                        *)
ToServer == INSTANCE Channel WITH sent <- sent["client"], delivered <- delivered["server"]
ToClient == INSTANCE Channel WITH sent <- sent["server"], delivered <- delivered["client"]

ImplementsChannel == ToServer!Spec /\ ToClient!Spec

(* Finishing the handshake empties the queue at once, on either side: no     *)
(* message waits in it for a next one that may never come.                   *)
NothingStranded ==
    \A s \in Side : session[s] = "complete" => pending[s] = <<>>

(* Once everything that was shipped has been read, the only messages that    *)
(* can be missing are those sent before the sender's handshake had finished, *)
(* which went through the queue: what is sent later always arrives.          *)
Quiet == \A s \in Side : net[s] = <<>> /\ session[s] = "complete"

OnlyQueuedAreLost ==
    Quiet => \A s \in Side : (queued[s] + 1)..sent[s] \subseteq Range(delivered[Peer(s)])

(* The handshake never waits for a second message: once a message has been   *)
(* sent, by whichever side and however early, there is always something on   *)
(* its way until both sides are complete.                                    *)
NeverStalls ==
    (\A s \in Side : session[s] # "none" /\ net[s] = <<>>) /\ (\E s \in Side : sent[s] > 0)
    => \A s \in Side : session[s] = "complete"

(* A single message, sent by whichever side, is enough to bring the whole    *)
(* handshake about.                                                          *)
HandshakeCompletes ==
    (\E s \in Side : sent[s] > 0) ~> \A s \in Side : session[s] = "complete"

(* The dummy messages the sessions send each other come to an end.           *)
Settles == <>[](\A s \in Side : net[s] = <<>>)

(* What set_flush_callback says: flights are pushed out immediately "instead *)
(* of waiting for the next real Raft message", so none stays behind.         *)
FlightsPushedOut == \A s \in Side : out[s] = NoFlight
=============================================================================
