------------------------------ MODULE Channel ------------------------------
(* What one direction of a connection promises the Raft library above the    *)
(* transport: the messages handed to it are passed on at the other end in    *)
(* the order they were sent and never twice.  It does not promise that each  *)
(* arrives: Raft repeats what is not answered.                               *)
EXTENDS Naturals, Sequences

VARIABLES
    sent,       \* how many messages were sent: they are numbered from 1
    delivered   \* the numbers of those that were passed on, in order

Init == sent = 0 /\ delivered = <<>>

Ship == sent' = sent + 1 /\ UNCHANGED delivered

(* A message that was sent, later than all that were passed on already. *)
PassOn(m) ==
    /\ \A i \in DOMAIN delivered : delivered[i] < m
    /\ delivered' = Append(delivered, m)
    /\ UNCHANGED sent

Next == Ship \/ \E m \in 1..sent : PassOn(m)

Spec == Init /\ [][Next]_<<sent, delivered>>
=============================================================================
