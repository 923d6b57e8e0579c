--------------------------- MODULE PeerDirectory ---------------------------
(* What the transport promises to SyncObj, without connections or messages:  *)
(* a node is told of a peer only together with a signing key that the peer   *)
(* itself has published, unless a set-up of that peer was interrupted such   *)
(* that its handshakes prove nothing, and forgets everything when its        *)
(* process ends.                                                             *)
EXTENDS Integers

CONSTANTS Node, MaxKey, Deployments

VARIABLES
    disk,       \* disk[n][k]: what the k-th deployment of n leaves on its disk
    alive,      \* alive[n]: the process of n is running
    signKey,    \* signKey[n]: the present deployment of n, and its signing key
    peerKey,    \* peerKey[n][m]: the key n holds for m, 0 if none
    up          \* up[n]: the peers n considers connected

vars == <<disk, alive, signKey, peerKey, up>>

Init ==
    /\ disk \in Deployments
    /\ alive = [n \in Node |-> TRUE]
    /\ signKey = [n \in Node |-> 1]
    /\ peerKey = [n \in Node |-> [m \in Node |-> 0]]
    /\ up = [n \in Node |-> {}]

(* A peer is reported, with a key of its own - perhaps not its newest one. *)
Report(n, m) ==
    /\ alive[n] /\ n # m
    /\ \E k \in 1 .. signKey[m] :
          \/ /\ disk[m][k] = "valid"
             /\ peerKey' = [peerKey EXCEPT ![n][m] = k]
          \/ /\ disk[m][k] = "blank" \/ (disk[m][k] = "unsigned" /\ n > m)
             /\ UNCHANGED peerKey
    /\ up' = [up EXCEPT ![n] = @ \cup {m}]
    /\ UNCHANGED <<disk, alive, signKey>>

Withdraw(n, m) ==
    /\ alive[n] /\ m \in up[n]
    /\ up' = [up EXCEPT ![n] = @ \ {m}]
    /\ UNCHANGED <<disk, alive, signKey, peerKey>>

Stop(n) ==
    /\ alive[n]
    /\ alive' = [alive EXCEPT ![n] = FALSE]
    /\ peerKey' = [peerKey EXCEPT ![n] = [m \in Node |-> 0]]
    /\ up' = [up EXCEPT ![n] = {}]
    /\ UNCHANGED <<disk, signKey>>

Start(n) ==
    /\ ~alive[n]
    /\ alive' = [alive EXCEPT ![n] = TRUE]
    /\ \E k \in {signKey[n], signKey[n] + 1} \cap 1 .. MaxKey :
          signKey' = [signKey EXCEPT ![n] = k]
    /\ UNCHANGED <<disk, peerKey, up>>

Next ==
    \E n \in Node :
        \/ Stop(n)
        \/ Start(n)
        \/ \E m \in Node : Report(n, m) \/ Withdraw(n, m)

Spec == Init /\ [][Next]_vars
=============================================================================
