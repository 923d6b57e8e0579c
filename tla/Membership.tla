----------------------------- MODULE Membership -----------------------------
(* What enrolment promises to the transport and the encryptors, without      *)
(* files, requests, retries or crashes between two of them: a member's keys  *)
(* and the certificates it holds appear one at a time and whole, are never   *)
(* replaced, and all go together when its host is set up anew.               *)
EXTENDS Integers

CONSTANT Node

VARIABLES
    made,       \* made[n]: the number of keys n has generated
    key,        \* key[n]: its present PKI key, None if it has not one
    certified,  \* certified[n]: the key its own certificate was issued for
    signing,    \* signing[n]: its private signing key
    public,     \* public[n]: its public signing key
    known,      \* known[n][m]: the key that n's certificate of m was issued for
    running     \* running[n]: has n started Raft?

vars == <<made, key, certified, signing, public, known, running>>

None == 0
NoPeers == [m \in Node |-> None]

Init ==
    /\ made = [n \in Node |-> 0]
    /\ key = [n \in Node |-> None]
    /\ certified = [n \in Node |-> None]
    /\ signing = [n \in Node |-> None]
    /\ public = [n \in Node |-> None]
    /\ known = [n \in Node |-> NoPeers]
    /\ running = [n \in Node |-> FALSE]

MakeKey(n) ==
    /\ key[n] = None
    /\ made' = [made EXCEPT ![n] = @ + 1]
    /\ key' = [key EXCEPT ![n] = made[n] + 1]
    /\ UNCHANGED <<certified, signing, public, known, running>>

Certify(n) ==
    /\ key[n] # None /\ certified[n] = None
    /\ certified' = [certified EXCEPT ![n] = key[n]]
    /\ UNCHANGED <<made, key, signing, public, known, running>>

MakeSigningKey(n) ==
    /\ signing[n] = None
    /\ made' = [made EXCEPT ![n] = @ + 1]
    /\ signing' = [signing EXCEPT ![n] = made[n] + 1]
    /\ UNCHANGED <<key, certified, public, known, running>>

Publish(n) ==
    /\ signing[n] # None /\ public[n] = None
    /\ public' = [public EXCEPT ![n] = signing[n]]
    /\ UNCHANGED <<made, key, certified, signing, known, running>>

(* A certificate of a peer, for a key the peer has made. *)
Learn(n, m) ==
    /\ ~running[n] /\ n # m /\ known[n][m] = None
    /\ known'[n][m] \in 1 .. made[m]
    /\ known' = [known EXCEPT ![n][m] = known'[n][m]]
    /\ UNCHANGED <<made, key, certified, signing, public, running>>

Run(n) ==
    /\ ~running[n] /\ key[n] # None
    /\ running' = [running EXCEPT ![n] = TRUE]
    /\ UNCHANGED <<made, key, certified, signing, public, known>>

Stop(n) ==
    /\ running[n]
    /\ running' = [running EXCEPT ![n] = FALSE]
    /\ UNCHANGED <<made, key, certified, signing, public, known>>

SetUpAnew(n) ==
    /\ ~running[n]
    /\ key' = [key EXCEPT ![n] = None]
    /\ certified' = [certified EXCEPT ![n] = None]
    /\ signing' = [signing EXCEPT ![n] = None]
    /\ public' = [public EXCEPT ![n] = None]
    /\ known' = [known EXCEPT ![n] = NoPeers]
    /\ UNCHANGED <<made, running>>

(* Most of what a startup and the CA do is not seen here.                    *)
Next ==
    \/ UNCHANGED vars
    \/ \E n \in Node :
          \/ MakeKey(n) \/ Certify(n) \/ MakeSigningKey(n) \/ Publish(n)
          \/ \E m \in Node : Learn(n, m)
          \/ Run(n) \/ Stop(n) \/ SetUpAnew(n)

Spec == Init /\ [][Next]_vars
=============================================================================
