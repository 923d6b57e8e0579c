--------------------------- MODULE EnvelopeProofs ---------------------------
(* Proofs about the envelope: whatever the bytes of a message and the        *)
(* addresses in front of it are, a signed message is unwrapped as it was     *)
(* wrapped.                                                                  *)
EXTENDS Envelope, SequenceTheorems, TLAPS

(* The first of some positions is the one that no other precedes.            *)
LEMMA FirstIsLeast ==
    ASSUME NEW set \in SUBSET Nat, NEW l \in set, \A i \in set : l <= i
    PROVE  First(set) = l
<1>1. First(set) \in set /\ \A j \in set : First(set) <= j
  BY DEF First
<1>2. First(set) <= l /\ l <= First(set) /\ First(set) \in Nat /\ l \in Nat
  BY <1>1
<1> HIDE DEF First
<1> QED
  BY <1>2

(* A text between an address part without bars and a message: its first      *)
(* separator is the one in between.                                          *)
LEMMA FirstSeparator ==
    ASSUME NEW body \in Seq(Byte), NEW l \in Nat, l + 2 <= Len(body),
           \A i \in 1 .. l : body[i] # Bar, body[l + 1] = Bar, body[l + 2] = Bar
    PROVE  Behind(body) = SubSeq(body, l + 3, Len(body))
<1>1. Len(body) \in Nat
  BY LenProperties
<1>2. l + 1 \in Separators(body)
  <2>1. l + 1 \in 1 .. Len(body) - 1 /\ (l + 1) + 1 = l + 2
    BY <1>1
  <2> QED
    BY <2>1 DEF Separators
<1>3. Separators(body) \in SUBSET Nat
  BY <1>1 DEF Separators
<1>4. \A i \in Separators(body) : l + 1 <= i
  BY <1>1, <1>3 DEF Separators
<1>5. First(Separators(body)) = l + 1
  BY <1>2, <1>3, <1>4, FirstIsLeast
<1> QED
  BY <1>2, <1>5 DEF Behind

(* Two sequences one behind the other.                                       *)
LEMMA Joined ==
    ASSUME NEW s \in Seq(Byte), NEW t \in Seq(Byte)
    PROVE  /\ s \o t \in Seq(Byte) /\ Len(s \o t) = Len(s) + Len(t)
           /\ \A i \in 1 .. Len(s) : (s \o t)[i] = s[i]
           /\ \A i \in 1 .. Len(t) : (s \o t)[Len(s) + i] = t[i]
<1> DEFINE k == Len(s)
           n == Len(t)
           r == s \o t
<1>1. /\ k \in Nat /\ n \in Nat /\ r \in Seq(Byte) /\ Len(r) = k + n
      /\ \A i \in 1 .. k + n : r[i] = IF i <= k THEN s[i] ELSE t[i - k]
  BY LenProperties, ConcatProperties, Zenon
<1> HIDE DEF k, n, r
<1>2. \A i \in 1 .. k : r[i] = s[i]
  BY <1>1
<1>3. ASSUME NEW i \in 1 .. n PROVE r[k + i] = t[i]
  <2>1. k + i \in 1 .. k + n /\ ~(k + i <= k) /\ (k + i) - k = i
    BY <1>1
  <2> QED
    BY <1>1, <2>1, Zenon
<1>4. \A i \in 1 .. n : r[k + i] = t[i]
  BY <1>3
<1> QED
  BY <1>1, <1>2, <1>4 DEF k, n, r

(* What _unwrap_and_verify leaves of what sign has put together: of an       *)
(* address part without bars, a separator and a message.                     *)
LEMMA BehindParts ==
    ASSUME NEW id \in Seq(Byte), \A i \in 1 .. Len(id) : id[i] # Bar,
           NEW sep \in Seq(Byte), Len(sep) = 2, sep[1] = Bar, sep[2] = Bar,
           NEW m \in Seq(Byte)
    PROVE  Behind(id \o sep \o m) = m
<1> DEFINE l == Len(id)
           front == id \o sep
           body == front \o m
<1>2. l \in Nat /\ \A i \in 1 .. l : id[i] # Bar
  BY LenProperties
<1>3. Len(m) \in Nat
  BY LenProperties
<1>4. /\ front \in Seq(Byte) /\ Len(front) = l + 2
      /\ \A i \in 1 .. l : front[i] = id[i]
      /\ front[l + 1] = Bar /\ front[l + 2] = Bar
  <2>1. /\ front \in Seq(Byte) /\ Len(front) = l + Len(sep)
        /\ \A i \in 1 .. l : front[i] = id[i]
        /\ \A i \in 1 .. Len(sep) : front[l + i] = sep[i]
    BY Joined, Zenon
  <2>2. 1 \in 1 .. 2 /\ 2 \in 1 .. 2
    OBVIOUS
  <2> HIDE DEF front, l
  <2> QED
    BY <2>1, <2>2
<1>5. /\ body \in Seq(Byte) /\ Len(body) = l + 2 + Len(m)
      /\ \A i \in 1 .. l : body[i] # Bar
      /\ body[l + 1] = Bar /\ body[l + 2] = Bar
      /\ \A i \in 1 .. Len(m) : body[l + 2 + i] = m[i]
  <2> HIDE DEF front, l
  <2>1. /\ body \in Seq(Byte) /\ Len(body) = Len(front) + Len(m)
        /\ \A i \in 1 .. Len(front) : body[i] = front[i]
        /\ \A i \in 1 .. Len(m) : body[Len(front) + i] = m[i]
    BY <1>4, Joined, Zenon
  <2> HIDE DEF body
  <2> QED
    BY <1>2, <1>4, <2>1
<1> HIDE DEF body, l
<1>6. Behind(body) = SubSeq(body, l + 3, Len(body))
  <2>1. l + 2 <= Len(body)
    BY <1>2, <1>3, <1>5
  <2> QED
    BY <1>2, <1>5, <2>1, FirstSeparator
<1>7. SubSeq(body, l + 3, Len(body)) = m
  <2> DEFINE rest == SubSeq(body, l + 3, Len(body))
  <2>1. \A i \in l + 3 .. Len(body) : body[i] \in Byte
    BY <1>2, <1>3, <1>5, ElementOfSeq
  <2>2. l + 3 \in Int /\ Len(body) \in Int
    BY <1>2, <1>3, <1>5
  <2>3. /\ rest \in Seq(Byte)
        /\ Len(rest) = IF l + 3 <= Len(body) THEN Len(body) - (l + 3) + 1 ELSE 0
        /\ \A i \in 1 .. Len(body) - (l + 3) + 1 : rest[i] = body[(l + 3) + i - 1]
    BY <2>1, <2>2, SubSeqProperties
  <2> HIDE DEF rest
  <2>4. Len(rest) = Len(m)
    BY <1>2, <1>3, <1>5, <2>3
  <2>5. \A i \in 1 .. Len(m) : rest[i] = m[i]
    <3> TAKE i \in 1 .. Len(m)
    <3>1. (l + 3) + i - 1 = l + 2 + i /\ i \in 1 .. Len(body) - (l + 3) + 1
      BY <1>2, <1>3, <1>5
    <3> QED
      BY <1>5, <2>3, <3>1
  <2>6. rest = m
    BY <2>3, <2>4, <2>5, SeqEqual
  <2> QED
    BY <2>6 DEF rest
<1> QED
  BY <1>6, <1>7 DEF body

LEMMA BehindIdentity ==
    ASSUME NEW m \in Seq(Byte)
    PROVE  Behind(Identity \o Separator \o m) = m
<1>1. /\ Separator \in Seq(Byte) /\ Len(Separator) = 2
      /\ Separator[1] = Bar /\ Separator[2] = Bar
  BY DEF Separator, Byte
<1>2. Identity \in Seq(Byte) /\ \A i \in 1 .. Len(Identity) : Identity[i] # Bar
  <2>1. Identity \in [1 .. Len(Identity) -> {Other}] /\ Len(Identity) \in Nat
    BY IdentityAssumption, LenProperties
  <2>2. Other # Bar
    BY DEF Other, Bar
  <2> QED
    BY IdentityAssumption, <2>1, <2>2 DEF Byte
<1> QED
  BY <1>1, <1>2, BehindParts

(* What is wrapped with a key is a signature of that key and, unwrapped, the *)
(* message.                                                                  *)
LEMMA Signed ==
    ASSUME NEW m \in Seq(Byte), NEW key \in Key, key # NoKey, crypto
    PROVE  Wrap(m, key).signature = key /\ Unwrapped(Wrap(m, key)) = m
BY BehindIdentity DEF Wrap, Unwrapped

-----------------------------------------------------------------------------
(* The types: messages, keys and envelopes are what they should be.          *)
LEMMA WrappedType ==
    ASSUME NEW m \in Seq(Byte), NEW key \in Key, crypto \in BOOLEAN
    PROVE  Wrap(m, key) \in Wrapped
<1>1. Separator \in Seq(Byte) /\ Identity \in Seq(Byte)
  <2>1. Separator \in Seq(Byte)
    BY DEF Separator, Byte
  <2>2. Seq({Other}) \subseteq Seq(Byte)
    <3> SUFFICES ASSUME NEW s \in Seq({Other}) PROVE s \in Seq(Byte)
      OBVIOUS
    <3>1. s \in [1 .. Len(s) -> {Other}] /\ Len(s) \in Nat
      BY LenProperties
    <3> QED
      BY <3>1 DEF Byte
  <2> QED
    BY IdentityAssumption, <2>1, <2>2
<1>2. Identity \o Separator \o m \in Seq(Byte)
  BY <1>1, ConcatProperties
<1>3. NoKey \in Key
  BY MaxKeyAssumption DEF NoKey, Key
<1> QED
  BY <1>2, <1>3 DEF Wrap, Wrapped

LEMMA WireStaysTyped ==
    ASSUME TypeOK, NEW m, m = <<Wrap(message, private)>>
    PROVE  Len(m) = 1 /\ m[1] \in Wrapped /\ m[1] = Wrap(message, private)
<1>1. message \in Seq(Byte) /\ private \in Key /\ crypto \in BOOLEAN
  BY MessageAssumption DEF TypeOK
<1> QED
  BY <1>1, WrappedType

LEMMA Rewrapped ==
    ASSUME NEW m, NEW key
    PROVE  Wrap(m, key) = Wrap(m, Wrap(m, key).signature)
BY DEF Wrap

LEMMA InitInv == Init => IndInv
<1>1. 0 \in Key
  BY MaxKeyAssumption DEF Key
<1> QED
  BY <1>1 DEF Init, IndInv, TypeOK, WireIsMessage, NoKey

(* A step that sends nothing keeps what is said about the envelope.          *)
LEMMA KeptInv ==
    ASSUME IndInv, UNCHANGED fixed, wire' \in {wire, Nothing},
           made' \in Key /\ private' \in Key /\ stored' \in Key,
           shown' \in BOOLEAN /\ certified' \in BOOLEAN,
           linked' \in BOOLEAN, arrived' \in BOOLEAN
    PROVE  IndInv'
<1>1. TypeOK'
  BY DEF IndInv, TypeOK, fixed
<1>2. WireIsMessage'
  BY DEF IndInv, WireIsMessage, fixed, Wrap
<1> QED
  BY <1>1, <1>2 DEF IndInv

LEMMA StepInv == IndInv /\ [Next]_vars => IndInv'
<1> SUFFICES ASSUME IndInv, [Next]_vars PROVE IndInv'
  OBVIOUS
<1>0. /\ made \in Key /\ private \in Key /\ stored \in Key /\ NoKey \in Key
      /\ shown \in BOOLEAN /\ certified \in BOOLEAN /\ linked \in BOOLEAN /\ arrived \in BOOLEAN
  BY MaxKeyAssumption DEF IndInv, TypeOK, Key, NoKey
<1>1. CASE Send
  <2>1. Len(wire') = 1 /\ wire'[1] \in Wrapped /\ wire'[1] = Wrap(message, private)
    BY <1>1, WireStaysTyped DEF Send, IndInv
  <2>2. wire'[1] = Wrap(message, wire'[1].signature)
    BY <2>1, Rewrapped
  <2>3. UNCHANGED <<fixed, disk, stored, linked, arrived>>
    BY <1>1 DEF Send
  <2>4. WireIsMessage'
    BY <2>2, <2>3 DEF WireIsMessage, Wrap, fixed
  <2>5. TypeOK'
    BY <2>1, <2>3 DEF IndInv, TypeOK, fixed, disk
  <2> QED
    BY <2>4, <2>5 DEF IndInv
<1>2. CASE Receive
  <2>1. arrived' \in BOOLEAN
    BY <1>2 DEF Receive
  <2> QED
    BY <1>0, <1>2, <2>1, KeptInv DEF Receive, disk
<1>3. CASE Break
  BY <1>0, <1>3, KeptInv DEF Break, disk
<1>4. CASE Handshake
  BY <1>0, <1>4, KeptInv DEF Handshake, disk
<1>5. CASE SenderDeployed
  <2>1. made + 1 \in Key
    BY <1>0, <1>5, MaxKeyAssumption DEF SenderDeployed, Key
  <2>2. made' \in Key /\ private' \in Key /\ shown' \in BOOLEAN /\ certified' \in BOOLEAN
    BY <1>0, <1>5, <2>1 DEF SenderDeployed, SetUp
  <2>3. UNCHANGED <<fixed, stored, wire, arrived>> /\ linked' = FALSE
    BY <1>5 DEF SenderDeployed
  <2> QED
    BY <1>0, <2>2, <2>3, KeptInv
<1>6. CASE ReceiverStarts
  BY <1>0, <1>6, KeptInv DEF ReceiverStarts, disk
<1>7. CASE UNCHANGED vars
  BY <1>0, <1>7, KeptInv DEF vars, disk
<1> QED
  BY <1>1, <1>2, <1>3, <1>4, <1>5, <1>6, <1>7 DEF Next

(* What is on its way is the message, wrapped with the key of its signature. *)
THEOREM Invariant == Spec => []IndInv
<1>1. Init => IndInv
  BY InitInv
<1>2. IndInv /\ [Next]_vars => IndInv'
  BY StepInv
<1> QED
  BY <1>1, <1>2, PTL DEF Spec

(* A signed message arrives where its key is stored, or none, whatever the   *)
(* bytes of the message: for messages and addresses of every length.         *)
THEOREM Arrival == Spec => SignedArrives
<1>1. ASSUME IndInv, Receive, wire[1].signature # NoKey,
             stored \in {NoKey, wire[1].signature}
      PROVE  arrived'
  <2> DEFINE key == wire[1].signature
  <2>1. key \in Key /\ message \in Seq(Byte) /\ wire[1] = Wrap(message, key)
    BY <1>1, MessageAssumption
    DEF Receive, IndInv, TypeOK, WireIsMessage, Wrapped
  <2>2. crypto
    BY <1>1, <2>1 DEF Wrap, IndInv, TypeOK
  <2>3. Unwrapped(wire[1]) = message
    BY <1>1, <2>1, <2>2, Signed
  <2>4. Verifies(wire[1], stored)
    BY <1>1 DEF Verifies
  <2> QED
    BY <1>1, <2>3, <2>4 DEF Receive, Understood
<1>2. IndInv /\ [Next]_vars =>
        [Receive /\ wire[1].signature # NoKey /\ stored \in {NoKey, wire[1].signature}
           => arrived']_vars
  BY <1>1
<1> QED
  BY <1>2, Invariant, PTL DEF Spec, SignedArrives
=============================================================================
