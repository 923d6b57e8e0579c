-------------------------- MODULE EncryptorProofs ---------------------------
(* Proofs about Encryptor, for any set of nodes, any deployments and any     *)
(* limits.  The argument: _load_certificates compares numbers, but a         *)
(* certificate leaves the disk only in a crash, after which all of them are  *)
(* loaded, so that a number that has not grown means that no name is new     *)
(* (CertificatesInUse); and a connection ends before either end is deployed  *)
(* anew or takes a leftover handshake of the other, so that the certificate  *)
(* on disk of a node one is connected with is its present one                *)
(* (CurrentOnDisk).  Hence such a node is a recipient.                       *)
EXTENDS Encryptor, FiniteSetTheorems, TLAPS

Known(certs) == {m \in Node : certs[m] # None}

(* Nobody is connected with himself.                                         *)
NoSelf ==
    /\ \A n \in Node : link[n][n] = "down"
    /\ \A handshake \in late : handshake.from # handshake.to

(* The certificate a node has of a peer its encryptor is attached to is the  *)
(* peer's present one, if the peer's handshakes bring one.                   *)
CurrentOnDisk ==
    \A n, m \in Node : Attached(n, m) /\ GradeOf(m) = "valid" => file[n][m] = key[m]

(* Messages are under way on connections only.                               *)
MailOnLink == \A packet \in mail : Attached(packet.from, packet.to)

IndInv == TypeOK /\ NoSelf /\ CertificatesInUse /\ CurrentOnDisk /\ MailOnLink /\ SlotForReceiver

LEMMA KeyFacts == Key \subseteq Nat \ {0} /\ None \notin Key /\ None = 0 /\ 1 \in Key
  BY MaxKeyAssumption DEF Key, None

LEMMA CountFacts ==
    ASSUME NEW certs
    PROVE  /\ IsFiniteSet(Known(certs)) /\ Count(certs) = Cardinality(Known(certs))
           /\ Count(certs) \in 0 .. Cardinality(Node)
           /\ Count(certs) \in Nat
  <1>1. Known(certs) \in SUBSET Node
    BY DEF Known
  <1>2. /\ IsFiniteSet(Known(certs))
        /\ Cardinality(Known(certs)) <= Cardinality(Node)
    BY <1>1, NodeAssumption, FS_Subset
  <1>3. Cardinality(Known(certs)) \in Nat /\ Cardinality(Node) \in Nat
    BY <1>2, NodeAssumption, FS_CardinalityType
  <1> QED BY <1>2, <1>3 DEF Count, Known

(* Writing one certificate makes the number grow exactly if it is a new one. *)
LEMMA CountGrows ==
    ASSUME NEW old \in Certificates, NEW m \in Node, NEW c \in Key
    PROVE  LET new == [old EXCEPT ![m] = c] IN
           /\ new \in Certificates
           /\ Known(new) = Known(old) \cup {m}
           /\ Count(new) = IF old[m] = None THEN Count(old) + 1 ELSE Count(old)
  <1> DEFINE new == [old EXCEPT ![m] = c]
  <1>1. new \in Certificates /\ c # None
    BY MaxKeyAssumption DEF Certificates, Key, None
  <1>2. Known(new) = Known(old) \cup {m}
    BY <1>1 DEF Known, Certificates
  <1>3. IsFiniteSet(Known(old)) /\ Count(new) = Cardinality(Known(new))
        /\ Count(old) = Cardinality(Known(old))
    BY CountFacts
  <1>4. m \in Known(old) <=> old[m] # None
    BY DEF Known
  <1>5. Cardinality(Known(old) \cup {m}) =
          IF m \in Known(old) THEN Cardinality(Known(old)) ELSE Cardinality(Known(old)) + 1
    BY <1>3, FS_AddElement
  <1> QED BY <1>1, <1>2, <1>3, <1>4, <1>5

(* What a handshake handler that saves a certificate leaves behind.          *)
LEMMA LearnEffect ==
    ASSUME TypeOK, CertificatesInUse, NEW n \in Node, NEW m \in Node, NEW c \in Key,
           Learn(n, m, c)
    PROVE  /\ UNCHANGED <<disk, key>> /\ file' \in [Node -> Certificates]
           /\ public' \in [Node -> Certificates] /\ CertificatesInUse'
           /\ file'[n][m] = c
           /\ \A a, b \in Node : (a # n \/ b # m) => file'[a][b] = file[a][b]
           /\ \A a, b \in Node : public[a][b] # None => public'[a][b] # None
  <1> DEFINE new == [file[n] EXCEPT ![m] = c]
  <1>1. file[n] \in Certificates /\ public[n] \in Certificates
    BY DEF TypeOK
  <1>2. /\ new \in Certificates /\ Known(new) = Known(file[n]) \cup {m}
        /\ Count(new) = IF file[n][m] = None THEN Count(file[n]) + 1 ELSE Count(file[n])
    BY <1>1, CountGrows
  <1>3. Known(public[n]) = Known(file[n])
    BY DEF CertificatesInUse, Known
  <1>4. Count(public[n]) = Count(file[n]) /\ Count(file[n]) \in Nat
    BY <1>3, CountFacts
  <1>5. /\ file' = [file EXCEPT ![n] = new]
        /\ public' = [public EXCEPT ![n] = IF Count(new) > Count(public[n]) THEN new ELSE public[n]]
        /\ UNCHANGED <<disk, key>>
    BY DEF Learn
  <1>6. public'[n] \in Certificates /\ Known(public'[n]) = Known(new)
    <2>1. CASE file[n][m] = None
      <3>1. public'[n] = new
        BY <1>2, <1>4, <1>5, <2>1 DEF TypeOK
      <3> QED BY <1>2, <3>1
    <2>2. CASE file[n][m] # None
      <3>1. public'[n] = public[n]
        BY <1>2, <1>4, <1>5, <2>2 DEF TypeOK
      <3>2. Known(new) = Known(file[n])
        BY <1>2, <2>2 DEF Known
      <3> QED BY <1>1, <1>3, <3>1, <3>2
    <2> QED BY <2>1, <2>2
  <1>7. /\ file'[n] = new
        /\ \A a \in Node : a # n => file'[a] = file[a] /\ public'[a] = public[a]
    BY <1>5 DEF TypeOK
  <1>8. file' \in [Node -> Certificates]
    BY <1>2, <1>5 DEF TypeOK
  <1>9. public' \in [Node -> Certificates]
    BY <1>1, <1>2, <1>5 DEF TypeOK
  <1>10. CertificatesInUse'
    <2> SUFFICES ASSUME NEW a \in Node, NEW b \in Node
                 PROVE  public'[a][b] = None <=> file'[a][b] = None
      BY DEF CertificatesInUse
    <2>1. CASE a = n
      BY <1>6, <1>7, <2>1 DEF Known
    <2>2. CASE a # n
      BY <1>7, <2>2 DEF CertificatesInUse
    <2> QED BY <2>1, <2>2
  <1>11. file'[n][m] = c /\ \A b \in Node \ {m} : file'[n][b] = file[n][b]
    BY <1>1, <1>7 DEF Certificates
  <1>12. \A a, b \in Node : public[a][b] # None => public'[a][b] # None
    <2> SUFFICES ASSUME NEW a \in Node, NEW b \in Node, public[a][b] # None
                 PROVE  public'[a][b] # None
      OBVIOUS
    <2>1. CASE a = n
      BY <1>2, <1>3, <1>6, <2>1 DEF Known
    <2>2. CASE a # n
      BY <1>7, <2>2
    <2> QED BY <2>1, <2>2
  <1> HIDE DEF new
  <1> QED BY <1>5, <1>7, <1>8, <1>9, <1>10, <1>11, <1>12

(* What a handshake handler leaves behind, whatever the handshake brought.   *)
LEMMA TakeEffect ==
    ASSUME TypeOK, CertificatesInUse, NEW n \in Node, NEW m \in Node, NEW c \in Key,
           Take(n, m, c)
    PROVE  /\ UNCHANGED <<disk, key>> /\ file' \in [Node -> Certificates]
           /\ public' \in [Node -> Certificates] /\ CertificatesInUse'
           /\ disk[m][c] = "valid" => file'[n][m] = c
           /\ \A a, b \in Node : (a # n \/ b # m) => file'[a][b] = file[a][b]
           /\ \A a, b \in Node : public[a][b] # None => public'[a][b] # None
  <1>1. CASE disk[m][c] = "valid"
    BY <1>1, LearnEffect DEF Take
  <1>2. CASE disk[m][c] # "valid"
    BY <1>2 DEF Take, certificates, TypeOK, CertificatesInUse
  <1> QED BY <1>1, <1>2

(* The connections and the messages on them, when one ends.                  *)
LEMMA EndedEffect ==
    ASSUME TypeOK, NoSelf, MailOnLink, NEW n \in Node, NEW m \in Node, Ended(n, m)
    PROVE  /\ link' \in [Node -> [Node -> Link]] /\ mail' \subseteq mail
           /\ \A a \in Node : link'[a][a] = "down"
           /\ \A a, b \in Node : Attached(a, b)' => Attached(a, b) /\ {a, b} # {n, m}
           /\ MailOnLink'
  <1>1. link' = [link EXCEPT ![n][m] = "down", ![m][n] = "down"] /\ mail' \subseteq mail
    BY DEF Ended
  <1>2. \A a, b \in Node : link'[a][b] = IF {a, b} = {n, m} THEN "down" ELSE link[a][b]
    <2> SUFFICES ASSUME NEW a \in Node, NEW b \in Node
                 PROVE  link'[a][b] = IF {a, b} = {n, m} THEN "down" ELSE link[a][b]
      OBVIOUS
    <2>1. {a, b} = {n, m} <=> (a = n /\ b = m) \/ (a = m /\ b = n)
      OBVIOUS
    <2>2. link'[a][b] = IF (a = n /\ b = m) \/ (a = m /\ b = n) THEN "down" ELSE link[a][b]
      BY <1>1 DEF TypeOK
    <2> QED BY <2>1, <2>2
  <1>3. link' \in [Node -> [Node -> Link]]
    BY <1>1 DEF TypeOK, Link
  <1>4. \A a, b \in Node : Attached(a, b)' <=> Attached(a, b) /\ {a, b} # {n, m}
    <2> SUFFICES ASSUME NEW a \in Node, NEW b \in Node
                 PROVE  Attached(a, b)' <=> Attached(a, b) /\ {a, b} # {n, m}
      OBVIOUS
    <2>1. {a, b} = {b, a}
      OBVIOUS
    <2>2. CASE {a, b} = {n, m}
      BY <1>2, <2>1, <2>2 DEF Attached
    <2>3. CASE {a, b} # {n, m}
      BY <1>2, <2>1, <2>3 DEF Attached
    <2> QED BY <2>2, <2>3
  <1>5. \A a \in Node : link'[a][a] = "down"
    BY <1>2 DEF NoSelf
  <1>6. MailOnLink'
    <2> SUFFICES ASSUME NEW packet \in mail' PROVE Attached(packet.from, packet.to)'
      BY DEF MailOnLink
    <2>1. packet \in mail /\ packet.from \in Node /\ packet.to \in Node
      BY <1>1 DEF TypeOK, Packet
    <2>2. {packet.from, packet.to} # {n, m}
      BY <2>1 DEF Ended, Between
    <2> QED BY <1>4, <2>1, <2>2 DEF MailOnLink
  <1> QED BY <1>1, <1>3, <1>4, <1>5, <1>6

LEMMA PackedType ==
    ASSUME TypeOK, NEW n \in Node, NEW m \in Node
    PROVE  Packed(n, m) \in Packet
  <1>1. Count(public[n]) \in 0 .. Cardinality(Node) /\ 0 \in 0 .. Cardinality(Node)
    BY CountFacts, NodeAssumption, FS_CardinalityType
  <1>2. Enabled(n) \in BOOLEAN
    BY DEF Enabled
  <1>3. public[n][m] \in Key \cup {None} /\ None \in Key \cup {None}
    BY DEF TypeOK, Certificates
  <1> QED BY <1>1, <1>2, <1>3 DEF Packed, Packet

LEMMA FetchedType ==
    ASSUME NEW n \in Node, NEW keys, NEW certs \in Fetched(n, keys)
    PROVE  certs \in Certificates
  BY DEF Fetched, Certificates

(* A step that leaves keys and deployments alone keeps the invariant if it   *)
(* attaches an encryptor only to a peer whose present certificate it saves.  *)
LEMMA Kept ==
    ASSUME IndInv, TypeOK', NoSelf', CertificatesInUse', MailOnLink', UNCHANGED <<disk, key>>,
           mail' \subseteq mail,
           \A a, b \in Node : Attached(a, b)' =>
              \/ Attached(a, b) /\ file'[a][b] = file[a][b]
              \/ GradeOf(b) = "valid" => file'[a][b] = key[b]
    PROVE  IndInv'
  <1>1. \A n \in Node : GradeOf(n)' = GradeOf(n)
    BY DEF GradeOf
  <1>2. CurrentOnDisk'
    BY <1>1 DEF CurrentOnDisk, IndInv
  <1>3. SlotForReceiver'
    <2> SUFFICES ASSUME NEW packet \in mail', packet.sealed, GradeOf(packet.to)' = "valid"
                 PROVE  packet.slot # None
      BY DEF SlotForReceiver
    <2>1. packet \in mail /\ packet.to \in Node
      BY DEF IndInv, TypeOK, Packet
    <2> QED BY <1>1, <2>1 DEF IndInv, SlotForReceiver
  <1> QED BY <1>2, <1>3 DEF IndInv

(* A node that has no connection may change its certificates and its key.    *)
LEMMA ReloadInv ==
    ASSUME IndInv, NEW n \in Node, Unlinked(n), NEW certs \in Certificates,
           key' \in [Node -> Key], \A a \in Node \ {n} : key'[a] = key[a],
           file' = [file EXCEPT ![n] = certs],
           public' = [public EXCEPT ![n] = certs],
           late' \subseteq late, UNCHANGED <<disk, link, mail>>
    PROVE  IndInv'
  <1>1. TypeOK' /\ NoSelf'
    BY DEF IndInv, TypeOK, NoSelf
  <1>2. CertificatesInUse'
    BY DEF IndInv, TypeOK, CertificatesInUse
  <1>3. \A a, b \in Node : Attached(a, b)' => Attached(a, b) /\ a # n /\ b # n
    BY DEF Attached, Unlinked
  <1>4. \A a, b \in Node : Attached(a, b) <=> Attached(a, b)'
    BY DEF Attached
  <1>5. \A a \in Node \ {n} : GradeOf(a)' = GradeOf(a) /\ file'[a] = file[a]
    BY DEF GradeOf, IndInv, TypeOK
  <1>6. CurrentOnDisk'
    BY <1>3, <1>5 DEF CurrentOnDisk, IndInv
  <1>7. MailOnLink'
    BY <1>4 DEF MailOnLink, IndInv, TypeOK, Packet
  <1>8. SlotForReceiver'
    <2> SUFFICES ASSUME NEW packet \in mail, packet.sealed, GradeOf(packet.to)' = "valid"
                 PROVE  packet.slot # None
      BY DEF SlotForReceiver
    <2>1. packet.from \in Node /\ packet.to \in Node /\ Attached(packet.from, packet.to)
      BY DEF IndInv, TypeOK, Packet, MailOnLink
    <2>2. packet.to # n
      BY <1>3, <1>4, <2>1
    <2> QED BY <1>5, <2>1, <2>2 DEF IndInv, SlotForReceiver
  <1> QED BY <1>1, <1>2, <1>6, <1>7, <1>8 DEF IndInv

(* A connection that ends takes its messages with it.                        *)
LEMMA EndedInv ==
    ASSUME IndInv, NEW n \in Node, NEW m \in Node, Ended(n, m),
           late' \subseteq Handshake, \A handshake \in late' : handshake.from # handshake.to,
           UNCHANGED certificates
    PROVE  IndInv'
  <1>1. /\ link' \in [Node -> [Node -> Link]] /\ mail' \subseteq mail
        /\ \A a \in Node : link'[a][a] = "down"
        /\ \A a, b \in Node : Attached(a, b)' => Attached(a, b)
        /\ MailOnLink'
    BY EndedEffect DEF IndInv
  <1>2. TypeOK' /\ NoSelf' /\ CertificatesInUse'
    BY <1>1 DEF IndInv, TypeOK, NoSelf, CertificatesInUse, certificates
  <1> QED BY <1>1, <1>2, Kept DEF certificates

LEMMA SendInv ==
    ASSUME IndInv, NEW n \in Node, NEW m \in Node, Send(n, m)
    PROVE  IndInv'
  <1>1. Packed(n, m) \in Packet /\ Packed(n, m).from = n /\ Packed(n, m).to = m
    BY PackedType DEF IndInv, Packed
  <1>2. /\ mail' = mail \cup {Packed(n, m)} /\ Attached(n, m)
        /\ UNCHANGED <<disk, key, file, public, link, late>>
    BY DEF Send, certificates
  <1>3. \A a, b \in Node : (Attached(a, b)' <=> Attached(a, b)) /\ GradeOf(b)' = GradeOf(b)
    BY <1>2 DEF Attached, GradeOf
  <1>4. Packed(n, m).sealed /\ GradeOf(m) = "valid" => Packed(n, m).slot # None
    <2> SUFFICES ASSUME Enabled(n), GradeOf(m) = "valid" PROVE public[n][m] # None
      BY DEF Packed
    <2>1. file[n][m] = key[m]
      BY <1>2 DEF IndInv, CurrentOnDisk
    <2> QED BY <2>1, KeyFacts DEF IndInv, TypeOK, CertificatesInUse
  <1>5. TypeOK' /\ NoSelf' /\ CertificatesInUse'
    BY <1>1, <1>2 DEF IndInv, TypeOK, NoSelf, CertificatesInUse
  <1>6. CurrentOnDisk'
    BY <1>2, <1>3 DEF IndInv, CurrentOnDisk
  <1>7. MailOnLink'
    BY <1>1, <1>2, <1>3 DEF IndInv, MailOnLink, TypeOK, Packet
  <1>8. SlotForReceiver'
    BY <1>1, <1>2, <1>3, <1>4 DEF IndInv, SlotForReceiver, TypeOK, Packet
  <1> QED BY <1>5, <1>6, <1>7, <1>8 DEF IndInv

(* A dialling side connects.                                                 *)
LEMMA GreetInv ==
    ASSUME IndInv, NEW n \in Node, NEW m \in Node, Greet(n, m)
    PROVE  IndInv'
  <1>1. n # m
    BY NodeAssumption DEF Greet
  <1>2. /\ link' = [link EXCEPT ![n][m] = "greeted"] /\ link[n][m] = "down"
        /\ late' \subseteq late /\ UNCHANGED <<disk, key, file, public, mail>>
    BY DEF Greet, certificates
  <1>3. TypeOK' /\ NoSelf' /\ CertificatesInUse'
    BY <1>1, <1>2 DEF IndInv, TypeOK, NoSelf, CertificatesInUse, Link
  <1>4. \A a, b \in Node : link'[a][b] = IF a = n /\ b = m THEN "greeted" ELSE link[a][b]
    BY <1>2 DEF IndInv, TypeOK
  <1>5. \A a, b \in Node : Attached(a, b)' <=> Attached(a, b)
    BY <1>2, <1>4 DEF Attached
  <1>6. MailOnLink'
    BY <1>2, <1>5 DEF IndInv, MailOnLink, TypeOK, Packet
  <1> QED BY <1>2, <1>3, <1>5, <1>6, Kept

(* A handshake is taken, and its reader attaches its encryptor.              *)
LEMMA AttachInv ==
    ASSUME IndInv, NEW n \in Node, NEW m \in Node, NEW state \in {"answered", "up"},
           NEW reader \in Node, NEW sender \in Node, {reader, sender} = {n, m},
           state = "answered" => link[n][m] = "greeted" /\ reader = m,
           state = "up" => link[n][m] = "answered" /\ reader = n,
           Take(reader, sender, key[sender]),
           link' = [link EXCEPT ![n][m] = state], UNCHANGED <<late, mail>>
    PROVE  IndInv'
  <1>1. n # m
    BY DEF IndInv, NoSelf
  <1>2. key[sender] \in Key
    BY DEF IndInv, TypeOK
  <1>3. /\ UNCHANGED <<disk, key>> /\ file' \in [Node -> Certificates]
        /\ public' \in [Node -> Certificates] /\ CertificatesInUse'
        /\ disk[sender][key[sender]] = "valid" => file'[reader][sender] = key[sender]
        /\ \A a, b \in Node : (a # reader \/ b # sender) => file'[a][b] = file[a][b]
    BY <1>2, TakeEffect DEF IndInv
  <1>4. \A a, b \in Node : link'[a][b] = IF a = n /\ b = m THEN state ELSE link[a][b]
    BY DEF IndInv, TypeOK
  <1>5. \A a, b \in Node : Attached(a, b) => Attached(a, b)'
    BY <1>4 DEF Attached
  <1>6. \A a, b \in Node : Attached(a, b)' => Attached(a, b) \/ (a = reader /\ b = sender)
    BY <1>1, <1>4 DEF Attached
  <1>7. TypeOK' /\ NoSelf'
    BY <1>1, <1>3, <1>4 DEF IndInv, TypeOK, NoSelf, Link
  <1>8. MailOnLink'
    BY <1>5 DEF IndInv, MailOnLink, TypeOK, Packet
  <1>9. \A a, b \in Node : Attached(a, b)' =>
              \/ Attached(a, b) /\ file'[a][b] = file[a][b]
              \/ GradeOf(b) = "valid" => file'[a][b] = key[b]
    <2> SUFFICES ASSUME NEW a \in Node, NEW b \in Node, Attached(a, b)'
                 PROVE  \/ Attached(a, b) /\ file'[a][b] = file[a][b]
                        \/ GradeOf(b) = "valid" => file'[a][b] = key[b]
      OBVIOUS
    <2>1. CASE a = reader /\ b = sender
      BY <1>3, <2>1 DEF GradeOf
    <2>2. CASE a # reader \/ b # sender
      BY <1>3, <1>6, <2>2
    <2> QED BY <2>1, <2>2
  <1> QED BY <1>3, <1>7, <1>8, <1>9, Kept

LEMMA LateInv ==
    ASSUME IndInv, NEW handshake \in late, LateHandshake(handshake)
    PROVE  IndInv'
  <1> DEFINE n == handshake.to
             m == handshake.from
             c == handshake.certificate
  <1>1. n \in Node /\ m \in Node /\ c \in Key
    BY DEF IndInv, TypeOK, Handshake
  <1>2. /\ Take(n, m, c) /\ late' \subseteq late
        /\ \/ Ended(m, n)
           \/ ~Admits(n, m, c) /\ UNCHANGED <<link, mail>>
    BY DEF LateHandshake
  <1> HIDE DEF n, m, c
  <1>3. /\ UNCHANGED <<disk, key>> /\ file' \in [Node -> Certificates]
        /\ public' \in [Node -> Certificates] /\ CertificatesInUse'
        /\ \A a, b \in Node : (a # n \/ b # m) => file'[a][b] = file[a][b]
    BY <1>1, <1>2, TakeEffect DEF IndInv
  <1>4. /\ link' \in [Node -> [Node -> Link]] /\ mail' \subseteq mail
        /\ \A a \in Node : link'[a][a] = "down"
        /\ \A a, b \in Node : Attached(a, b)' =>
              Attached(a, b) /\ ({a, b} # {m, n} \/ file' = file)
        /\ MailOnLink'
    <2>1. CASE Ended(m, n)
      BY <1>1, <2>1, EndedEffect DEF IndInv
    <2>2. CASE ~Admits(n, m, c) /\ UNCHANGED <<link, mail>>
      <3>1. file' = file
        BY <1>2, <2>2 DEF Take, Admits, certificates
      <3> QED BY <2>2, <3>1 DEF IndInv, TypeOK, NoSelf, MailOnLink, Attached
    <2> QED BY <1>2, <2>1, <2>2
  <1>5. TypeOK' /\ NoSelf'
    BY <1>2, <1>3, <1>4 DEF IndInv, TypeOK, NoSelf
  <1>6. \A a, b \in Node : Attached(a, b)' => Attached(a, b) /\ file'[a][b] = file[a][b]
    BY <1>3, <1>4
  <1> QED BY <1>3, <1>4, <1>5, <1>6, Kept

(* Only a certificate of another node is ever being saved.                   *)
LEMMA SavesOther ==
    ASSUME NoSelf, NEW n \in Node, NEW m \in Node, Saves(n, m)
    PROVE  n # m
  BY DEF Saves, NoSelf

LEMMA CrashEffect ==
    ASSUME IndInv, NEW n \in Node, NEW m \in Node, CrashSaving(n, m)
    PROVE  /\ n # m /\ UNCHANGED <<disk, key>>
           /\ file' \in [Node -> Certificates] /\ public' \in [Node -> Certificates]
           /\ file'[n][m] = None /\ public'[n][m] = None
           /\ \A a, b \in Node : (a # n \/ b # m) => file'[a][b] = file[a][b]
           /\ \A b \in Node \ {m} : public'[n][b] = file[n][b]
           /\ \A a \in Node \ {n} : public'[a] = public[a]
           /\ \A a, b \in Node : link'[a][b] = IF n \in {a, b} THEN "down" ELSE link[a][b]
           /\ late' \subseteq late \cup {handshake \in Handshake : handshake.from = n
                  /\ (handshake \in Unread(n, handshake.to) \/ handshake \in Unread(handshake.to, n))}
  <1>1. n # m
    BY SavesOther DEF IndInv, CrashSaving
  <1> DEFINE new == [file[n] EXCEPT ![m] = None]
  <1>2. new \in Certificates /\ new[m] = None /\ \A b \in Node \ {m} : new[b] = file[n][b]
    BY DEF IndInv, TypeOK, Certificates
  <1>3. /\ file' = [file EXCEPT ![n] = new] /\ public' = [public EXCEPT ![n] = new]
        /\ UNCHANGED <<disk, key>>
    BY DEF CrashSaving, IndInv, TypeOK
  <1> HIDE DEF new
  <1>4. /\ file'[n] = new /\ public'[n] = new
        /\ \A a \in Node \ {n} : file'[a] = file[a] /\ public'[a] = public[a]
        /\ file' \in [Node -> Certificates] /\ public' \in [Node -> Certificates]
    BY <1>2, <1>3 DEF IndInv, TypeOK
  <1>5. \A a, b \in Node : link'[a][b] = IF n \in {a, b} THEN "down" ELSE link[a][b]
    BY DEF CrashSaving
  <1>6. late' \subseteq late \cup {handshake \in Handshake : handshake.from = n
            /\ (handshake \in Unread(n, handshake.to) \/ handshake \in Unread(handshake.to, n))}
    BY DEF CrashSaving
  <1> QED BY <1>1, <1>2, <1>3, <1>4, <1>5, <1>6

(* A handshake that is left unread is the sender's present one.              *)
LEMMA UnreadFacts ==
    ASSUME TypeOK, NoSelf, NEW n \in Node, NEW m \in Node
    PROVE  \A handshake \in Unread(n, m) :
              /\ handshake \in Handshake /\ handshake.from # handshake.to
              /\ handshake.certificate = key[handshake.from]
  <1>1. CASE n = m
    BY <1>1 DEF Unread, NoSelf
  <1>2. CASE n # m
    BY <1>2 DEF Unread, TypeOK, Handshake
  <1> QED BY <1>1, <1>2

LEMMA CrashInv ==
    ASSUME IndInv, NEW n \in Node, NEW m \in Node, CrashSaving(n, m)
    PROVE  IndInv'
  <1>1. /\ n # m /\ UNCHANGED <<disk, key>>
        /\ file' \in [Node -> Certificates] /\ public' \in [Node -> Certificates]
        /\ file'[n][m] = None /\ public'[n][m] = None
        /\ \A a, b \in Node : (a # n \/ b # m) => file'[a][b] = file[a][b]
        /\ \A b \in Node \ {m} : public'[n][b] = file[n][b]
        /\ \A a \in Node \ {n} : public'[a] = public[a]
        /\ \A a, b \in Node : link'[a][b] = IF n \in {a, b} THEN "down" ELSE link[a][b]
        /\ late' \subseteq late \cup {handshake \in Handshake : handshake.from = n
               /\ (handshake \in Unread(n, handshake.to) \/ handshake \in Unread(handshake.to, n))}
    BY CrashEffect
  <1>2. link' \in [Node -> [Node -> Link]]
    BY DEF CrashSaving, IndInv, TypeOK, Link
  <1>3. mail' \subseteq mail /\ \A packet \in mail' : n \notin {packet.from, packet.to}
    BY DEF CrashSaving
  <1>4. late' \subseteq Handshake
    BY <1>1 DEF IndInv, TypeOK
  <1>5. \A handshake \in late' : handshake.from # handshake.to
    <2> SUFFICES ASSUME NEW handshake \in late' PROVE handshake.from # handshake.to
      OBVIOUS
    <2>1. CASE handshake \in late
      BY <2>1 DEF IndInv, NoSelf
    <2>2. CASE handshake \notin late
      <3>1. /\ handshake.to \in Node
            /\ handshake \in Unread(n, handshake.to) \/ handshake \in Unread(handshake.to, n)
        BY <1>1, <2>2 DEF Handshake
      <3> QED BY <3>1, UnreadFacts DEF IndInv
    <2> QED BY <2>1, <2>2
  <1>6. TypeOK' /\ NoSelf'
    BY <1>1, <1>2, <1>3, <1>4, <1>5 DEF IndInv, TypeOK, NoSelf
  <1>7. CertificatesInUse'
    <2> SUFFICES ASSUME NEW a \in Node, NEW b \in Node
                 PROVE  public'[a][b] = None <=> file'[a][b] = None
      BY DEF CertificatesInUse
    <2>1. CASE a = n
      BY <1>1, <2>1
    <2>2. CASE a # n
      BY <1>1, <2>2 DEF IndInv, CertificatesInUse
    <2> QED BY <2>1, <2>2
  <1>8. \A a, b \in Node : Attached(a, b)' <=> Attached(a, b) /\ n \notin {a, b}
    <2> SUFFICES ASSUME NEW a \in Node, NEW b \in Node
                 PROVE  Attached(a, b)' <=> Attached(a, b) /\ n \notin {a, b}
      OBVIOUS
    <2>1. {a, b} = {b, a}
      OBVIOUS
    <2>2. /\ link'[a][b] = IF n \in {a, b} THEN "down" ELSE link[a][b]
          /\ link'[b][a] = IF n \in {a, b} THEN "down" ELSE link[b][a]
      BY <1>1, <2>1
    <2> QED BY <2>2 DEF Attached
  <1>9. MailOnLink'
    <2> SUFFICES ASSUME NEW packet \in mail' PROVE Attached(packet.from, packet.to)'
      BY DEF MailOnLink
    <2>1. packet \in mail /\ packet.from \in Node /\ packet.to \in Node
      BY <1>3 DEF IndInv, TypeOK, Packet
    <2> QED BY <1>3, <1>8, <2>1 DEF IndInv, MailOnLink
  <1>10. \A a, b \in Node : Attached(a, b)' => Attached(a, b) /\ file'[a][b] = file[a][b]
    BY <1>1, <1>8
  <1> QED BY <1>1, <1>3, <1>6, <1>7, <1>9, <1>10, Kept

LEMMA IndStep == IndInv /\ [Next]_vars => IndInv'
  <1> SUFFICES ASSUME IndInv, [Next]_vars PROVE IndInv'
    OBVIOUS
  <1>1. ASSUME NEW n \in Node, Restart(n) PROVE IndInv'
    <2>1. file[n] \in Certificates /\ file = [file EXCEPT ![n] = file[n]]
          /\ key' \in [Node -> Key] /\ key' = key
      BY <1>1 DEF Restart, IndInv, TypeOK
    <2> QED BY <1>1, <2>1, ReloadInv DEF Restart
  <1>2. ASSUME NEW n \in Node, Redeploy(n) PROVE IndInv'
    <2>1. key' \in [Node -> Key] /\ \A a \in Node \ {n} : key'[a] = key[a]
      BY <1>2, MaxKeyAssumption DEF Redeploy, IndInv, TypeOK, Key
    <2>2. PICK certs \in Fetched(n, key') :
             file' = [file EXCEPT ![n] = certs] /\ public' = [public EXCEPT ![n] = certs]
      BY <1>2 DEF Redeploy
    <2>3. certs \in Certificates
      BY FetchedType
    <2>4. Unlinked(n) /\ late' \subseteq late /\ UNCHANGED <<disk, link, mail>>
      BY <1>2 DEF Redeploy
    <2> QED BY <2>1, <2>2, <2>3, <2>4, ReloadInv
  <1>3. ASSUME NEW handshake \in late, LateHandshake(handshake) PROVE IndInv'
    BY <1>3, LateInv
  <1>4. ASSUME NEW packet \in mail, Deliver(packet) PROVE IndInv'
    <2>1. mail' \subseteq mail /\ UNCHANGED <<disk, key, file, public, link, late>>
      BY <1>4 DEF Deliver, certificates
    <2> QED BY <2>1 DEF IndInv, TypeOK, NoSelf, CertificatesInUse, CurrentOnDisk, MailOnLink,
                        SlotForReceiver, Attached, GradeOf
  <1>5. ASSUME NEW packet \in mail, Reset(packet) PROVE IndInv'
    <2>1. /\ packet.from \in Node /\ packet.to \in Node /\ late' \subseteq Handshake
          /\ \A handshake \in late' : handshake.from # handshake.to
      BY <1>5 DEF Reset, IndInv, TypeOK, NoSelf, Packet
    <2> QED BY <1>5, <2>1, EndedInv DEF Reset
  <1>6. ASSUME NEW n \in Node, NEW m \in Node, Break(n, m) PROVE IndInv'
    <2>1. late' \subseteq late \cup Unread(n, m)
      BY <1>6 DEF Break
    <2>2. /\ late' \subseteq Handshake
          /\ \A handshake \in late' : handshake.from # handshake.to
      BY <2>1, UnreadFacts DEF IndInv, TypeOK, NoSelf
    <2> QED BY <1>6, <2>2, EndedInv DEF Break
  <1>7. ASSUME NEW n \in Node, NEW m \in Node, Reject(n, m) PROVE IndInv'
    <2>1. late' \subseteq Handshake /\ \A handshake \in late' : handshake.from # handshake.to
      BY <1>7 DEF Reject, IndInv, TypeOK, NoSelf
    <2> QED BY <1>7, <2>1, EndedInv DEF Reject
  <1>8. ASSUME NEW n \in Node, NEW m \in Node, Answer(n, m) PROVE IndInv'
    <2>1. /\ link[n][m] = "greeted" /\ Take(m, n, key[n])
          /\ link' = [link EXCEPT ![n][m] = "answered"] /\ UNCHANGED <<late, mail>>
          /\ {m, n} = {n, m}
      BY <1>8 DEF Answer
    <2> QED BY <2>1, AttachInv
  <1>9. ASSUME NEW n \in Node, NEW m \in Node, Finish(n, m) PROVE IndInv'
    <2>1. /\ link[n][m] = "answered" /\ Take(n, m, key[m])
          /\ link' = [link EXCEPT ![n][m] = "up"] /\ UNCHANGED <<late, mail>>
      BY <1>9 DEF Finish
    <2> QED BY <2>1, AttachInv
  <1>10. ASSUME NEW n \in Node, NEW m \in Node, Greet(n, m) \/ Send(n, m) \/ CrashSaving(n, m)
         PROVE  IndInv'
    BY <1>10, GreetInv, SendInv, CrashInv
  <1>11. CASE UNCHANGED vars
    BY <1>11 DEF vars, IndInv, TypeOK, NoSelf, CertificatesInUse, CurrentOnDisk, MailOnLink,
                 SlotForReceiver, Attached, GradeOf
  <1> QED BY <1>1, <1>2, <1>3, <1>4, <1>5, <1>6, <1>7, <1>8, <1>9, <1>10, <1>11 DEF Next

LEMMA IndInit == Init => IndInv
  <1> SUFFICES ASSUME Init PROVE IndInv
    OBVIOUS
  <1>1. TypeOK
    BY MaxKeyAssumption, DeploymentsAssumption DEF Init, TypeOK, Key, Link
  <1>2. NoSelf /\ CertificatesInUse /\ CurrentOnDisk /\ MailOnLink /\ SlotForReceiver
    BY DEF Init, NoSelf, CertificatesInUse, CurrentOnDisk, MailOnLink, SlotForReceiver, Attached
  <1> QED BY <1>1, <1>2 DEF IndInv

LEMMA Inductive == Spec => []IndInv
  BY IndInit, IndStep, PTL DEF Spec

(* Every variable of the certificate cache keeps its type.                   *)
THEOREM TypeCorrect == Spec => []TypeOK
  <1>1. IndInv => TypeOK
    BY DEF IndInv
  <1> QED BY <1>1, Inductive, PTL

(* No certificate on disk is ever overlooked by _load_certificates.          *)
THEOREM AllInUse == Spec => []CertificatesInUse
  <1>1. IndInv => CertificatesInUse
    BY DEF IndInv
  <1> QED BY <1>1, Inductive, PTL

(* Whatever is encrypted for a peer that has a certificate to send has a     *)
(* slot for it.                                                              *)
THEOREM ReceiverIncluded == Spec => []SlotForReceiver
  <1>1. IndInv => SlotForReceiver
    BY DEF IndInv
  <1> QED BY <1>1, Inductive, PTL
-----------------------------------------------------------------------------
(* No certificate is of a later generation than its node's key: those on     *)
(* disk and in use, those in handshakes that are still unread, and those     *)
(* that packets were encrypted under.                                        *)
Genuine ==
    /\ \A n, m \in Node : file[n][m] <= key[m] /\ public[n][m] <= key[m]
    /\ \A handshake \in late : handshake.certificate <= key[handshake.from]
    /\ \A packet \in mail : packet.slot <= key[packet.to]

LEMMA TakeGenuine ==
    ASSUME IndInv, Genuine, NEW n \in Node, NEW m \in Node, NEW c \in Key, c <= key[m],
           Take(n, m, c), late' \subseteq late, mail' \subseteq mail
    PROVE  Genuine'
  <1>1. CASE disk[m][c] = "valid"
    <2> DEFINE new == [file[n] EXCEPT ![m] = c]
    <2>1. /\ key' = key /\ file' = [file EXCEPT ![n] = new]
          /\ public' = [public EXCEPT ![n] = IF Count(new) > Count(public[n]) THEN new ELSE public[n]]
      BY <1>1 DEF Take, Learn
    <2>2. \A b \in Node : new[b] <= key[b]
      BY DEF IndInv, TypeOK, Certificates, Genuine
    <2>3. \A a \in Node : file'[a] \in {file[a], new} /\ public'[a] \in {public[a], new}
      <3> HIDE DEF new
      <3> QED BY <2>1 DEF IndInv, TypeOK
    <2>4. \A a, b \in Node : file'[a][b] <= key'[b] /\ public'[a][b] <= key'[b]
      <3> HIDE DEF new
      <3> QED BY <2>1, <2>2, <2>3 DEF Genuine
    <2> QED BY <2>1, <2>4 DEF Genuine
  <1>2. CASE disk[m][c] # "valid"
    BY <1>2 DEF Take, certificates, Genuine
  <1> QED BY <1>1, <1>2

(* A node started again or deployed anew: nobody's key gets older.           *)
LEMMA ReloadGenuine ==
    ASSUME IndInv, Genuine, NEW n \in Node, NEW certs \in Certificates,
           key' \in [Node -> Key], \A m \in Node : key[m] <= key'[m],
           \A m \in Node : certs[m] <= key'[m],
           file' = [file EXCEPT ![n] = certs], public' = [public EXCEPT ![n] = certs],
           late' \subseteq late, mail' = mail
    PROVE  Genuine'
  <1>1. \A a \in Node : file'[a] \in {file[a], certs} /\ public'[a] \in {public[a], certs}
    BY DEF IndInv, TypeOK
  <1>2. /\ \A a, b \in Node : file[a][b] \in Nat /\ public[a][b] \in Nat
        /\ \A m \in Node : key[m] \in Nat /\ key'[m] \in Nat
        /\ \A handshake \in late : handshake.certificate \in Nat /\ handshake.from \in Node
        /\ \A packet \in mail : packet.slot \in Nat /\ packet.to \in Node
    <2>1. Key \subseteq Nat /\ None \in Nat
      BY MaxKeyAssumption DEF Key, None
    <2>2. \A a, b \in Node : file[a][b] \in Nat /\ public[a][b] \in Nat
      <3>1. \A a \in Node : file[a] \in Certificates /\ public[a] \in Certificates
        BY DEF IndInv, TypeOK
      <3>2. \A c \in Certificates : \A b \in Node : c[b] \in Nat
        BY <2>1 DEF Certificates
      <3> QED BY <3>1, <3>2
    <2>3. \A m \in Node : key[m] \in Nat /\ key'[m] \in Nat
      BY <2>1 DEF IndInv, TypeOK
    <2>4. \A handshake \in late : handshake.certificate \in Nat /\ handshake.from \in Node
      BY <2>1 DEF IndInv, TypeOK, Handshake
    <2>5. \A packet \in mail : packet.slot \in Nat /\ packet.to \in Node
      BY <2>1 DEF IndInv, TypeOK, Packet
    <2> QED BY <2>2, <2>3, <2>4, <2>5
  <1>3. \A m \in Node : certs[m] \in Nat
    BY MaxKeyAssumption DEF Certificates, Key, None
  <1>4. \A a, b \in Node : file'[a][b] <= key'[b] /\ public'[a][b] <= key'[b]
    BY <1>1, <1>2, <1>3 DEF Genuine
  <1>5. \A handshake \in late' : handshake.certificate <= key'[handshake.from]
    BY <1>2 DEF Genuine
  <1>6. \A packet \in mail' : packet.slot <= key'[packet.to]
    BY <1>2 DEF Genuine
  <1> QED BY <1>4, <1>5, <1>6 DEF Genuine

LEMMA CrashGenuine ==
    ASSUME IndInv, Genuine, NEW n \in Node, NEW m \in Node, CrashSaving(n, m)
    PROVE  Genuine'
  <1>1. /\ n # m /\ UNCHANGED <<disk, key>>
        /\ file'[n][m] = None /\ public'[n][m] = None
        /\ \A a, b \in Node : (a # n \/ b # m) => file'[a][b] = file[a][b]
        /\ \A b \in Node \ {m} : public'[n][b] = file[n][b]
        /\ \A a \in Node \ {n} : public'[a] = public[a]
        /\ late' \subseteq late \cup {handshake \in Handshake : handshake.from = n
               /\ (handshake \in Unread(n, handshake.to) \/ handshake \in Unread(handshake.to, n))}
    BY CrashEffect
  <1>2. \A b \in Node : key[b] \in Nat /\ None <= key[b] /\ key[b] <= key[b]
    BY MaxKeyAssumption DEF IndInv, TypeOK, Key, None
  <1>3. \A a, b \in Node : file'[a][b] <= key[b] /\ public'[a][b] <= key[b]
    <2> SUFFICES ASSUME NEW a \in Node, NEW b \in Node
                 PROVE  file'[a][b] <= key[b] /\ public'[a][b] <= key[b]
      OBVIOUS
    <2>1. CASE a = n /\ b = m
      BY <1>1, <1>2, <2>1
    <2>2. CASE a = n /\ b # m
      BY <1>1, <2>2 DEF Genuine
    <2>3. CASE a # n
      BY <1>1, <2>3 DEF Genuine
    <2> QED BY <2>1, <2>2, <2>3
  <1>4. \A handshake \in late' : handshake.certificate <= key[handshake.from]
    <2> SUFFICES ASSUME NEW handshake \in late' PROVE handshake.certificate <= key[handshake.from]
      OBVIOUS
    <2>1. CASE handshake \in late
      BY <2>1 DEF Genuine
    <2>2. CASE handshake \notin late
      <3>1. /\ handshake.to \in Node /\ handshake.from \in Node
            /\ handshake \in Unread(n, handshake.to) \/ handshake \in Unread(handshake.to, n)
        BY <1>1, <2>2 DEF Handshake
      <3> QED BY <1>2, <3>1, UnreadFacts DEF IndInv
    <2> QED BY <2>1, <2>2
  <1>5. mail' \subseteq mail
    BY DEF CrashSaving
  <1> QED BY <1>1, <1>3, <1>4, <1>5 DEF Genuine

LEMMA GenuineStep == IndInv /\ Genuine /\ [Next]_vars => Genuine'
  <1> SUFFICES ASSUME IndInv, Genuine, [Next]_vars PROVE Genuine'
    OBVIOUS
  <1>1. \A n \in Node : key[n] \in Key /\ key[n] \in Nat /\ key[n] <= key[n]
    BY MaxKeyAssumption DEF IndInv, TypeOK, Key
  <1>2. ASSUME NEW n \in Node, Restart(n) PROVE Genuine'
    <2>1. /\ file[n] \in Certificates /\ file = [file EXCEPT ![n] = file[n]]
          /\ key' = key /\ key' \in [Node -> Key]
      BY <1>2 DEF Restart, IndInv, TypeOK
    <2>2. \A m \in Node : file[n][m] <= key'[m] /\ key[m] <= key'[m]
      BY <1>1, <2>1 DEF Genuine
    <2> QED BY <1>2, <2>1, <2>2, ReloadGenuine DEF Restart
  <1>3. ASSUME NEW n \in Node, Redeploy(n) PROVE Genuine'
    <2>1. key' \in [Node -> Key] /\ \A m \in Node : key[m] <= key'[m]
      BY <1>1, <1>3, MaxKeyAssumption DEF Redeploy, IndInv, TypeOK, Key
    <2>2. PICK certs \in Fetched(n, key') :
             file' = [file EXCEPT ![n] = certs] /\ public' = [public EXCEPT ![n] = certs]
      BY <1>3 DEF Redeploy
    <2>3. certs \in Certificates /\ \A m \in Node : certs[m] <= key'[m]
      <3>1. \A m \in Node : key'[m] \in Nat /\ 0 <= key'[m] /\ key'[m] <= key'[m]
        BY <2>1, MaxKeyAssumption DEF Key
      <3> QED BY <3>1, FetchedType DEF Fetched, None
    <2>4. late' \subseteq late /\ mail' = mail
      BY <1>3 DEF Redeploy
    <2> QED BY <2>1, <2>2, <2>3, <2>4, ReloadGenuine
  <1>4. ASSUME NEW handshake \in late, LateHandshake(handshake) PROVE Genuine'
    <2>1. /\ handshake.to \in Node /\ handshake.from \in Node /\ handshake.certificate \in Key
          /\ handshake.certificate <= key[handshake.from]
      BY DEF IndInv, TypeOK, Handshake, Genuine
    <2>2. /\ Take(handshake.to, handshake.from, handshake.certificate)
          /\ late' \subseteq late /\ mail' \subseteq mail
      BY <1>4 DEF LateHandshake, Ended, Between
    <2> QED BY <2>1, <2>2, TakeGenuine
  <1>5. ASSUME NEW packet \in mail, Deliver(packet) \/ Reset(packet) PROVE Genuine'
    <2>1. mail' \subseteq mail /\ UNCHANGED <<key, file, public, late>>
      BY <1>5 DEF Deliver, Reset, Ended, certificates
    <2> QED BY <2>1 DEF Genuine
  <1>6. ASSUME NEW n \in Node, NEW m \in Node, Answer(n, m) PROVE Genuine'
    BY <1>1, <1>6, TakeGenuine DEF Answer
  <1>7. ASSUME NEW n \in Node, NEW m \in Node, Finish(n, m) PROVE Genuine'
    BY <1>1, <1>7, TakeGenuine DEF Finish
  <1>8. ASSUME NEW n \in Node, NEW m \in Node, Greet(n, m) \/ Reject(n, m) PROVE Genuine'
    <2>1. mail' \subseteq mail /\ late' \subseteq late /\ UNCHANGED <<key, file, public>>
      BY <1>8 DEF Greet, Reject, Ended, certificates
    <2> QED BY <2>1 DEF Genuine
  <1>9. ASSUME NEW n \in Node, NEW m \in Node, Break(n, m) PROVE Genuine'
    <2>1. mail' \subseteq mail /\ UNCHANGED <<key, file, public>>
          /\ late' \subseteq late \cup Unread(n, m)
      BY <1>9 DEF Break, Ended, certificates
    <2>2. \A handshake \in Unread(n, m) : handshake.certificate <= key[handshake.from]
      BY <1>1 DEF Unread
    <2> QED BY <2>1, <2>2 DEF Genuine
  <1>10. ASSUME NEW n \in Node, NEW m \in Node, Send(n, m) PROVE Genuine'
    <2>1. mail' = mail \cup {Packed(n, m)} /\ UNCHANGED <<key, file, public, late>>
      BY <1>10 DEF Send, certificates
    <2>2. Packed(n, m).slot <= key[m] /\ Packed(n, m).to = m
      <3>1. Packed(n, m).slot \in {public[n][m], None} /\ Packed(n, m).to = m
        BY DEF Packed
      <3> QED BY <1>1, <3>1 DEF Genuine, None
    <2> QED BY <2>1, <2>2 DEF Genuine
  <1>11. CASE UNCHANGED vars
    BY <1>11 DEF vars, Genuine
  <1> QED BY <1>2, <1>3, <1>4, <1>5, <1>6, <1>7, <1>8, <1>9, <1>10, <1>11, CrashGenuine DEF Next

LEMMA GenuineInit == Init => Genuine
  <1> SUFFICES ASSUME Init PROVE Genuine
    OBVIOUS
  <1>1. \A n, m \in Node : file[n][m] \in {0, 1} /\ public = file /\ key[m] = 1
    BY DEF Init, Fetched, None
  <1> QED BY <1>1 DEF Init, Genuine

LEMMA AlwaysGenuine == Spec => []Genuine
  BY Inductive, GenuineInit, GenuineStep, PTL DEF Spec

(* A packet for a node with a certificate that does not open has too many    *)
(* recipients, or was encrypted for an earlier key although the present      *)
(* certificate was on the sender's disk.                                     *)
THEOREM FailsStale == Spec => []FailsOnlyIfStale
  <1>1. IndInv /\ Genuine => FailsOnlyIfStale
    <2> SUFFICES ASSUME IndInv, Genuine, NEW packet \in mail, GradeOf(packet.to) = "valid",
                        ~Opens(packet), ~(packet.recipients > MaxRecipients)
                 PROVE  /\ packet.slot < key[packet.to]
                        /\ file[packet.from][packet.to] = key[packet.to]
      BY DEF FailsOnlyIfStale
    <2>1. packet \in Packet
      BY DEF IndInv, TypeOK
    <2>2. packet.recipients \in Nat
      <3>1. Cardinality(Node) \in Nat
        BY NodeAssumption, FS_CardinalityType
      <3> QED BY <2>1, <3>1 DEF Packet
    <2>3. packet.slot # key[packet.to]
      BY <2>2, RecipientsAssumption DEF Opens
    <2>4. packet.slot <= key[packet.to]
      BY DEF Genuine
    <2>5. packet.slot \in Nat /\ key[packet.to] \in Nat /\ packet.to \in Node /\ packet.from \in Node
      BY <2>1, MaxKeyAssumption DEF Packet, IndInv, TypeOK, Key, None
    <2>6. file[packet.from][packet.to] = key[packet.to]
      BY <2>5 DEF IndInv, MailOnLink, CurrentOnDisk
    <2> QED BY <2>3, <2>4, <2>5, <2>6
  <1> QED BY <1>1, Inductive, AlwaysGenuine, PTL

(* A node that knows no fewer certificates than before still encrypts; if it *)
(* has lost at most one, and no longer does, it was at the limit.            *)
LEMMA StillEnabled ==
    ASSUME NEW n \in Node, NEW m \in Node, Enabled(n),
           Known(public[n]) \ {m} \subseteq Known(public'[n])
    PROVE  Enabled(n)' \/ (Count(public[n]) = EnabledFrom /\ m \in Known(public[n])
                           /\ m \notin Known(public'[n]))
  <1>1. /\ IsFiniteSet(Known(public[n])) /\ IsFiniteSet(Known(public'[n]))
        /\ Count(public[n]) = Cardinality(Known(public[n])) /\ Count(public[n]) \in Nat
        /\ Count(public'[n]) = Cardinality(Known(public'[n])) /\ Count(public'[n]) \in Nat
    BY CountFacts
  <1>2. /\ IsFiniteSet(Known(public[n]) \ {m})
        /\ Cardinality(Known(public[n]) \ {m}) =
              IF m \in Known(public[n]) THEN Cardinality(Known(public[n])) - 1
              ELSE Cardinality(Known(public[n]))
    BY <1>1, FS_RemoveElement
  <1>3. Cardinality(Known(public[n]) \ {m}) <= Cardinality(Known(public'[n]))
    BY <1>1, FS_Subset
  <1>4. CASE m \in Known(public'[n]) \/ m \notin Known(public[n])
    <2>1. Known(public[n]) \subseteq Known(public'[n])
      BY <1>4
    <2>2. Count(public[n]) <= Count(public'[n])
      BY <1>1, <2>1, FS_Subset
    <2> QED BY <1>1, <2>2, EnabledFromAssumption DEF Enabled
  <1>5. CASE m \in Known(public[n]) /\ m \notin Known(public'[n])
    <2>1. Count(public[n]) - 1 <= Count(public'[n])
      BY <1>1, <1>2, <1>3, <1>5
    <2> QED BY <1>1, <1>5, <2>1, EnabledFromAssumption DEF Enabled
  <1> QED BY <1>4, <1>5

(* What a step leaves of the certificates in use at n.                       *)
LEMMA KnownStays ==
    ASSUME IndInv, [Next]_vars, NEW n \in Node, key'[n] = key[n],
           \A m \in Node : ~CrashSaving(n, m)
    PROVE  Known(public[n]) \subseteq Known(public'[n])
  <1>1. ASSUME NEW a \in Node, NEW b \in Node, NEW c \in Key, Take(a, b, c)
        PROVE  Known(public[n]) \subseteq Known(public'[n])
    BY <1>1, TakeEffect DEF IndInv, Known
  <1>2. ASSUME NEW a \in Node, Restart(a) PROVE Known(public[n]) \subseteq Known(public'[n])
    <2>1. public'[n] \in {public[n], file[n]}
      BY <1>2 DEF Restart, IndInv, TypeOK
    <2> QED BY <2>1 DEF IndInv, CertificatesInUse, Known
  <1>3. ASSUME NEW a \in Node, Redeploy(a) PROVE Known(public[n]) \subseteq Known(public'[n])
    <2>1. a # n
      BY <1>3, MaxKeyAssumption DEF Redeploy, IndInv, TypeOK, Key
    <2>2. public'[n] = public[n]
      BY <1>3, <2>1 DEF Redeploy, IndInv, TypeOK
    <2> QED BY <2>2
  <1>4. ASSUME NEW handshake \in late, LateHandshake(handshake)
        PROVE  Known(public[n]) \subseteq Known(public'[n])
    <2>1. handshake.to \in Node /\ handshake.from \in Node /\ handshake.certificate \in Key
      BY DEF IndInv, TypeOK, Handshake
    <2> QED BY <1>1, <1>4, <2>1 DEF LateHandshake
  <1>5. ASSUME NEW a \in Node, NEW b \in Node, Answer(a, b) \/ Finish(a, b)
        PROVE  Known(public[n]) \subseteq Known(public'[n])
    <2>1. key[a] \in Key /\ key[b] \in Key
      BY DEF IndInv, TypeOK
    <2>2. Take(b, a, key[a]) \/ Take(a, b, key[b])
      BY <1>5 DEF Answer, Finish
    <2> QED BY <1>1, <2>1, <2>2
  <1>6. CASE public' = public
    BY <1>6
  <1>7. ASSUME NEW packet \in mail, Deliver(packet) \/ Reset(packet) PROVE public' = public
    BY <1>7 DEF Deliver, Reset, certificates
  <1>8. ASSUME NEW a \in Node, NEW b \in Node,
               Greet(a, b) \/ Reject(a, b) \/ Break(a, b) \/ Send(a, b)
        PROVE  public' = public
    BY <1>8 DEF Greet, Reject, Break, Send, certificates
  <1>9. ASSUME NEW a \in Node, NEW b \in Node, CrashSaving(a, b)
        PROVE  Known(public[n]) \subseteq Known(public'[n])
    <2>1. a # n
      BY <1>9
    <2>2. public'[n] = public[n]
      BY <1>9, <2>1, CrashEffect
    <2> QED BY <2>2
  <1>10. CASE UNCHANGED vars
    BY <1>6, <1>10 DEF vars
  <1> QED BY <1>2, <1>3, <1>4, <1>5, <1>6, <1>7, <1>8, <1>9, <1>10 DEF Next

(* No disconnection, late handshake or restart turns encryption off, and a   *)
(* crash while a certificate is being saved only at the limit.               *)
THEOREM StaysOn == Spec => EncryptionStaysOn
  <1>1. ASSUME IndInv, [Next]_vars, NEW n \in Node, Enabled(n), key'[n] = key[n]
        PROVE  \/ Enabled(n)'
               \/ /\ Count(public[n]) = EnabledFrom
                  /\ \E m \in Node : file[n][m] # None /\ file'[n][m] = None
    <2>1. ASSUME NEW m \in Node, CrashSaving(n, m)
          PROVE  \/ Enabled(n)'
                 \/ /\ Count(public[n]) = EnabledFrom
                    /\ \E b \in Node : file[n][b] # None /\ file'[n][b] = None
      <3>1. file'[n][m] = None /\ \A b \in Node \ {m} : public'[n][b] = file[n][b]
        BY <1>1, <2>1, CrashEffect
      <3>2. Known(public[n]) \ {m} \subseteq Known(public'[n])
        BY <1>1, <3>1 DEF IndInv, CertificatesInUse, Known
      <3>3. Enabled(n)' \/ (Count(public[n]) = EnabledFrom /\ m \in Known(public[n])
                            /\ m \notin Known(public'[n]))
        BY <1>1, <3>2, StillEnabled
      <3> QED BY <1>1, <3>1, <3>3 DEF IndInv, CertificatesInUse, Known
    <2>2. CASE \A m \in Node : ~CrashSaving(n, m)
      <3>1. Known(public[n]) \subseteq Known(public'[n])
        BY <1>1, <2>2, KnownStays
      <3> QED BY <1>1, <3>1, StillEnabled
    <2> QED BY <2>1, <2>2
  <1>2. IndInv /\ [Next]_vars
          => [\A n \in Node : Enabled(n) /\ key'[n] = key[n] =>
                 \/ Enabled(n)'
                 \/ /\ Count(public[n]) = EnabledFrom
                    /\ \E m \in Node : file[n][m] # None /\ file'[n][m] = None]_vars
    BY <1>1
  <1> QED BY <1>2, Inductive, PTL DEF Spec, EncryptionStaysOn
-----------------------------------------------------------------------------
(* A node has its own certificate, unless its deployment left none.          *)
OwnKnown == \A n \in Node : GradeOf(n) # "blank" => public[n][n] # None

LEMMA OwnInit == Init => OwnKnown
  <1> SUFFICES ASSUME Init, NEW n \in Node, GradeOf(n) # "blank"
               PROVE  public[n][n] # None
    BY DEF OwnKnown
  <1>1. file[n] \in Fetched(n, key) /\ public = file
    BY DEF Init
  <1>2. public[n][n] = key[n] /\ key[n] = 1
    BY <1>1 DEF Fetched, Init, GradeOf
  <1> QED BY <1>2 DEF None

(* Only a new deployment changes a key.                                      *)
LEMMA KeyChanges ==
    ASSUME IndInv, [Next]_vars, NEW n \in Node, key'[n] # key[n] \/ disk' # disk
    PROVE  Redeploy(n)
  <1>1. ASSUME NEW a \in Node, NEW b \in Node, NEW c, Take(a, b, c)
        PROVE  UNCHANGED <<disk, key>>
    BY <1>1 DEF Take, Learn, certificates
  <1>2. ASSUME NEW handshake \in late, LateHandshake(handshake)
        PROVE  UNCHANGED <<disk, key>>
    BY <1>1, <1>2 DEF LateHandshake, IndInv, TypeOK, Handshake
  <1>3. ASSUME NEW packet \in mail, Deliver(packet) \/ Reset(packet)
        PROVE  UNCHANGED <<disk, key>>
    BY <1>3 DEF Deliver, Reset, certificates
  <1>4. ASSUME NEW a \in Node, NEW b \in Node,
               \/ Greet(a, b) \/ Answer(a, b) \/ Finish(a, b) \/ Reject(a, b)
               \/ Break(a, b) \/ CrashSaving(a, b) \/ Send(a, b)
        PROVE  UNCHANGED <<disk, key>>
    BY <1>1, <1>4 DEF Greet, Answer, Finish, Reject, Break, CrashSaving, Send, certificates
  <1>5. ASSUME NEW a \in Node, a # n, Redeploy(a) PROVE key'[n] = key[n] /\ disk' = disk
    BY <1>5 DEF Redeploy, IndInv, TypeOK
  <1>6. ASSUME NEW a \in Node, Restart(a) PROVE UNCHANGED <<disk, key>>
    BY <1>6 DEF Restart
  <1> QED BY <1>2, <1>3, <1>4, <1>5, <1>6 DEF Next, vars

LEMMA OwnStep == IndInv /\ OwnKnown /\ [Next]_vars => OwnKnown'
  <1> SUFFICES ASSUME IndInv, OwnKnown, [Next]_vars, NEW n \in Node, GradeOf(n)' # "blank"
               PROVE  public'[n][n] # None
    BY DEF OwnKnown
  <1>1. CASE Redeploy(n)
    <2>1. PICK certs \in Fetched(n, key') : public' = [public EXCEPT ![n] = certs]
      BY <1>1 DEF Redeploy
    <2>2. public'[n] = certs
      BY <2>1 DEF IndInv, TypeOK
    <2>3. disk[n][key'[n]] # "blank"
      BY <1>1 DEF Redeploy, GradeOf
    <2>4. certs[n] = key'[n] /\ key'[n] = key[n] + 1 /\ key[n] \in Key
      BY <1>1, <2>1, <2>3 DEF Fetched, Redeploy, IndInv, TypeOK
    <2> QED BY <2>2, <2>4, MaxKeyAssumption DEF Key, None
  <1>2. CASE ~Redeploy(n)
    <2>1. key'[n] = key[n] /\ disk' = disk
      BY <1>2, KeyChanges
    <2>2. public[n][n] # None
      BY <2>1 DEF GradeOf, OwnKnown
    <2>3. ASSUME NEW m \in Node, CrashSaving(n, m) PROVE public'[n][n] # None
      <3>1. n # m /\ \A b \in Node \ {m} : public'[n][b] = file[n][b]
        BY <2>3, CrashEffect
      <3> QED BY <2>2, <3>1 DEF IndInv, CertificatesInUse
    <2>4. CASE \A m \in Node : ~CrashSaving(n, m)
      <3>1. Known(public[n]) \subseteq Known(public'[n])
        BY <2>1, <2>4, KnownStays
      <3> QED BY <2>2, <3>1 DEF Known
    <2> QED BY <2>3, <2>4
  <1> QED BY <1>1, <1>2

(* A node in touch with enough others encrypts what it sends.                *)
THEOREM EncryptsWhenConnected == Spec => []ConnectedEncrypts
  <1>1. IndInv /\ OwnKnown => ConnectedEncrypts
    <2> SUFFICES ASSUME IndInv, OwnKnown, NEW n \in Node,
                        Cardinality(InTouch(n)) + Own(n) >= EnabledFrom
                 PROVE  Enabled(n)
      BY DEF ConnectedEncrypts
    <2>1. InTouch(n) \subseteq Known(public[n]) /\ n \notin InTouch(n)
      <3>1. ASSUME NEW m \in InTouch(n) PROVE m \in Known(public[n]) /\ m # n
        <4>1. m \in Node /\ Attached(n, m) /\ file[n][m] = key[m]
          BY DEF InTouch, IndInv, CurrentOnDisk
        <4> QED BY <4>1, KeyFacts DEF IndInv, TypeOK, NoSelf, CertificatesInUse, Known, Attached
      <3> QED BY <3>1
    <2>2. IsFiniteSet(InTouch(n)) /\ Cardinality(InTouch(n)) \in Nat
      BY NodeAssumption, FS_Subset, FS_CardinalityType DEF InTouch
    <2>3. /\ IsFiniteSet(Known(public[n])) /\ Count(public[n]) \in Nat
          /\ Count(public[n]) = Cardinality(Known(public[n]))
      BY CountFacts
    <2>4. Cardinality(InTouch(n)) + Own(n) <= Count(public[n])
      <3>1. CASE GradeOf(n) = "blank"
        <4>1. Cardinality(InTouch(n)) <= Cardinality(Known(public[n])) /\ Own(n) = 0
          BY <2>1, <2>3, <3>1, FS_Subset DEF Own
        <4> QED BY <2>2, <2>3, <4>1
      <3>2. CASE GradeOf(n) # "blank"
        <4>1. InTouch(n) \cup {n} \subseteq Known(public[n]) /\ Own(n) = 1
          BY <2>1, <3>2 DEF OwnKnown, Known, Own
        <4>2. Cardinality(InTouch(n) \cup {n}) = Cardinality(InTouch(n)) + 1
          BY <2>1, <2>2, FS_AddElement
        <4>3. Cardinality(InTouch(n) \cup {n}) <= Cardinality(Known(public[n]))
          BY <2>3, <4>1, FS_Subset
        <4> QED BY <2>2, <2>3, <4>1, <4>2, <4>3
      <3> QED BY <3>1, <3>2
    <2>5. Own(n) \in Nat
      BY DEF Own
    <2> QED BY <2>2, <2>3, <2>4, <2>5, EnabledFromAssumption DEF Enabled
  <1> QED BY <1>1, Inductive, OwnInit, OwnStep, PTL DEF Spec
=============================================================================
