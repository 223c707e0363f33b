----------------------------- MODULE CodecProofs ----------------------------
(***************************************************************************)
(* The formats, for all identifiers, texts, words and numbers of messages: *)
(* what MailSerializer and the server write is what writeUDPMail and       *)
(* writeTCPMail read.                                                      *)
(*                                                                         *)
(* The argument of both halves is one of places.  Of a datagram, Holds(i,  *)
(* s) says that its bytes from place i on are those of s: the pieces that  *)
(* are written one behind the other are held one behind the other, and     *)
(* readUint16 and readString look where they are.  Of a text, IsWord(text, *)
(* n, p) says that iss >> finds its n-th word at place p: as a space is    *)
(* written behind each, the words are at the odd places.                   *)
(***************************************************************************)
EXTENDS Codec, MailProofs, SequenceTheorems, FiniteSetTheorems

-----------------------------------------------------------------------------
(* Putting pieces together. FlattenSeq of the community modules chooses a  *)
(* recursive function: what it is for up to five pieces.                   *)
FlattenRun(s, n, g) ==
    g = [i \in 1..n |-> IF i = 1 THEN s[i] ELSE g[i - 1] \o s[i]]

(* There is such a function.                                               *)
LEMMA FlattenRuns ==
    ASSUME NEW s, NEW n \in 1..5
    PROVE  \E g : FlattenRun(s, n, g)
<1> DEFINE a2 == s[1] \o s[2]
           a3 == a2 \o s[3]
           a4 == a3 \o s[4]
           a5 == a4 \o s[5]
           g == [i \in 1..n |-> IF i = 1 THEN s[1] ELSE IF i = 2 THEN a2
                                ELSE IF i = 3 THEN a3 ELSE IF i = 4 THEN a4 ELSE a5]
<1> HIDE DEF a2, a3, a4, a5
<1>1. \A i \in 1..n : g[i] = IF i = 1 THEN s[i] ELSE g[i - 1] \o s[i]
  <2> SUFFICES ASSUME NEW i \in 1..n PROVE g[i] = IF i = 1 THEN s[i] ELSE g[i - 1] \o s[i]
    OBVIOUS
  <2>1. i = 1 \/ i = 2 \/ i = 3 \/ i = 4 \/ i = 5
    OBVIOUS
  <2> QED
    BY <2>1 DEF a2, a3, a4, a5
<1>2. FlattenRun(s, n, g)
  BY <1>1 DEF FlattenRun
<1> QED
  BY <1>2

(* The same without the case distinction, for use.                         *)
FlattensTo(s, n, g) ==
    /\ g[1] = s[1]
    /\ \A i \in 2..n : g[i] = g[i - 1] \o s[i]

(* FlattenSeq yields the last of its values.                               *)
LEMMA UdpFlatten ==
    ASSUME NEW s, NEW n \in 1..5, Len(s) = n
    PROVE  \E g : Udp!FlattenSeq(s) = g[n] /\ FlattensTo(s, n, g)
<1> DEFINE c == CHOOSE g : FlattenRun(s, n, g)
<1>1. FlattenRun(s, n, c)
  BY FlattenRuns
<1>2. Udp!FlattenSeq(s) = c[n]
  BY DEF Udp!FlattenSeq, FlattenRun
<1> HIDE DEF c
<1>3. ASSUME NEW i \in 1..n
      PROVE  c[i] = IF i = 1 THEN s[i] ELSE c[i - 1] \o s[i]
  BY <1>1 DEF FlattenRun
<1>4. c[1] = s[1]
  BY <1>3
<1>5. ASSUME NEW i \in 2..n PROVE c[i] = c[i - 1] \o s[i]
  <2>1. i \in 1..n /\ i # 1
    OBVIOUS
  <2> QED
    BY <1>3, <2>1
<1>6. FlattensTo(s, n, c)
  BY <1>4, <1>5 DEF FlattensTo
<1> QED
  BY <1>2, <1>6

-----------------------------------------------------------------------------
(* Datagrams. The bytes of the buffer from place i on are those of s.      *)
Holds(i, s) ==
    /\ i + Len(s) <= Len(buffer) + 1
    /\ \A k \in 1..Len(s) : buffer[i + k - 1] = s[k]

(* The buffer holds itself,                                                *)
LEMMA HoldsAll ==
    ASSUME NEW s \in Seq(Nat), buffer = s
    PROVE  Holds(1, s)
BY LenProperties DEF Holds

(* and, of two pieces one behind the other, each in its place.             *)
LEMMA HoldsParts ==
    ASSUME NEW i \in Nat, NEW a \in Seq(Nat), NEW b \in Seq(Nat),
           Holds(i, a \o b)
    PROVE  Holds(i, a) /\ Holds(i + Len(a), b)
<1>1. Len(a) \in Nat /\ Len(b) \in Nat /\ Len(a \o b) = Len(a) + Len(b)
  BY LenProperties, ConcatProperties
<1>2. \A k \in 1..Len(a) : (a \o b)[k] = a[k]
  BY ConcatProperties
<1>3. \A k \in 1..Len(b) : (a \o b)[Len(a) + k] = b[k]
  BY <1>1
<1>4. PICK c : c = a \o b
  OBVIOUS
<1>5. Holds(i, a)
  BY <1>1, <1>2, <1>4 DEF Holds
<1>6. ASSUME NEW k \in 1..Len(b) PROVE buffer[i + Len(a) + k - 1] = b[k]
  <2>1. Len(a) + k \in 1..Len(c) /\ c[Len(a) + k] = b[k]
    BY <1>1, <1>3, <1>4
  <2>2. buffer[i + (Len(a) + k) - 1] = c[Len(a) + k]
    BY <2>1, <1>4 DEF Holds
  <2>3. i + (Len(a) + k) - 1 = i + Len(a) + k - 1
    BY <1>1
  <2> QED
    BY <2>1, <2>2, <2>3
<1>7. Holds(i + Len(a), b)
  <2>1. i + Len(c) <= Len(buffer) + 1
    BY <1>4 DEF Holds
  <2>2. (i + Len(a)) + Len(b) = i + Len(c)
    BY <1>1, <1>4
  <2> QED
    BY <1>6, <2>1, <2>2 DEF Holds
<1> QED
  BY <1>5, <1>7

(* Without the zero that ends it.                                          *)
Text == Seq(1..255)

(* readString, where a text and its zero are held: it stops at that zero,  *)
(* as a text has none, and yields the text.                                *)
LEMMA StringHeld ==
    ASSUME NEW i \in Nat \ {0}, NEW text \in Text, Len(buffer) \in Nat,
           Holds(i, Udp!CString(text))
    PROVE  Udp!EndOfString(i) = i + Len(text) /\ Udp!StringAt(i) = text
<1> DEFINE n == Len(text)
           e == i + n
<1>1. n \in Nat /\ \A k \in 1..n : text[k] \in 1..255
  BY LenProperties, ElementOfSeq DEF Text
<1>2. PICK c : c = Udp!CString(text)
  OBVIOUS
<1>3. Len(c) = n + 1 /\ c[n + 1] = 0 /\ \A k \in 1..n : c[k] = text[k]
  BY <1>1, <1>2, AppendProperties DEF Text, Udp!CString
<1>4. i + n <= Len(buffer) /\ \A k \in 1..(n + 1) : buffer[i + k - 1] = c[k]
  BY <1>1, <1>2, <1>3 DEF Holds
<1>5. Udp!Byte(e) = 0
  <2>1. n + 1 \in 1..(n + 1) /\ i + (n + 1) - 1 = e
    BY <1>1
  <2>2. buffer[e] = 0
    BY <1>3, <1>4, <2>1
  <2> QED
    BY <2>2 DEF Udp!Byte
<1>6. \A k \in 1..n : Udp!Byte(i + k - 1) = text[k]
  BY <1>1, <1>3, <1>4 DEF Udp!Byte
<1>7. \A j \in i..(e - 1) : Udp!Byte(j) # 0
  <2> SUFFICES ASSUME NEW j \in i..(e - 1) PROVE Udp!Byte(j) # 0
    OBVIOUS
  <2>1. PICK k \in 1..n : i + k - 1 = j
    <3>1. j - i + 1 \in 1..n /\ i + (j - i + 1) - 1 = j
      BY <1>1
    <3> QED
      BY <3>1
  <2>2. Udp!Byte(j) = text[k] /\ text[k] \in 1..255
    BY <1>1, <1>6, <2>1
  <2>3. \A z \in 1..255 : z # 0
    OBVIOUS
  <2> QED
    BY <2>2, <2>3
<1> DEFINE P(j) == Udp!Byte(j) = 0 /\ \A k \in i..(j - 1) : Udp!Byte(k) # 0
<1>8. e \in i..(i + Len(buffer)) /\ P(e)
  BY <1>1, <1>4, <1>5, <1>7
<1>9. Udp!EndOfString(i) = e
  <2>1. Udp!EndOfString(i) = CHOOSE j \in i..(i + Len(buffer)) : P(j)
    BY DEF Udp!EndOfString
  <2>2. \A j \in i..(i + Len(buffer)) : P(j) => j = e
    <3> SUFFICES ASSUME NEW j \in i..(i + Len(buffer)), P(j), j # e PROVE FALSE
      OBVIOUS
    <3>1. CASE j < e
      BY <1>1, <1>7, <3>1
    <3>2. CASE j > e
      <4>1. e \in i..(j - 1)
        BY <1>1, <3>2
      <4> QED
        BY <4>1, <1>5
    <3> QED
      BY <1>1, <3>1, <3>2
  <2> HIDE DEF P
  <2> QED
    BY <1>8, <2>1, <2>2
<1>10. Udp!StringAt(i) = [k \in 1..n |-> text[k]]
  <2>1. Udp!EndOfString(i) - i = n
    BY <1>1, <1>9
  <2> QED
    BY <1>6, <2>1 DEF Udp!StringAt
<1>11. text = [k \in 1..n |-> text[k]]
  BY <1>1 DEF Text
<1> QED
  BY <1>9, <1>10, <1>11

(* What is written of the texts: each with its zero.                       *)
TextBytes(texts) == [k \in 1..Len(texts) |-> Udp!CString(texts[k])]

(* A text and its zero are bytes, one more than the text has.              *)
LEMMA CStringType ==
    ASSUME NEW text \in Text
    PROVE  Udp!CString(text) \in Seq(Nat) /\ Len(Udp!CString(text)) = Len(text) + 1
<1>1. text \in Seq(Nat)
  <2>1. 1..255 \subseteq Nat
    OBVIOUS
  <2> QED
    BY <2>1, SeqMonotonic DEF Text
<1> QED
  BY <1>1, AppendProperties DEF Udp!CString

(* readString, as often as there are texts.                                *)
LEMMA TextsHeld ==
    ASSUME NEW i \in Nat \ {0}, NEW n \in 0..3, NEW texts \in [1..n -> Text],
           Len(buffer) \in Nat, Holds(i, Udp!FlattenSeq(TextBytes(texts)))
    PROVE  Udp!StringsFrom(i, n) = texts
<1> DEFINE F(f) == [k \in 1..n |-> IF k = 1 THEN i ELSE Udp!EndOfString(f[k - 1]) + 1]
           start == CHOOSE f : f = F(f)
           s == TextBytes(texts)
<1>1. Len(texts) = n /\ Len(s) = n /\ \A k \in 1..n : s[k] = Udp!CString(texts[k])
  BY DEF TextBytes
<1>2. Udp!StringsFrom(i, n) = [k \in 1..n |-> Udp!StringAt(start[k])]
  BY DEF Udp!StringsFrom
<1>3. start = F(start)
  <2> DEFINE e1 == Udp!EndOfString(i) + 1
             e2 == Udp!EndOfString(e1) + 1
             g == [k \in 1..n |-> IF k = 1 THEN i ELSE IF k = 2 THEN e1 ELSE e2]
  <2> HIDE DEF e1, e2
  <2>1. \A k \in 1..n : g[k] = IF k = 1 THEN i ELSE Udp!EndOfString(g[k - 1]) + 1
    <3> SUFFICES ASSUME NEW k \in 1..n
                 PROVE  g[k] = IF k = 1 THEN i ELSE Udp!EndOfString(g[k - 1]) + 1
      OBVIOUS
    <3>1. k = 1 \/ k = 2 \/ k = 3
      OBVIOUS
    <3> QED
      BY <3>1 DEF e1, e2
  <2>2. g = F(g)
    BY <2>1
  <2> QED
    BY <2>2
<1> HIDE DEF start
<1>4. \A k \in 1..n : start[k] = IF k = 1 THEN i ELSE Udp!EndOfString(start[k - 1]) + 1
  BY <1>3
<1> HIDE DEF s
<1>5. CASE n = 0
  BY <1>2, <1>5
<1>6. CASE n # 0
  <2>1. n \in 1..5 /\ Len(s) = n /\ n \in 1..n /\ 1 \in 1..n
    BY <1>1, <1>6
  <2>2. PICK g : Udp!FlattenSeq(s) = g[n] /\ FlattensTo(s, n, g)
    BY <2>1, UdpFlatten
  <2>3. g[1] = s[1] /\ \A k \in 2..n : g[k] = g[k - 1] \o s[k]
    BY <2>2 DEF FlattensTo
  <2>4. ASSUME NEW k \in 1..n
        PROVE  texts[k] \in Text /\ s[k] = Udp!CString(texts[k]) /\ s[k] \in Seq(Nat)
    BY <1>1, CStringType
  <2>5. ASSUME NEW k \in 1..n PROVE g[k] \in Seq(Nat)
    <3>1. g[1] \in Seq(Nat)
      BY <2>1, <2>3, <2>4
    <3>2. ASSUME NEW j \in 2..n, g[j - 1] \in Seq(Nat) PROVE g[j] \in Seq(Nat)
      <4>1. j \in 1..n
        OBVIOUS
      <4>2. PICK a \in Seq(Nat), b \in Seq(Nat) : g[j] = a \o b
        BY <2>3, <2>4, <3>2, <4>1
      <4>3. a \o b \in Seq(Nat)
        BY ConcatProperties
      <4> QED
        BY <4>2, <4>3
    <3>3. k = 1 \/ (k = 2 /\ 2 \in 2..n) \/ (k = 3 /\ 2 \in 2..n /\ 3 \in 2..n)
      OBVIOUS
    <3> QED
      BY <3>1, <3>2, <3>3
  <2>6. ASSUME NEW k \in 2..n, Holds(i, g[k])
        PROVE  Holds(i, g[k - 1]) /\ Holds(i + Len(g[k - 1]), s[k])
    <3>1. k \in 1..n /\ k - 1 \in 1..n
      OBVIOUS
    <3>2. PICK a \in Seq(Nat), b \in Seq(Nat) : a = g[k - 1] /\ b = s[k] /\ g[k] = a \o b
      BY <2>3, <2>4, <2>5, <3>1
    <3>3. Holds(i, a \o b)
      BY <2>6, <3>2
    <3>4. Holds(i, a) /\ Holds(i + Len(a), b)
      BY <3>3, HoldsParts
    <3> QED
      BY <3>2, <3>4
  <2>7. Holds(i, g[n])
    BY <2>2 DEF s
  <2>8. ASSUME NEW k \in 1..n PROVE Holds(i, g[k])
    <3>1. \A j \in 2..n : Holds(i, g[j]) => Holds(i, g[j - 1])
      BY <2>6
    <3>2. \/ k = n
          \/ k = n - 1 /\ n \in 2..n
          \/ k = n - 2 /\ n \in 2..n /\ n - 1 \in 2..n /\ (n - 1) - 1 = k
      OBVIOUS
    <3> QED
      BY <2>7, <3>1, <3>2
  <2>9. ASSUME NEW k \in 1..n, NEW p \in Nat \ {0}, Holds(p, s[k])
        PROVE  Udp!StringAt(p) = texts[k] /\ Udp!EndOfString(p) + 1 = p + Len(s[k])
    <3>1. Len(s[k]) = Len(texts[k]) + 1
      BY <2>4, CStringType, Zenon
    <3>3. Len(texts[k]) \in Nat
      BY <2>4, LenProperties DEF Text
    <3>2. Udp!StringAt(p) = texts[k] /\ Udp!EndOfString(p) = p + Len(texts[k])
      BY <2>4, <2>9, StringHeld
    <3> QED
      BY <3>1, <3>2, <3>3
  <2>10. start[1] = i /\ Udp!StringAt(start[1]) = texts[1]
         /\ Udp!EndOfString(start[1]) + 1 = i + Len(g[1])
    BY <1>4, <2>1, <2>3, <2>8, <2>9
  <2>11. ASSUME NEW k \in 2..n, Udp!EndOfString(start[k - 1]) + 1 = i + Len(g[k - 1])
         PROVE  Udp!StringAt(start[k]) = texts[k]
                /\ Udp!EndOfString(start[k]) + 1 = i + Len(g[k])
    <3>1. k \in 1..n /\ k # 1 /\ k - 1 \in 1..n
      OBVIOUS
    <3>2. start[k] = i + Len(g[k - 1])
      BY <1>4, <2>11, <3>1
    <3>3. g[k - 1] \in Seq(Nat) /\ s[k] \in Seq(Nat) /\ g[k] = g[k - 1] \o s[k]
      BY <2>3, <2>4, <2>5, <3>1
    <3>4. Len(g[k - 1]) \in Nat /\ Len(s[k]) \in Nat /\ Len(g[k]) = Len(g[k - 1]) + Len(s[k])
      BY <3>3, LenProperties, ConcatProperties
    <3>5. PICK p \in Nat \ {0} : p = i + Len(g[k - 1])
      BY <3>4
    <3>6. Holds(p, s[k])
      BY <2>6, <2>8, <3>1, <3>5
    <3>7. Udp!StringAt(p) = texts[k] /\ Udp!EndOfString(p) + 1 = p + Len(s[k])
      BY <2>9, <3>1, <3>6
    <3>8. p + Len(s[k]) = i + Len(g[k])
      <4>1. PICK u \in Nat, v \in Nat :
              Len(g[k - 1]) = u /\ Len(s[k]) = v /\ Len(g[k]) = u + v
        BY <3>4
      <4>2. p = i + u
        BY <3>5, <4>1
      <4>3. p + v = i + (u + v)
        BY <4>2
      <4> QED
        BY <4>1, <4>3
    <3>9. start[k] = p
      BY <3>2, <3>5
    <3> QED
      BY <3>7, <3>8, <3>9
  <2>12. ASSUME NEW k \in 1..n PROVE Udp!StringAt(start[k]) = texts[k]
    <3>1. k = 1 \/ (k = 2 /\ 2 \in 2..n) \/ (k = 3 /\ 2 \in 2..n /\ 3 \in 2..n)
      OBVIOUS
    <3> QED
      BY <2>10, <2>11, <3>1
  <2>13. Udp!StringsFrom(i, n) = [k \in 1..n |-> texts[k]]
    BY <1>2, <2>12
  <2> QED
    BY <2>13
<1> QED
  BY <1>5, <1>6

-----------------------------------------------------------------------------
(* What is known of a message.                                             *)
IsMessage(m) ==
    /\ m.type \in MessageType
    /\ m.id \in IF m.type = "CONFIRM" THEN {NoId} ELSE Ids
    /\ m.ref \in IF m.type \in {"CONFIRM", "REPLY"} THEN Ids ELSE {NoId}
    /\ m.result \in IF m.type = "REPLY" THEN BOOLEAN ELSE {FALSE}
    /\ Len(Udp!Fields[m.type]) \in 0..3
    /\ m.texts \in [1..Len(Udp!Fields[m.type]) -> Text]

(* Every member of Message is one.                                         *)
LEMMA Messages ==
    ASSUME NEW m \in Udp!Message
    PROVE  IsMessage(m)
<1>1. PICK t \in MessageType :
        m \in [ type   : {t},
                id     : IF t = "CONFIRM" THEN {NoId} ELSE Ids,
                ref    : IF t \in {"CONFIRM", "REPLY"} THEN Ids ELSE {NoId},
                result : IF t = "REPLY" THEN BOOLEAN ELSE {FALSE},
                texts  : Udp!TextsOf(t) ]
  BY DEF Udp!Message, Udp!MessageType, MessageType, Udp!NoId, NoId
<1>2. /\ m = [type |-> m.type, id |-> m.id, ref |-> m.ref, result |-> m.result,
              texts |-> m.texts]
      /\ m.type = t /\ m.texts \in Udp!TextsOf(t)
      /\ m.id \in IF t = "CONFIRM" THEN {NoId} ELSE Ids
      /\ m.ref \in IF t \in {"CONFIRM", "REPLY"} THEN Ids ELSE {NoId}
      /\ m.result \in IF t = "REPLY" THEN BOOLEAN ELSE {FALSE}
  BY <1>1
<1>3. Len(Udp!Fields[t]) \in 0..3
  BY DEF MessageType, Udp!Fields
<1>4. m.texts \in [1..Len(Udp!Fields[t]) -> Text]
  <2>1. PICK n \in 0..3 : m.texts \in [1..n -> Names \cup Contents]
    BY <1>2 DEF Udp!TextsOf
  <2>2. Len(m.texts) = n /\ Len(m.texts) = Len(Udp!Fields[t])
    BY <1>2, <2>1 DEF Udp!TextsOf
  <2> QED
    BY <2>1, <2>2, TextsAssumption DEF Text
<1> QED
  BY <1>2, <1>3, <1>4 DEF IsMessage

(* A message has no other fields.                                          *)
LEMMA MessageRecord ==
    ASSUME NEW m \in Udp!Message
    PROVE  m = [type |-> m.type, id |-> m.id, ref |-> m.ref, result |-> m.result,
                texts |-> m.texts]
<1>1. PICK t \in MessageType :
        m \in [ type   : {t},
                id     : IF t = "CONFIRM" THEN {NoId} ELSE Ids,
                ref    : IF t \in {"CONFIRM", "REPLY"} THEN Ids ELSE {NoId},
                result : IF t = "REPLY" THEN BOOLEAN ELSE {FALSE},
                texts  : Udp!TextsOf(t) ]
  BY DEF Udp!Message, Udp!MessageType, MessageType, Udp!NoId, NoId
<1> QED
  BY <1>1

UInt16 == {n \in Nat : n < 65536}

(* Identifiers fit two bytes,                                              *)
LEMMA IdsAreUInt16 == Ids \subseteq UInt16
BY IdsAssumption DEF UInt16

(* The identifier behind the type.                                         *)
FirstId(m) == IF m.type = "CONFIRM" THEN m.ref ELSE m.id

(* and there is one behind the type, of every type.                        *)
LEMMA MessageIds ==
    ASSUME NEW m, IsMessage(m)
    PROVE  FirstId(m) \in UInt16 /\ (m.type = "REPLY" => m.ref \in UInt16)
<1>1. /\ m.id \in IF m.type = "CONFIRM" THEN {NoId} ELSE Ids
      /\ m.ref \in IF m.type \in {"CONFIRM", "REPLY"} THEN Ids ELSE {NoId}
  BY DEF IsMessage
<1>2. m.type # "CONFIRM" => m.id \in Ids
  BY <1>1
<1>3. m.type \in {"CONFIRM", "REPLY"} => m.ref \in Ids
  BY <1>1
<1>4. CASE m.type = "CONFIRM"
  <2>1. FirstId(m) = m.ref /\ m.ref \in Ids
    BY <1>3, <1>4 DEF FirstId
  <2> QED
    BY <1>4, <2>1, IdsAreUInt16
<1>5. CASE m.type # "CONFIRM"
  <2>1. FirstId(m) = m.id /\ m.id \in Ids
    BY <1>2, <1>5 DEF FirstId
  <2>2. FirstId(m) \in UInt16
    BY <2>1, IdsAreUInt16
  <2>3. m.type = "REPLY" => m.ref \in UInt16
    BY <1>3, IdsAreUInt16
  <2> QED
    BY <2>2, <2>3
<1> QED
  BY <1>4, <1>5

(* No two types have one byte.                                             *)
LEMMA Codes ==
    ASSUME NEW t \in MessageType
    PROVE  /\ Udp!Code[t] \in Nat
           /\ \A u \in MessageType : Udp!Code[u] = Udp!Code[t] => u = t
BY DEF MessageType, Udp!Code

(* Two bytes, big end first.                                               *)
LEMMA Bytes2 ==
    ASSUME NEW n \in UInt16
    PROVE  /\ Udp!BigEndian(n) \in Seq(Nat) /\ Len(Udp!BigEndian(n)) = 2
           /\ Udp!BigEndian(n)[1] = n \div 256 /\ Udp!BigEndian(n)[2] = n % 256
BY DEF Udp!BigEndian, UInt16

(* readUint16, where the two bytes of an identifier are held: what Mail    *)
(* says is read.                                                           *)
LEMMA IdHeld ==
    ASSUME NEW n \in UInt16, NEW i \in Nat \ {0}, Len(buffer) \in Nat,
           Holds(i, Udp!BigEndian(n))
    PROVE  Udp!UInt16At(i) = AsRead(n)
<1> DEFINE s == Udp!BigEndian(n)
<1>1. s \in Seq(Nat) /\ Len(s) = 2 /\ s[1] = n \div 256 /\ s[2] = n % 256
  BY Bytes2
<1> HIDE DEF s
<1>2. i + 2 <= Len(buffer) + 1 /\ \A k \in 1..2 : buffer[i + k - 1] = s[k]
  BY <1>1 DEF Holds, s
<1>3. i + 1 - 1 = i /\ i + 2 - 1 = i + 1
  OBVIOUS
<1>4. buffer[i] = n \div 256 /\ buffer[i + 1] = n % 256
  BY <1>1, <1>2, <1>3
<1>5. Udp!Byte(i) = n \div 256 /\ Udp!Byte(i + 1) = n % 256
  BY <1>2, <1>4 DEF Udp!Byte
<1>6. n # NoId
  BY DEF NoId, UInt16
<1> QED
  BY <1>5, <1>6 DEF Udp!UInt16At, AsRead, Udp!ReadUInt16, ReadUInt16, Udp!Char, Char

(* The texts with their zeros are one sequence of bytes.                   *)
LEMMA TextsFlat ==
    ASSUME NEW n \in 0..3, NEW texts \in [1..n -> Text]
    PROVE  Udp!FlattenSeq(TextBytes(texts)) \in Seq(Nat)
<1> DEFINE s == TextBytes(texts)
<1>1. Len(s) = n /\ \A k \in 1..n : s[k] = Udp!CString(texts[k]) /\ texts[k] \in Text
  BY DEF TextBytes
<1>2. \A k \in 1..n : s[k] \in Seq(Nat)
  BY <1>1, CStringType
<1> HIDE DEF s
<1>3. CASE n = 0
  <2>1. s = <<>>
    BY <1>3 DEF s, TextBytes
  <2> QED
    BY <1>1, <1>3, <2>1 DEF Udp!FlattenSeq, s
<1>4. CASE n # 0
  <2>1. n \in 1..5 /\ Len(s) = n
    BY <1>1, <1>4
  <2>2. PICK g : Udp!FlattenSeq(s) = g[n] /\ FlattensTo(s, n, g)
    BY <2>1, UdpFlatten
  <2>3. g[1] = s[1] /\ \A k \in 2..n : g[k] = g[k - 1] \o s[k]
    BY <2>2 DEF FlattensTo
  <2>4. g[1] \in Seq(Nat)
    BY <1>2, <2>1, <2>3
  <2>5. ASSUME NEW j \in 2..n, g[j - 1] \in Seq(Nat) PROVE g[j] \in Seq(Nat)
    <3>1. j \in 1..n
      OBVIOUS
    <3>2. PICK a \in Seq(Nat), b \in Seq(Nat) : g[j] = a \o b
      BY <1>2, <2>3, <2>5, <3>1
    <3>3. a \o b \in Seq(Nat)
      BY ConcatProperties
    <3> QED
      BY <3>2, <3>3
  <2>6. n = 1 \/ (n = 2 /\ 2 \in 2..n) \/ (n = 3 /\ 2 \in 2..n /\ 3 \in 2..n)
    BY <1>4
  <2>7. g[n] \in Seq(Nat)
    BY <2>4, <2>5, <2>6
  <2> QED
    BY <2>2, <2>7 DEF s
<1> QED
  BY <1>3, <1>4

(* Four pieces of a datagram.                                              *)
LEMMA FourParts ==
    ASSUME NEW c \in Seq(Nat), NEW d \in Seq(Nat), NEW e \in Seq(Nat), NEW t \in Seq(Nat),
           Len(c) = 1, Len(d) = 2, buffer = ((c \o d) \o e) \o t
    PROVE  /\ Len(buffer) \in Nat /\ Holds(1, c) /\ Holds(2, d)
           /\ Holds(4, e) /\ Holds(4 + Len(e), t)
<1>1. PICK cd \in Seq(Nat) : cd = c \o d
  BY ConcatProperties
<1>2. PICK cde \in Seq(Nat) : cde = cd \o e
  BY ConcatProperties
<1>3. PICK all \in Seq(Nat) : all = cde \o t
  BY ConcatProperties
<1>4. Len(cd) = 3
  <2>1. Len(c \o d) = Len(c) + Len(d)
    BY ConcatProperties
  <2> QED
    BY <1>1, <2>1
<1>5. Len(e) \in Nat /\ Len(cde) = 3 + Len(e)
  <2>1. Len(cd \o e) = Len(cd) + Len(e)
    BY ConcatProperties
  <2>2. Len(e) \in Nat
    BY LenProperties
  <2> QED
    BY <1>2, <1>4, <2>1, <2>2
<1>6. buffer = all
  BY <1>1, <1>2, <1>3
<1>7. Len(buffer) \in Nat /\ Holds(1, all)
  BY <1>6, HoldsAll, LenProperties
<1>8. Holds(1, cde) /\ Holds(1 + Len(cde), t)
  BY <1>3, <1>7, HoldsParts
<1>9. 1 + Len(cde) = 4 + Len(e)
  BY <1>5
<1>10. Holds(1, cd) /\ Holds(1 + Len(cd), e)
  BY <1>2, <1>8, HoldsParts
<1>11. Holds(1, c) /\ Holds(1 + Len(c), d)
  BY <1>1, <1>10, HoldsParts
<1>12. 1 + Len(cd) = 4 /\ 1 + Len(c) = 2
  BY <1>4
<1> QED
  BY <1>7, <1>8, <1>9, <1>10, <1>11, <1>12

(* A datagram, by its parts; result is what is between the identifiers.    *)
IsLayout(m, result) ==
    LET b == <<Udp!Code[m.type]>> \o Udp!BigEndian(FirstId(m))
        t == Udp!FlattenSeq(TextBytes(m.texts))
    IN  buffer = (IF m.type = "REPLY" THEN (b \o (result \o Udp!BigEndian(m.ref))) \o t
                  ELSE (b \o <<>>) \o t)

(* A datagram holds its parts one behind the other.                        *)
LEMMA LayoutParts ==
    ASSUME NEW m, NEW result, buffer = Udp!Layout(m, result)
    PROVE  IsLayout(m, result)
<1>1. TextBytes(m.texts) = [i \in 1..Len(m.texts) |-> Udp!CString(m.texts[i])]
  BY DEF TextBytes
<1>2. CASE m.type = "CONFIRM"
  BY <1>1, <1>2 DEF Udp!Layout, IsLayout, FirstId
<1>3. CASE m.type # "CONFIRM"
  BY <1>1, <1>3 DEF Udp!Layout, IsLayout, FirstId
<1> QED
  BY <1>2, <1>3

(* What writeUDPMail finds where it looks.                                 *)
LEMMA HeadHeld ==
    ASSUME NEW m, IsMessage(m), NEW e \in Seq(Nat), NEW t \in Seq(Nat),
           buffer = ((<<Udp!Code[m.type]>> \o Udp!BigEndian(FirstId(m))) \o e) \o t
    PROVE  /\ Len(buffer) \in Nat /\ Holds(4, e) /\ Holds(4 + Len(e), t)
           /\ Udp!Byte(1) = Udp!Code[m.type] /\ Udp!UInt16At(2) = AsRead(FirstId(m))
<1> DEFINE c == <<Udp!Code[m.type]>>
           d == Udp!BigEndian(FirstId(m))
<1>1. FirstId(m) \in UInt16
  BY MessageIds
<1>2. d \in Seq(Nat) /\ Len(d) = 2
  BY <1>1, Bytes2
<1>3. Udp!Code[m.type] \in Nat
  BY Codes DEF IsMessage
<1>4. c \in Seq(Nat) /\ Len(c) = 1 /\ c[1] = Udp!Code[m.type]
  BY <1>3
<1>5. buffer = ((c \o d) \o e) \o t
  OBVIOUS
<1> HIDE DEF c, d
<1>6. /\ Len(buffer) \in Nat /\ Holds(1, c) /\ Holds(2, d)
      /\ Holds(4, e) /\ Holds(4 + Len(e), t)
  BY <1>2, <1>4, <1>5, FourParts
<1>7. Udp!Byte(1) = Udp!Code[m.type]
  <2>1. 1 + Len(c) <= Len(buffer) + 1 /\ \A k \in 1..Len(c) : buffer[1 + k - 1] = c[k]
    BY <1>6 DEF Holds
  <2>2. 1 <= Len(buffer) /\ buffer[1 + 1 - 1] = c[1]
    BY <1>4, <1>6, <2>1
  <2>3. 1 + 1 - 1 = 1
    OBVIOUS
  <2>4. buffer[1] = c[1]
    BY <2>2, <2>3
  <2> QED
    BY <1>4, <2>2, <2>4 DEF Udp!Byte
<1>8. Udp!UInt16At(2) = AsRead(FirstId(m))
  BY <1>1, <1>6, IdHeld DEF d
<1> QED
  BY <1>6, <1>7, <1>8

(* From place i on, as many texts are read as the type has, and they are   *)
(* those of m.                                                             *)
TextsAt(m, i) == Udp!StringsFrom(i, Len(Udp!Fields[m.type])) = m.texts

(* They are, where their bytes are held.                                   *)
LEMMA MessageTexts ==
    ASSUME NEW m, IsMessage(m)
    PROVE  LET t == Udp!FlattenSeq(TextBytes(m.texts))
           IN  /\ t \in Seq(Nat)
               /\ \A i \in Nat \ {0} :
                     Len(buffer) \in Nat /\ Holds(i, t) => TextsAt(m, i)
<1> DEFINE n == Len(Udp!Fields[m.type])
<1>1. n \in 0..3 /\ m.texts \in [1..n -> Text]
  BY DEF IsMessage
<1> HIDE DEF n
<1>2. Udp!FlattenSeq(TextBytes(m.texts)) \in Seq(Nat)
  BY <1>1, TextsFlat
<1>3. ASSUME NEW i \in Nat \ {0}, Len(buffer) \in Nat,
             Holds(i, Udp!FlattenSeq(TextBytes(m.texts)))
      PROVE  TextsAt(m, i)
  <2>1. Udp!StringsFrom(i, n) = m.texts
    BY <1>1, <1>3, TextsHeld
  <2> QED
    BY <2>1 DEF TextsAt, n
<1> QED
  BY <1>2, <1>3

(* What is found in a datagram of any type but REPLY, and                  *)
LEMMA OthersRead ==
    ASSUME NEW m, IsMessage(m), m.type # "REPLY", NEW result,
           buffer = Udp!Layout(m, result)
    PROVE  /\ Udp!Byte(1) = Udp!Code[m.type] /\ Udp!UInt16At(2) = AsRead(FirstId(m))
           /\ TextsAt(m, 4)
<1> DEFINE t == Udp!FlattenSeq(TextBytes(m.texts))
<1>1. buffer = ((<<Udp!Code[m.type]>> \o Udp!BigEndian(FirstId(m))) \o <<>>) \o t
  BY LayoutParts DEF IsLayout
<1>2. t \in Seq(Nat) /\ <<>> \in Seq(Nat) /\ Len(<<>>) = 0
  BY MessageTexts
<1>3. \A i \in Nat \ {0} : Len(buffer) \in Nat /\ Holds(i, t) => TextsAt(m, i)
  BY MessageTexts
<1> HIDE DEF t
<1>4. /\ Len(buffer) \in Nat /\ Holds(4 + Len(<<>>), t)
      /\ Udp!Byte(1) = Udp!Code[m.type] /\ Udp!UInt16At(2) = AsRead(FirstId(m))
  BY <1>1, <1>2, HeadHeld
<1>5. Holds(4, t)
  BY <1>2, <1>4
<1> QED
  BY <1>3, <1>4, <1>5

(* in a REPLY, which has a byte and an identifier more.                    *)
LEMMA ReplyRead ==
    ASSUME NEW m, IsMessage(m), m.type = "REPLY", NEW b \in Nat,
           buffer = Udp!Layout(m, <<b>>)
    PROVE  /\ Udp!Byte(1) = Udp!Code[m.type] /\ Udp!UInt16At(2) = AsRead(FirstId(m))
           /\ Udp!Byte(4) = b /\ Udp!UInt16At(5) = AsRead(m.ref) /\ TextsAt(m, 7)
<1> DEFINE t == Udp!FlattenSeq(TextBytes(m.texts))
           f == Udp!BigEndian(m.ref)
           r == <<b>>
           e == r \o f
<1>1. buffer = ((<<Udp!Code[m.type]>> \o Udp!BigEndian(FirstId(m))) \o e) \o t
  BY LayoutParts DEF IsLayout
<1>2. t \in Seq(Nat)
  BY MessageTexts
<1>3. \A i \in Nat \ {0} : Len(buffer) \in Nat /\ Holds(i, t) => TextsAt(m, i)
  BY MessageTexts
<1>4. m.ref \in UInt16
  BY MessageIds
<1>5. f \in Seq(Nat) /\ Len(f) = 2
  BY <1>4, Bytes2
<1>6. r \in Seq(Nat) /\ Len(r) = 1 /\ r[1] = b
  OBVIOUS
<1> HIDE DEF f, r, t
<1>7. e \in Seq(Nat) /\ Len(e) = 3
  <2>1. Len(r \o f) = Len(r) + Len(f) /\ r \o f \in Seq(Nat)
    BY <1>5, <1>6, ConcatProperties
  <2> QED
    BY <1>5, <1>6, <2>1
<1>8. /\ Len(buffer) \in Nat /\ Holds(4, r \o f) /\ Holds(4 + Len(e), t)
      /\ Udp!Byte(1) = Udp!Code[m.type] /\ Udp!UInt16At(2) = AsRead(FirstId(m))
  <2> HIDE DEF e
  <2>1. /\ Len(buffer) \in Nat /\ Holds(4, e) /\ Holds(4 + Len(e), t)
        /\ Udp!Byte(1) = Udp!Code[m.type] /\ Udp!UInt16At(2) = AsRead(FirstId(m))
    BY <1>1, <1>2, <1>7, HeadHeld
  <2> QED
    BY <2>1 DEF e
<1> HIDE DEF e
<1>9. Holds(4, r) /\ Holds(4 + Len(r), f)
  BY <1>5, <1>6, <1>8, HoldsParts
<1>10. Holds(5, f) /\ Holds(7, t)
  BY <1>6, <1>7, <1>8, <1>9
<1>11. Udp!Byte(4) = b
  <2>1. 4 + Len(r) <= Len(buffer) + 1 /\ \A k \in 1..Len(r) : buffer[4 + k - 1] = r[k]
    BY <1>9 DEF Holds
  <2>2. 4 <= Len(buffer) /\ buffer[4 + 1 - 1] = b
    BY <1>6, <1>8, <2>1
  <2>3. 4 + 1 - 1 = 4
    OBVIOUS
  <2>4. buffer[4] = b
    BY <2>2, <2>3
  <2> QED
    BY <2>2, <2>4 DEF Udp!Byte
<1>12. Udp!UInt16At(5) = AsRead(m.ref)
  BY <1>4, <1>8, <1>10, IdHeld DEF f
<1> QED
  BY <1>3, <1>8, <1>10, <1>11, <1>12

-----------------------------------------------------------------------------
(* What writeUDPMail makes of a message.                                   *)
Read(m) ==
    IF ~Udp!AllValid(m.type, m.texts) THEN Udp!Throws
    ELSE [ type |-> m.type, id |-> AsRead(m.id), ref |-> AsRead(m.ref),
           result |-> m.result, texts |-> m.texts ]

(* The same of the bytes, once the type is known.                          *)
ReadAs(t) ==
    LET texts == Udp!StringsFrom(IF t = "REPLY" THEN 7 ELSE 4, Len(Udp!Fields[t]))
    IN  IF ~Udp!AllValid(t, texts) THEN Udp!Throws
        ELSE [ type   |-> t,
               id     |-> IF t = "CONFIRM" THEN NoId ELSE Udp!UInt16At(2),
               ref    |-> CASE t = "CONFIRM" -> Udp!UInt16At(2)
                            [] t = "REPLY" -> Udp!UInt16At(5)
                            [] OTHER -> NoId,
               result |-> t = "REPLY" /\ Udp!Byte(4) # 0,
               texts  |-> texts ]

(* The first byte tells the type.                                          *)
LEMMA TypeRead ==
    ASSUME NEW t \in MessageType, Udp!Byte(1) = Udp!Code[t]
    PROVE  Udp!Decode = ReadAs(t)
<1> DEFINE u == IF \E v \in MessageType : Udp!Code[v] = Udp!Byte(1)
                THEN CHOOSE v \in MessageType : Udp!Code[v] = Udp!Byte(1) ELSE "UNKNOWN"
<1>1. \A v \in MessageType : Udp!Code[v] = Udp!Byte(1) => v = t
  BY Codes
<1>2. u = t
  BY <1>1
<1>3. Udp!MessageType = MessageType /\ Udp!NoId = NoId
  BY DEF Udp!MessageType, MessageType, Udp!NoId, NoId
<1>4. Udp!Decode = ReadAs(u)
  BY Zenon DEF Udp!Decode, ReadAs, Udp!MessageType, MessageType, Udp!NoId, NoId
<1> QED
  BY <1>2, <1>4

(* A datagram of any type but REPLY is read as it was meant.               *)
LEMMA DecodesOther ==
    ASSUME NEW m, IsMessage(m), m.type # "REPLY", NEW result,
           buffer = Udp!Layout(m, result)
    PROVE  Udp!Decode = Read(m)
<1>1. /\ Udp!Byte(1) = Udp!Code[m.type] /\ Udp!UInt16At(2) = AsRead(FirstId(m))
      /\ Udp!StringsFrom(4, Len(Udp!Fields[m.type])) = m.texts
  BY OthersRead DEF TextsAt
<1>2. m.type \in MessageType /\ m.result = FALSE
      /\ (m.type = "CONFIRM" => m.id = NoId) /\ (m.type # "CONFIRM" => m.ref = NoId)
  BY DEF IsMessage
<1>3. AsRead(NoId) = NoId
  BY DEF AsRead
<1>4. CASE m.type = "CONFIRM"
  BY <1>1, <1>2, <1>3, <1>4, TypeRead DEF ReadAs, Read, FirstId
<1>5. CASE m.type # "CONFIRM"
  BY <1>1, <1>2, <1>3, <1>5, TypeRead DEF ReadAs, Read, FirstId
<1> QED
  BY <1>4, <1>5

(* So is a REPLY as the server packs it. (MailSerializer would write two   *)
(* bytes for its result, where one is read.)                               *)
LEMMA DecodesReply ==
    ASSUME NEW m, IsMessage(m), m.type = "REPLY", buffer = Udp!Pack(m)
    PROVE  Udp!Decode = Read(m)
<1> DEFINE b == Udp!Bit(m.result)
<1>1. m.result \in BOOLEAN
  BY DEF IsMessage
<1>2. b \in Nat /\ (b # 0 <=> m.result)
  BY <1>1 DEF Udp!Bit
<1>3. buffer = Udp!Layout(m, <<b>>)
  BY DEF Udp!Pack
<1> HIDE DEF b
<1>4. /\ Udp!Byte(1) = Udp!Code[m.type] /\ Udp!UInt16At(2) = AsRead(FirstId(m))
      /\ Udp!Byte(4) = b /\ Udp!UInt16At(5) = AsRead(m.ref)
      /\ Udp!StringsFrom(7, Len(Udp!Fields[m.type])) = m.texts
  BY <1>2, <1>3, ReplyRead DEF TextsAt
<1>5. m.type \in MessageType /\ FirstId(m) = m.id
  BY DEF IsMessage, FirstId
<1>6. (Udp!Byte(4) # 0) = m.result
  BY <1>1, <1>2, <1>4
<1> QED
  BY <1>4, <1>5, <1>6, TypeRead DEF ReadAs, Read

-----------------------------------------------------------------------------
(* The inductive invariant of the datagrams.                               *)
FromClient == msg \in Udp!Message /\ Udp!AllValid(msg.type, msg.texts)
              /\ buffer = Udp!Serialize(msg)

FromServer == msg \in Udp!Message /\ msg.type # "UNKNOWN" /\ buffer = Udp!Pack(msg)

UdpInv ==
    /\ by \in {"nobody", "client", "server"}
    /\ by = "nobody" => got = Udp!Nothing
    /\ by = "client" => FromClient
    /\ by = "server" => FromServer
    /\ by = "client" /\ msg.type # "REPLY" => got \in {Udp!Nothing, Read(msg)}
    /\ by = "server" => got \in {Udp!Nothing, Read(msg)} \/ (got = Udp!Overrun /\ ~Udp!Fits)

(* It holds at first,                                                      *)
LEMMA UdpInit == Init => UdpInv
BY DEF Init, Udp!Init, UdpInv

(* and every step keeps it: Serialize and Pack are what the two lemmas     *)
(* above are about.                                                        *)
LEMMA UdpStep == UdpInv /\ [Next]_vars => UdpInv'
<1> SUFFICES ASSUME UdpInv, [Next]_vars PROVE UdpInv'
  OBVIOUS
<1>1. CASE UNCHANGED udpVars
  BY <1>1 DEF udpVars, UdpInv, FromClient, FromServer, Udp!Serialize, Udp!Pack, Read, Udp!Fits
<1>2. CASE Udp!ClientSends
  BY <1>2 DEF Udp!ClientSends, UdpInv, FromClient
<1>3. CASE Udp!ServerSends
  BY <1>3 DEF Udp!ServerSends, UdpInv, FromServer
<1>4. CASE Udp!ReadsBack \/ Udp!Receives
  <2>1. /\ got' = Udp!Decode \/ (by = "server" /\ got' = Udp!Overrun /\ ~Udp!Fits)
        /\ msg' = msg /\ by' = by /\ buffer' = buffer /\ by # "nobody"
    BY <1>4 DEF Udp!ReadsBack, Udp!Receives
  <2>2. ASSUME by = "server" PROVE Udp!Decode = Read(msg)
    <3>1. IsMessage(msg) /\ buffer = Udp!Pack(msg)
      BY <2>2, Messages DEF UdpInv, FromServer
    <3> QED
      BY <3>1, DecodesReply, DecodesOther DEF Udp!Pack
  <2>3. ASSUME by = "client", msg.type # "REPLY" PROVE Udp!Decode = Read(msg)
    <3>1. IsMessage(msg) /\ buffer = Udp!Serialize(msg)
      BY <2>3, Messages DEF UdpInv, FromClient
    <3> QED
      BY <2>3, <3>1, DecodesOther DEF Udp!Serialize
  <2>4. FromClient' = FromClient /\ FromServer' = FromServer /\ Udp!Fits' = Udp!Fits
    BY <2>1 DEF FromClient, FromServer, Udp!Fits
  <2>5. by = "client" /\ msg.type # "REPLY" => got' = Read(msg)
    BY <2>1, <2>3
  <2>6. by = "server" => got' = Read(msg) \/ (got' = Udp!Overrun /\ ~Udp!Fits)
    BY <2>1, <2>2
  <2> QED
    BY <2>1, <2>4, <2>5, <2>6 DEF UdpInv
<1> QED
  BY <1>1, <1>2, <1>3, <1>4 DEF Next, Datagrams, Texts, Udp!Next, vars, udpVars

(* So it always holds.                                                     *)
LEMMA UdpInvHolds == Spec => []UdpInv
BY UdpInit, UdpStep, PTL DEF Spec

(* MailSerializer and writeUDPMail agree on every field of every mail the  *)
(* client can make, for all identifiers whose low byte is beneath 128 and  *)
(* all texts the validators take: what has been written is what is read.   *)
(* (A REPLY, which the client never sends, is excepted.)                   *)
THEOREM ClientMailsReadBackHolds == Spec => []ClientMailsReadBack
<1>1. UdpInv => ClientMailsReadBack
  <2> SUFFICES ASSUME UdpInv, by = "client", got # Udp!Nothing, msg.type # "REPLY",
                      Udp!HasLowByteBelow128(msg.id), Udp!HasLowByteBelow128(msg.ref)
               PROVE  got = msg
    BY DEF ClientMailsReadBack, Udp!ClientMailsReadBack
  <2>1. msg \in Udp!Message /\ Udp!AllValid(msg.type, msg.texts) /\ got = Read(msg)
    BY DEF UdpInv, FromClient
  <2>2. IsMessage(msg)
    BY <2>1, Messages
  <2>3. ASSUME NEW n \in UInt16 \cup {NoId}, Udp!HasLowByteBelow128(n) PROVE AsRead(n) = n
    <3>1. CASE n = NoId
      BY <3>1 DEF AsRead
    <3>2. CASE n # NoId
      <4>1. n \in Nat /\ n < 65536 /\ n % 256 < 128
        BY <2>3, <3>2 DEF UInt16, Udp!HasLowByteBelow128, Udp!NoId, NoId
      <4> QED
        BY <3>2, <4>1 DEF AsRead, ReadUInt16, Char
    <3> QED
      BY <3>1, <3>2
  <2>4. msg.id \in UInt16 \cup {NoId} /\ msg.ref \in UInt16 \cup {NoId}
    BY <2>2, IdsAreUInt16 DEF IsMessage
  <2>5. AsRead(msg.id) = msg.id /\ AsRead(msg.ref) = msg.ref
    BY <2>3, <2>4
  <2>6. msg = [type |-> msg.type, id |-> msg.id, ref |-> msg.ref, result |-> msg.result,
               texts |-> msg.texts]
    BY <2>1, MessageRecord
  <2> QED
    BY <2>1, <2>5, <2>6, Zenon DEF Read
<1> QED
  BY <1>1, UdpInvHolds, PTL

(* writeUDPMail reads the bytes server.py packs as WriteUDPMail of Mail    *)
(* says, which the other modules build on: for every identifier, the sign  *)
(* of char in its low byte included, and for all texts, those that the     *)
(* validators refuse included, with which the datagram fits the buffer.    *)
THEOREM DecodesAsModelledHolds == Spec => []DecodesAsModelled
<1>1. UdpInv => DecodesAsModelled
  <2> SUFFICES ASSUME UdpInv, by = "server", got # Udp!Nothing, Udp!Fits
               PROVE  IF Udp!AsDatagram(msg).type = "INVALID" THEN got = Udp!Throws
                      ELSE /\ got # Udp!Throws
                           /\ Udp!AsMail(got) = Udp!WriteUDPMail(Udp!AsDatagram(msg))
    BY DEF DecodesAsModelled, Udp!DecodesAsModelled
  <2>1. msg \in Udp!Message /\ got = Read(msg)
    BY DEF UdpInv, FromServer
  <2>2. msg.type \in MessageType /\ msg.type # "INVALID"
    BY <2>1, Messages DEF IsMessage, MessageType
  <2>3. CASE ~Udp!AllValid(msg.type, msg.texts)
    BY <2>1, <2>3 DEF Udp!AsDatagram, Read
  <2>4. CASE Udp!AllValid(msg.type, msg.texts)
    <3>1. got = [ type |-> msg.type, id |-> AsRead(msg.id), ref |-> AsRead(msg.ref),
                  result |-> msg.result, texts |-> msg.texts ]
      BY <2>1, <2>4, Zenon DEF Read
    <3>2. Udp!AsDatagram(msg) = [ type |-> msg.type, id |-> msg.id, ref |-> msg.ref,
                                  result |-> msg.result ]
      BY <2>4, Zenon DEF Udp!AsDatagram
    <3>3. got.type = msg.type /\ got.id = AsRead(msg.id) /\ got.ref = AsRead(msg.ref)
          /\ got.result = msg.result
      BY <3>1
    <3>4. got # Udp!Throws
      BY <2>2, <3>3 DEF Udp!Throws
    <3>5. Udp!AsDatagram(msg).type # "INVALID"
      BY <2>2, <3>2
    <3>6. \A n : Udp!AsRead(n) = AsRead(n)
      BY DEF Udp!AsRead, AsRead, Udp!NoId, NoId, Udp!ReadUInt16, ReadUInt16, Udp!Char, Char
    <3>7. Udp!AsMail(got) = Udp!WriteUDPMail(Udp!AsDatagram(msg))
      <4>1. PICK d : d = Udp!AsDatagram(msg)
        OBVIOUS
      <4>2. d.type = msg.type /\ d.id = msg.id /\ d.ref = msg.ref /\ d.result = msg.result
        BY <3>2, <4>1
      <4>3. Udp!AsRead(d.id) = got.id /\ Udp!AsRead(d.ref) = got.ref
            /\ d.type = got.type /\ d.result = got.result
        BY <3>3, <3>6, <4>2
      <4>4. Udp!AsMail(got) = Udp!WriteUDPMail(d)
        BY <4>3, Zenon DEF Udp!AsMail, Udp!WriteUDPMail
      <4> QED
        BY <4>1, <4>4
    <3> QED
      BY <3>4, <3>5, <3>7
  <2> QED
    BY <2>3, <2>4
<1> QED
  BY <1>1, UdpInvHolds, PTL

(* Two pieces are as long as both.                                         *)
LEMMA Joined ==
    ASSUME NEW a \in Seq(Nat), NEW b \in Seq(Nat)
    PROVE  a \o b \in Seq(Nat) /\ Len(a \o b) = Len(a) + Len(b)
BY ConcatProperties

(* The bytes of the texts, and the zeros behind them.                      *)
LEMMA TextsLength ==
    ASSUME NEW n \in 0..3, NEW texts \in [1..n -> Text]
    PROVE  /\ \A k \in 1..n : Len(texts[k]) \in Nat
           /\ LET l == Len(Udp!FlattenSeq(TextBytes(texts)))
              IN  /\ n = 0 => l = 0
                  /\ n = 1 => l = Len(texts[1]) + 1
                  /\ n = 2 => l = Len(texts[1]) + Len(texts[2]) + 2
                  /\ n = 3 => l = Len(texts[1]) + Len(texts[2]) + Len(texts[3]) + 3
<1> DEFINE s == TextBytes(texts)
<1>1. Len(s) = n /\ \A k \in 1..n : s[k] = Udp!CString(texts[k]) /\ texts[k] \in Text
  BY DEF TextBytes
<1>2. \A k \in 1..n : s[k] \in Seq(Nat) /\ Len(s[k]) = Len(texts[k]) + 1
  BY <1>1, CStringType
<1>3. \A k \in 1..n : Len(texts[k]) \in Nat
  BY <1>1, LenProperties DEF Text
<1> HIDE DEF s
<1>4. CASE n = 0
  <2>1. s = <<>>
    BY <1>4 DEF s, TextBytes
  <2> QED
    BY <1>1, <1>3, <1>4, <2>1 DEF Udp!FlattenSeq, s
<1>5. CASE n # 0
  <2>1. n \in 1..5 /\ Len(s) = n
    BY <1>1, <1>5
  <2>2. PICK g : Udp!FlattenSeq(s) = g[n] /\ FlattensTo(s, n, g)
    BY <2>1, UdpFlatten
  <2>3. g[1] \in Seq(Nat) /\ Len(g[1]) = Len(texts[1]) + 1
    BY <1>2, <2>1, <2>2 DEF FlattensTo
  <2>4. ASSUME NEW j \in 2..n, g[j - 1] \in Seq(Nat)
        PROVE  g[j] \in Seq(Nat) /\ Len(g[j]) = Len(g[j - 1]) + Len(texts[j]) + 1
    <3>1. j \in 1..n
      OBVIOUS
    <3>2. g[j] = g[j - 1] \o s[j]
      BY <2>2 DEF FlattensTo
    <3>3. g[j] \in Seq(Nat) /\ Len(g[j]) = Len(g[j - 1]) + Len(s[j])
      BY <1>2, <2>4, <3>1, <3>2, Joined
    <3>4. Len(s[j]) = Len(texts[j]) + 1 /\ Len(texts[j]) \in Nat /\ Len(g[j - 1]) \in Nat
      BY <1>2, <1>3, <2>4, <3>1, LenProperties
    <3>5. PICK a \in Nat, b \in Nat : a = Len(g[j - 1]) /\ b = Len(texts[j])
      BY <3>4
    <3>6. Len(g[j]) = a + (b + 1)
      BY <3>3, <3>4, <3>5
    <3>7. a + (b + 1) = a + b + 1
      OBVIOUS
    <3> QED
      BY <3>3, <3>5, <3>6, <3>7
  <2>5. Udp!FlattenSeq(TextBytes(texts)) = g[n]
    BY <2>2 DEF s
  <2>6. CASE n = 1
    BY <1>3, <2>3, <2>5, <2>6
  <2>7. CASE n = 2
    <3>1. 2 \in 2..n /\ 2 - 1 = 1 /\ 1 \in 1..n
      BY <2>7
    <3>2. Len(g[2]) = Len(g[1]) + Len(texts[2]) + 1
      BY <2>3, <2>4, <3>1
    <3>3. Len(texts[1]) \in Nat /\ Len(texts[2]) \in Nat
      BY <1>3, <2>7
    <3> QED
      BY <2>3, <2>5, <2>7, <3>2, <3>3
  <2>8. CASE n = 3
    <3>1. 2 \in 2..n /\ 2 - 1 = 1 /\ 3 \in 2..n /\ 3 - 1 = 2
      BY <2>8
    <3>2. g[2] \in Seq(Nat) /\ Len(g[2]) = Len(g[1]) + Len(texts[2]) + 1
      BY <2>3, <2>4, <3>1
    <3>3. Len(g[3]) = Len(g[2]) + Len(texts[3]) + 1
      BY <2>4, <3>1, <3>2
    <3>4. Len(texts[1]) \in Nat /\ Len(texts[2]) \in Nat /\ Len(texts[3]) \in Nat
      BY <1>3, <2>8
    <3> QED
      BY <2>3, <2>5, <2>8, <3>2, <3>3, <3>4
  <2> QED
    <3>1. n = 1 \/ n = 2 \/ n = 3
      BY <1>5
    <3> QED
      BY <2>6, <2>7, <2>8, <3>1
<1> QED
  BY <1>4, <1>5

(* The bytes of a datagram of the server.                                  *)
LEMMA PackLength ==
    ASSUME NEW m, IsMessage(m), buffer = Udp!Pack(m)
    PROVE  Len(buffer) = (IF m.type = "REPLY" THEN 6 ELSE 3)
                             + Len(Udp!FlattenSeq(TextBytes(m.texts)))
<1> DEFINE c == <<Udp!Code[m.type]>>
           d == Udp!BigEndian(FirstId(m))
           r == <<Udp!Bit(m.result)>>
           f == Udp!BigEndian(m.ref)
           t == Udp!FlattenSeq(TextBytes(m.texts))
<1>1. Udp!Code[m.type] \in Nat /\ Udp!Bit(m.result) \in Nat
  BY Codes DEF IsMessage, Udp!Bit
<1>2. c \in Seq(Nat) /\ Len(c) = 1 /\ r \in Seq(Nat) /\ Len(r) = 1
  BY <1>1
<1>3. d \in Seq(Nat) /\ Len(d) = 2
  BY MessageIds, Bytes2
<1>4. m.type = "REPLY" => f \in Seq(Nat) /\ Len(f) = 2
  BY MessageIds, Bytes2
<1>5. t \in Seq(Nat) /\ Len(t) \in Nat
  BY MessageTexts, LenProperties
<1>6. buffer = IF m.type = "REPLY" THEN ((c \o d) \o (r \o f)) \o t ELSE ((c \o d) \o <<>>) \o t
  BY LayoutParts DEF Udp!Pack, IsLayout
<1> HIDE DEF c, d, r, f, t
<1>7. c \o d \in Seq(Nat) /\ Len(c \o d) = 3
  <2>1. c \o d \in Seq(Nat) /\ Len(c \o d) = Len(c) + Len(d)
    BY <1>2, <1>3, Joined
  <2> QED
    BY <1>2, <1>3, <2>1
<1>8. CASE m.type = "REPLY"
  <2>1. r \o f \in Seq(Nat) /\ Len(r \o f) = 3
    <3>1. r \o f \in Seq(Nat) /\ Len(r \o f) = Len(r) + Len(f)
      BY <1>2, <1>4, <1>8, Joined
    <3>2. Len(r) = 1 /\ Len(f) = 2
      BY <1>2, <1>4, <1>8
    <3> QED
      BY <3>1, <3>2
  <2>2. PICK a \in Seq(Nat), b \in Seq(Nat) : a = c \o d /\ b = r \o f
    BY <1>7, <2>1
  <2>3. a \o b \in Seq(Nat) /\ Len(a \o b) = 6
    BY <1>7, <2>1, <2>2, Joined
  <2>4. Len((a \o b) \o t) = 6 + Len(t)
    BY <1>5, <2>3, Joined
  <2> QED
    BY <1>6, <1>8, <2>2, <2>4 DEF t
<1>9. CASE m.type # "REPLY"
  <2>1. PICK a \in Seq(Nat) : a = c \o d
    BY <1>7
  <2>2. a \o <<>> = a
    BY <2>1, ConcatEmptySeq
  <2>3. Len(a \o t) = 3 + Len(t)
    BY <1>5, <1>7, <2>1, Joined
  <2> QED
    BY <1>6, <1>9, <2>1, <2>2, <2>3 DEF t
<1> QED
  BY <1>8, <1>9

(* runListener: no datagram with texts that the validators accept, and a   *)
(* content of at most 999 bytes, is longer than the buffer; so with        *)
(* DecodesAsModelled each of them is read as Mail says.                    *)
THEOREM ShortTextsFitHolds == Spec => []ShortTextsFit
<1>1. UdpInv => ShortTextsFit
  <2> SUFFICES ASSUME UdpInv, by = "server", Udp!AllValid(msg.type, msg.texts),
                      \A i \in 1..Len(msg.texts) :
                          Udp!Fields[msg.type][i] = "content" => Len(msg.texts[i]) <= 999
               PROVE  Udp!Fits
    BY DEF ShortTextsFit, Udp!ShortTextsFit
  <2> DEFINE n == Len(Udp!Fields[msg.type])
             x == msg.texts
  <2>1. IsMessage(msg) /\ buffer = Udp!Pack(msg)
    BY Messages DEF UdpInv, FromServer
  <2>2. n \in 0..3 /\ x \in [1..n -> Text] /\ Len(x) = n
    BY <2>1 DEF IsMessage
  <2>3. \A i \in 1..n :
           /\ Len(x[i]) <= Udp!MaxLength[Udp!Fields[msg.type][i]]
           /\ Udp!Fields[msg.type][i] = "content" => Len(x[i]) <= 999
    BY <2>2 DEF Udp!AllValid, Udp!Valid
  <2>4. \A i \in 1..n : Len(x[i]) \in Nat
    BY <2>2, TextsLength
  <2>5. Len(buffer) = (IF msg.type = "REPLY" THEN 6 ELSE 3)
                          + Len(Udp!FlattenSeq(TextBytes(x)))
    BY <2>1, PackLength
  <2>6. LET l == Len(Udp!FlattenSeq(TextBytes(x)))
        IN  /\ n = 0 => l = 0
            /\ n = 1 => l = Len(x[1]) + 1
            /\ n = 2 => l = Len(x[1]) + Len(x[2]) + 2
            /\ n = 3 => l = Len(x[1]) + Len(x[2]) + Len(x[3]) + 3
    <3> HIDE DEF n, x
    <3> QED
      BY <2>2, TextsLength
  <2>7. Len(buffer) <= 1024
    <3> DEFINE l == Len(Udp!FlattenSeq(TextBytes(x)))
    <3> HIDE DEF n, x, l
    <3>0. /\ Len(buffer) = (IF msg.type = "REPLY" THEN 6 ELSE 3) + l
          /\ n = 0 => l = 0
          /\ n = 1 => l = Len(x[1]) + 1
          /\ n = 2 => l = Len(x[1]) + Len(x[2]) + 2
          /\ n = 3 => l = Len(x[1]) + Len(x[2]) + Len(x[3]) + 3
      BY <2>5, <2>6 DEF l
    <3>1. CASE msg.type \in {"CONFIRM", "BYE", "UNKNOWN"}
      <4>1. n = 0
        BY <3>1 DEF Udp!Fields, n
      <4> QED
        BY <3>0, <3>1, <4>1
    <3>2. CASE msg.type = "REPLY"
      <4>1. n = 1 /\ Udp!Fields[msg.type][1] = "content"
        BY <3>2 DEF Udp!Fields, n
      <4>2. Len(x[1]) <= 999 /\ Len(x[1]) \in Nat
        BY <2>3, <2>4, <4>1
      <4> QED
        BY <3>0, <3>2, <4>1, <4>2
    <3>3. CASE msg.type \in {"MSG", "ERR"}
      <4>1. /\ n = 2 /\ Udp!Fields[msg.type][1] = "displayName"
            /\ Udp!Fields[msg.type][2] = "content"
        BY <3>3 DEF Udp!Fields, n
      <4>2. /\ Len(x[1]) <= 20 /\ Len(x[1]) \in Nat
            /\ Len(x[2]) <= 999 /\ Len(x[2]) \in Nat
        BY <2>3, <2>4, <4>1 DEF Udp!MaxLength
      <4>3. PICK a \in Nat, b \in Nat : a = Len(x[1]) /\ b = Len(x[2])
        BY <4>2
      <4>4. Len(buffer) = 3 + (a + b + 2)
        BY <3>0, <3>3, <4>1, <4>3
      <4>5. a <= 20 /\ b <= 999
        BY <4>2, <4>3
      <4>6. 3 + (a + b + 2) <= 1024
        BY <4>5
      <4> QED
        BY <4>4, <4>6
    <3>4. CASE msg.type = "JOIN"
      <4>1. /\ n = 2 /\ Udp!Fields[msg.type][1] = "channel"
            /\ Udp!Fields[msg.type][2] = "displayName"
        BY <3>4 DEF Udp!Fields, n
      <4>2. /\ Len(x[1]) <= 20 /\ Len(x[1]) \in Nat
            /\ Len(x[2]) <= 20 /\ Len(x[2]) \in Nat
        BY <2>3, <2>4, <4>1 DEF Udp!MaxLength
      <4>3. PICK a \in Nat, b \in Nat : a = Len(x[1]) /\ b = Len(x[2])
        BY <4>2
      <4>4. Len(buffer) = 3 + (a + b + 2)
        BY <3>0, <3>4, <4>1, <4>3
      <4>5. a <= 20 /\ b <= 20
        BY <4>2, <4>3
      <4>6. 3 + (a + b + 2) <= 1024
        BY <4>5
      <4> QED
        BY <4>4, <4>6
    <3>5. CASE msg.type = "AUTH"
      <4>1. /\ n = 3 /\ Udp!Fields[msg.type][1] = "name"
            /\ Udp!Fields[msg.type][2] = "displayName" /\ Udp!Fields[msg.type][3] = "secret"
        BY <3>5 DEF Udp!Fields, n
      <4>2. /\ Len(x[1]) <= 20 /\ Len(x[1]) \in Nat
            /\ Len(x[2]) <= 20 /\ Len(x[2]) \in Nat
            /\ Len(x[3]) <= 128 /\ Len(x[3]) \in Nat
        BY <2>3, <2>4, <4>1 DEF Udp!MaxLength
      <4>3. PICK a \in Nat, b \in Nat, c \in Nat : a = Len(x[1]) /\ b = Len(x[2]) /\ c = Len(x[3])
        BY <4>2
      <4>4. Len(buffer) = 3 + (a + b + c + 3)
        BY <3>0, <3>5, <4>1, <4>3
      <4>5. a <= 20 /\ b <= 20 /\ c <= 128
        BY <4>2, <4>3
      <4>6. 3 + (a + b + c + 3) <= 1024
        BY <4>5
      <4> QED
        BY <4>4, <4>6
    <3> QED
      BY <2>1, <3>1, <3>2, <3>3, <3>4, <3>5 DEF IsMessage, MessageType
  <2> QED
    BY <2>7 DEF Udp!Fits, Udp!BufferSize
<1> QED
  BY <1>1, UdpInvHolds, PTL

-----------------------------------------------------------------------------
(* The words of a text: the n-th of them is at p.                          *)
LEMMA SameCardinality == \A S : Tcp!Cardinality(S) = Cardinality(S)
BY DEF Tcp!Cardinality, Cardinality

UpTo(text, p) == {j \in Tcp!WordPlaces(text) : j <= p}

IsWord(text, n, p) == p \in Tcp!WordPlaces(text) /\ Cardinality(UpTo(text, p)) = n

(* What a text is made of: words, those of the protocol among them, spaces *)
(* and line ends.                                                          *)
Keywords == {"MSG", "ERR", "FROM", "IS", "REPLY", "OK", "NOK", "JOIN", "AS", "BYE"}

Tokens == STRING \cup Keywords \cup {Tcp!Space, Tcp!LineEnd}

(* Of these there are the ones that the format puts in.                    *)
LEMMA InTokens ==
    Tcp!Space \in Tokens /\ Tcp!LineEnd \in Tokens /\ Keywords \subseteq Tokens
BY Zenon DEF Tokens

(* A text has finitely many words.                                         *)
LEMMA Finite ==
    ASSUME NEW text \in Seq(Tokens)
    PROVE  /\ IsFiniteSet(Tcp!WordPlaces(text)) /\ Tcp!WordPlaces(text) \subseteq 1..Len(text)
           /\ \A p : IsFiniteSet(UpTo(text, p)) /\ UpTo(text, p) \subseteq Tcp!WordPlaces(text)
<1>1. Len(text) \in Nat
  BY LenProperties
<1>2. IsFiniteSet(1..Len(text))
  BY <1>1, FS_Interval
<1>3. Tcp!WordPlaces(text) \subseteq 1..Len(text)
  BY DEF Tcp!WordPlaces
<1>4. IsFiniteSet(Tcp!WordPlaces(text))
  BY <1>2, <1>3, FS_Subset
<1>5. \A p : UpTo(text, p) \subseteq Tcp!WordPlaces(text)
  BY DEF UpTo
<1> QED
  BY <1>3, <1>4, <1>5, FS_Subset

(* The n-th word has one place.                                            *)
LEMMA OnePlace ==
    ASSUME NEW text \in Seq(Tokens), NEW n, NEW p, NEW q, IsWord(text, n, p), IsWord(text, n, q)
    PROVE  p = q
<1>1. p \in Nat /\ q \in Nat
  <2>1. p \in 1..Len(text) /\ q \in 1..Len(text) /\ Len(text) \in Nat
    BY Finite, LenProperties DEF IsWord
  <2> QED
    BY <2>1
<1>2. ASSUME NEW a \in Nat, NEW b \in Nat, a < b, IsWord(text, n, a), IsWord(text, n, b)
      PROVE  FALSE
  <2>1. UpTo(text, a) \subseteq UpTo(text, b) /\ b \in UpTo(text, b) /\ b \notin UpTo(text, a)
    <3>1. Tcp!WordPlaces(text) \subseteq Nat
      <4>1. Tcp!WordPlaces(text) \subseteq 1..Len(text) /\ Len(text) \in Nat
        BY Finite, LenProperties
      <4> QED
        BY <4>1
    <3> QED
      BY <1>2, <3>1 DEF UpTo, IsWord
  <2>2. IsFiniteSet(UpTo(text, b)) /\ Cardinality(UpTo(text, b)) = Cardinality(UpTo(text, a))
    BY <1>2, Finite DEF IsWord
  <2> QED
    BY <2>1, <2>2, FS_Subset
<1> QED
  BY <1>1, <1>2

(* There iss >> finds it, and getline starts behind it.                    *)
LEMMA WordFound ==
    ASSUME NEW text \in Seq(Tokens), NEW n \in Nat, NEW p, IsWord(text, n, p)
    PROVE  /\ Tcp!PlaceOfWord(text, n) = p /\ Tcp!WordAt(text, n) = text[p]
           /\ ~ (n > Tcp!Cardinality(Tcp!WordPlaces(text)))
<1>1. n <= Cardinality(Tcp!WordPlaces(text))
  BY Finite, FS_Subset DEF IsWord
<1>2. Cardinality(Tcp!WordPlaces(text)) \in Nat
  BY Finite, FS_CardinalityType
<1>3. Tcp!PlaceOfWord(text, n) = CHOOSE i \in Tcp!WordPlaces(text) : Cardinality(UpTo(text, i)) = n
  BY SameCardinality, Zenon DEF Tcp!PlaceOfWord, UpTo
<1>4. \A i \in Tcp!WordPlaces(text) : Cardinality(UpTo(text, i)) = n => i = p
  BY OnePlace DEF IsWord
<1>5. Tcp!PlaceOfWord(text, n) = p
  BY <1>3, <1>4 DEF IsWord
<1>6. Tcp!Cardinality(Tcp!WordPlaces(text)) = Cardinality(Tcp!WordPlaces(text))
  BY SameCardinality
<1> QED
  BY <1>1, <1>2, <1>5, <1>6 DEF Tcp!WordAt

(* A text that does not start with a blank starts with its first word.     *)
LEMMA FirstWord ==
    ASSUME NEW text \in Seq(Tokens), Len(text) >= 1, text[1] \notin Tcp!Blank1
    PROVE  IsWord(text, 1, 1)
<1>1. Len(text) \in Nat
  BY LenProperties
<1>2. 1 \in Tcp!WordPlaces(text)
  BY <1>1 DEF Tcp!WordPlaces
<1>3. UpTo(text, 1) = {1}
  BY <1>1, <1>2 DEF UpTo, Tcp!WordPlaces
<1> QED
  BY <1>2, <1>3, FS_Singleton DEF IsWord

(* A blank and a word behind the n-th: the word is the next one.           *)
LEMMA NextWord ==
    ASSUME NEW text \in Seq(Tokens), NEW n \in Nat, NEW p \in Nat, IsWord(text, n, p),
           p + 2 <= Len(text), text[p + 1] \in Tcp!Blank1, text[p + 2] \notin Tcp!Blank1
    PROVE  IsWord(text, n + 1, p + 2)
<1>1. Len(text) \in Nat
  BY LenProperties
<1>2. p + 2 \in Tcp!WordPlaces(text) /\ p + 1 \notin Tcp!WordPlaces(text)
  BY <1>1 DEF Tcp!WordPlaces
<1>3. UpTo(text, p + 2) = UpTo(text, p) \cup {p + 2} /\ p + 2 \notin UpTo(text, p)
  <2>1. \A j \in Tcp!WordPlaces(text) : j \in Nat
    BY <1>1 DEF Tcp!WordPlaces
  <2>2. \A j \in Nat : j <= p + 2 <=> (j <= p \/ j = p + 1 \/ j = p + 2)
    OBVIOUS
  <2>3. ~ (p + 2 <= p)
    OBVIOUS
  <2> QED
    BY <1>2, <2>1, <2>2, <2>3 DEF UpTo
<1>4. Cardinality(UpTo(text, p + 2)) = n + 1
  BY <1>3, Finite, FS_AddElement DEF IsWord
<1> QED
  BY <1>2, <1>4 DEF IsWord

-----------------------------------------------------------------------------
(* A text of the wire: words, and what getline takes behind them.          *)
WireText(h, c) == Append(h \o c, Tcp!LineEnd)

(* What is at its places.                                                  *)
LEMMA LineType ==
    ASSUME NEW h \in Seq(Tokens), NEW c \in Seq(Tokens)
    PROVE  /\ WireText(h, c) \in Seq(Tokens) /\ Len(WireText(h, c)) = Len(h) + Len(c) + 1
           /\ \A k \in 1..Len(h) : WireText(h, c)[k] = h[k]
           /\ \A k \in 1..Len(c) : WireText(h, c)[Len(h) + k] = c[k]
           /\ WireText(h, c)[Len(h) + Len(c) + 1] = Tcp!LineEnd
<1>1. PICK x \in Seq(Tokens) : x = h \o c
  BY ConcatProperties
<1>2. Len(h) \in Nat /\ Len(c) \in Nat /\ Len(x) \in Nat
  BY LenProperties
<1>3. Len(x) = Len(h) + Len(c)
  BY <1>1, ConcatProperties
<1>4. \A k \in 1..(Len(h) + Len(c)) : x[k] = IF k <= Len(h) THEN h[k] ELSE c[k - Len(h)]
  BY <1>1, ConcatProperties
<1>5. \A k \in 1..Len(h) : x[k] = h[k]
  BY <1>2, <1>4
<1>6. ASSUME NEW k \in 1..Len(c) PROVE x[Len(h) + k] = c[k]
  <2>1. Len(h) + k \in 1..(Len(h) + Len(c)) /\ ~(Len(h) + k <= Len(h)) /\ (Len(h) + k) - Len(h) = k
    BY <1>2
  <2> QED
    BY <1>4, <2>1
<1>7. Tcp!LineEnd \in Tokens
  BY InTokens
<1>8. /\ Append(x, Tcp!LineEnd) \in Seq(Tokens)
      /\ Len(Append(x, Tcp!LineEnd)) = Len(x) + 1
      /\ \A k \in 1..Len(x) : Append(x, Tcp!LineEnd)[k] = x[k]
      /\ Append(x, Tcp!LineEnd)[Len(x) + 1] = Tcp!LineEnd
  BY <1>7, AppendProperties
<1>9. PICK t \in Seq(Tokens) : t = Append(x, Tcp!LineEnd)
  BY <1>8
<1>10. WireText(h, c) = t
  BY <1>1, <1>9 DEF WireText
<1>11. Len(t) = Len(h) + Len(c) + 1 /\ t[Len(h) + Len(c) + 1] = Tcp!LineEnd
  BY <1>3, <1>8, <1>9
<1>12. ASSUME NEW k \in 1..Len(h) PROVE t[k] = h[k]
  <2>1. k \in 1..Len(x)
    BY <1>2, <1>3
  <2> QED
    BY <1>5, <1>8, <1>9, <2>1
<1>13. ASSUME NEW k \in 1..Len(c) PROVE t[Len(h) + k] = c[k]
  <2>1. Len(h) + k \in 1..Len(x)
    BY <1>2, <1>3
  <2> QED
    BY <1>6, <1>8, <1>9, <2>1
<1> QED
  BY <1>10, <1>11, <1>12, <1>13

LEMMA OneFurther ==
    ASSUME NEW p \in Nat, NEW n, n = p + 1, NEW m, NEW k \in 1..m
    PROVE  n + k = p + k + 1
OBVIOUS

(* getline after the last word, less the space that is in front.           *)
LEMMA RestFound ==
    ASSUME NEW h \in Seq(Tokens), NEW c \in Seq(Tokens \ {Tcp!LineEnd}), c # <<>>,
           NEW n \in Nat, NEW p \in Nat, IsWord(WireText(h, c), n, p),
           Len(h) = p + 1, h[p + 1] = Tcp!Space
    PROVE  Tcp!Rest(WireText(h, c), n) = c
<1>1. c \in Seq(Tokens) /\ Len(c) \in Nat /\ \A k \in 1..Len(c) : c[k] # Tcp!LineEnd
  <2>1. Tokens \ {Tcp!LineEnd} \subseteq Tokens
    OBVIOUS
  <2> QED
    BY <2>1, SeqMonotonic, LenProperties, ElementOfSeq
<1>2. PICK text \in Seq(Tokens) : text = WireText(h, c)
  BY <1>1, LineType
<1>3. Len(text) = p + Len(c) + 2 /\ text[p + 1] = Tcp!Space
      /\ text[p + Len(c) + 2] = Tcp!LineEnd
  <2>1. Len(text) = Len(h) + Len(c) + 1 /\ (\A k \in 1..Len(h) : text[k] = h[k])
        /\ text[Len(h) + Len(c) + 1] = Tcp!LineEnd
    <3>1. Len(text) = Len(h) + Len(c) + 1
      BY <1>1, <1>2, LineType, Zenon
    <3>2. ASSUME NEW k \in 1..Len(h) PROVE text[k] = h[k]
      <4>1. WireText(h, c)[k] = h[k]
        BY <1>1, LineType
      <4> QED
        BY <1>2, <4>1, Zenon
    <3>3. text[Len(h) + Len(c) + 1] = Tcp!LineEnd
      BY <1>1, <1>2, LineType, Zenon
    <3> QED
      BY <3>1, <3>2, <3>3, Zenon
  <2>2. p + 1 \in 1..Len(h) /\ Len(h) + Len(c) + 1 = p + Len(c) + 2
    BY <1>1
  <2> QED
    BY <2>1, <2>2
<1>4. ASSUME NEW k \in 1..Len(c) PROVE text[p + k + 1] = c[k]
  <2>1. text[Len(h) + k] = c[k]
    <3>1. WireText(h, c)[Len(h) + k] = c[k]
      BY <1>1, LineType
    <3> QED
      BY <1>2, <3>1, Zenon
  <2>2. Len(h) + k = p + k + 1
    BY OneFurther, Zenon
  <2> QED
    BY <2>1, <2>2
<1> DEFINE rest == SubSeq(text, p + 1, Len(text))
           m == Len(c)
<1>5. rest \in Seq(Tokens) /\ Len(rest) = m + 2
      /\ \A i \in 1..(m + 2) : rest[i] = text[p + i]
  <2>1. \A i \in (p + 1)..Len(text) : text[i] \in Tokens
    <3>1. \A i \in 1..Len(text) : text[i] \in Tokens
      BY ElementOfSeq
    <3> QED
      BY <3>1
  <2>2. p + 1 \in Int /\ Len(text) \in Int /\ p + 1 <= Len(text) /\ Len(text) - (p + 1) + 1 = m + 2
    BY <1>1, <1>3
  <2>3. /\ rest \in Seq(Tokens) /\ Len(rest) = m + 2
        /\ \A i \in 1..(m + 2) : rest[i] = text[p + 1 + i - 1]
    BY <2>1, <2>2, SubSeqProperties
  <2>4. \A i \in 1..(m + 2) : p + 1 + i - 1 = p + i
    OBVIOUS
  <2> QED
    BY <2>3, <2>4
<1> HIDE DEF rest
<1>6. rest[1] = Tcp!Space /\ rest[m + 2] = Tcp!LineEnd /\ \A k \in 1..m : rest[k + 1] = c[k]
  <2>1. 1 \in 1..(m + 2) /\ m + 2 \in 1..(m + 2) /\ p + (m + 2) = p + m + 2
    BY <1>1
  <2>2. ASSUME NEW k \in 1..m PROVE rest[k + 1] = c[k]
    <3>1. k + 1 \in 1..(m + 2) /\ p + (k + 1) = p + k + 1
      BY <1>1
    <3> QED
      BY <1>4, <1>5, <3>1
  <2> QED
    BY <1>3, <1>5, <2>1, <2>2
<1>7. Tcp!Space # Tcp!LineEnd
  BY DEF Tcp!Space, Tcp!LineEnd
<1> DEFINE end == Tcp!SelectInSeq(rest, LAMBDA x : x = Tcp!LineEnd)
           I == {i \in 1..Len(rest) : rest[i] = Tcp!LineEnd}
<1>8. I = {m + 2}
  <2>1. m + 2 \in I
    BY <1>1, <1>5, <1>6
  <2>2. ASSUME NEW i \in I PROVE i = m + 2
    <3>1. i \in 1..(m + 2) /\ rest[i] = Tcp!LineEnd
      BY <1>5
    <3>2. CASE i = 1
      BY <1>6, <1>7, <3>1, <3>2
    <3>3. CASE i # 1 /\ i # m + 2
      <4>1. i - 1 \in 1..m /\ (i - 1) + 1 = i
        BY <1>1, <3>1, <3>3
      <4>2. rest[i] = c[i - 1]
        BY <1>6, <4>1
      <4> QED
        BY <1>1, <3>1, <4>1, <4>2
    <3> QED
      BY <3>2, <3>3
  <2> QED
    BY <2>1, <2>2
<1>9. end = m + 2
  <2>1. end = IF I # {} THEN Tcp!Min(I) ELSE 0
    BY DEF Tcp!SelectInSeq
  <2>2. Tcp!Min(I) = m + 2
    BY <1>1, <1>8 DEF Tcp!Min
  <2> QED
    BY <1>8, <2>1, <2>2
<1> HIDE DEF end
<1> DEFINE line == SubSeq(rest, 1, m + 1)
<1>10. line \in Seq(Tokens) /\ Len(line) = m + 1 /\ \A i \in 1..(m + 1) : line[i] = rest[i]
  <2>1. \A i \in 1..(m + 1) : rest[i] \in Tokens
    <3>1. \A i \in 1..Len(rest) : rest[i] \in Tokens
      BY <1>5, ElementOfSeq
    <3> QED
      BY <1>1, <1>5, <3>1
  <2>2. 1 \in Int /\ m + 1 \in Int /\ 1 <= m + 1 /\ (m + 1) - 1 + 1 = m + 1
    BY <1>1
  <2>3. /\ line \in Seq(Tokens) /\ Len(line) = m + 1
        /\ \A i \in 1..(m + 1) : line[i] = rest[1 + i - 1]
    BY <2>1, <2>2, SubSeqProperties
  <2>4. \A i \in 1..(m + 1) : 1 + i - 1 = i
    OBVIOUS
  <2> QED
    BY <2>3, <2>4
<1>11. Tcp!RestOfLine(text, n) = line
  <2>1. Tcp!PlaceOfWord(text, n) = p /\ ~(n > Tcp!Cardinality(Tcp!WordPlaces(text)))
    BY <1>2, WordFound
  <2>2. (m + 2) - 1 = m + 1 /\ m + 2 # 0
    BY <1>1
  <2> QED
    BY <1>9, <2>1, <2>2 DEF Tcp!RestOfLine, end, rest
<1> HIDE DEF line
<1>12. line # <<>> /\ Head(line) = Tcp!Space
  <2>1. line # <<>>
    BY <1>1, <1>10, EmptySeq
  <2>2. Head(line) = line[1]
    BY <1>10, <2>1
  <2>3. 1 \in 1..(m + 1)
    BY <1>1
  <2> QED
    BY <1>6, <1>10, <2>1, <2>2, <2>3
<1>13. Tail(line) = c
  <2>1. Tail(line) \in Seq(Tokens) /\ Len(Tail(line)) = m
        /\ \A i \in 1..m : Tail(line)[i] = line[i + 1]
    <3>1. /\ Tail(line) \in Seq(Tokens) /\ Len(Tail(line)) = Len(line) - 1
          /\ \A i \in 1..Len(Tail(line)) : Tail(line)[i] = line[i + 1]
      BY <1>10, <1>12, HeadTailProperties
    <3>2. Len(line) - 1 = m
      BY <1>1, <1>10
    <3> QED
      BY <3>1, <3>2
  <2>2. ASSUME NEW i \in 1..m PROVE Tail(line)[i] = c[i]
    <3>1. i + 1 \in 1..(m + 1)
      BY <1>1
    <3> QED
      BY <1>6, <1>10, <2>1, <3>1
  <2> QED
    BY <1>1, <2>1, <2>2, SeqEqual
<1> QED
  BY <1>2, <1>11, <1>12, <1>13 DEF Tcp!Rest

-----------------------------------------------------------------------------
(* Both formats flatten.                                                   *)
LEMMA SameFlatten == \A s : Tcp!FlattenSeq(s) = Udp!FlattenSeq(s)
BY DEF Tcp!FlattenSeq, Udp!FlattenSeq

(* What MailSerializer puts a space behind.                                *)
Pieces(m) == <<(<<m.type>>)>> \o Tcp!Parts(m)

(* The last piece of a text has the line end behind it.                    *)
LEMMA LastPiece ==
    ASSUME NEW m, NEW n \in 1..5, Len(Tcp!Parts(m)) + 1 = n,
           \A i \in 1..n : Pieces(m)[i] \in Seq(Tokens)
    PROVE  \E g : /\ g[1] = Append(Pieces(m)[1], Tcp!Space)
                  /\ \A i \in 2..n : g[i] = g[i - 1] \o Append(Pieces(m)[i], Tcp!Space)
                  /\ Tcp!Serialize(m) = Append(Tcp!Front(g[n]), Tcp!LineEnd)
<1> DEFINE s == [i \in 1..n |-> Append(Pieces(m)[i], Tcp!Space)]
<1>1. Len(s) = n
  OBVIOUS
<1>2. PICK g : Udp!FlattenSeq(s) = g[n] /\ FlattensTo(s, n, g)
  <2> HIDE DEF s
  <2> QED
    BY <1>1, UdpFlatten
<1>3. Tcp!Serialize(m) = Append(Tcp!Front(Tcp!FlattenSeq(s)), Tcp!LineEnd)
  BY DEF Tcp!Serialize, Pieces
<1>4. Tcp!Serialize(m) = Append(Tcp!Front(g[n]), Tcp!LineEnd)
  BY <1>2, <1>3, SameFlatten
<1>5. g[1] = Append(Pieces(m)[1], Tcp!Space)
  <2>1. g[1] = s[1]
    BY <1>2 DEF FlattensTo
  <2> QED
    BY <2>1
<1>6. ASSUME NEW i \in 2..n PROVE g[i] = g[i - 1] \o Append(Pieces(m)[i], Tcp!Space)
  <2>1. g[i] = g[i - 1] \o s[i]
    BY <1>2 DEF FlattensTo
  <2>2. i \in 1..n
    OBVIOUS
  <2> QED
    BY <2>1, <2>2
<1> QED
  BY <1>4, <1>5, <1>6

(* The last space becomes the line end.                                    *)
LEMMA FrontOf ==
    ASSUME NEW x \in Seq(Tokens), NEW c \in Seq(Tokens)
    PROVE  Append(Tcp!Front(x \o Append(c, Tcp!Space)), Tcp!LineEnd) = WireText(x, c)
<1>1. Tcp!Space \in Tokens
  BY InTokens
<1>2. PICK y \in Seq(Tokens) : y = x \o c
  BY ConcatProperties
<1>3. x \o Append(c, Tcp!Space) = Append(y, Tcp!Space)
  <2>1. <<Tcp!Space>> \in Seq(Tokens)
    BY <1>1
  <2>2. (x \o c) \o <<Tcp!Space>> = x \o (c \o <<Tcp!Space>>)
    BY <2>1, ConcatAssociative
  <2> QED
    BY <1>1, <1>2, <2>1, <2>2, AppendIsConcat
<1>4. Tcp!Front(Append(y, Tcp!Space)) = y
  <2>0. /\ Append(y, Tcp!Space) \in Seq(Tokens) /\ Len(Append(y, Tcp!Space)) = Len(y) + 1
        /\ \A k \in 1..Len(y) : Append(y, Tcp!Space)[k] = y[k]
    BY <1>1, AppendProperties
  <2>1. PICK z \in Seq(Tokens) : z = Append(y, Tcp!Space) /\ Len(z) = Len(y) + 1
                                /\ \A k \in 1..Len(y) : z[k] = y[k]
    BY <2>0
  <2>2. Len(y) \in Nat /\ Len(z) - 1 = Len(y)
    BY <2>1, LenProperties
  <2>3. \A k \in 1..Len(y) : z[k] \in Tokens
    BY <2>1, ElementOfSeq
  <2>4. /\ SubSeq(z, 1, Len(y)) \in Seq(Tokens) /\ Len(SubSeq(z, 1, Len(y))) = Len(y)
        /\ \A k \in 1..Len(y) : SubSeq(z, 1, Len(y))[k] = z[1 + k - 1]
    BY <2>2, <2>3, SubSeqProperties
  <2>5. \A k \in 1..Len(y) : SubSeq(z, 1, Len(y))[k] = y[k]
    BY <2>1, <2>2, <2>4
  <2>6. SubSeq(z, 1, Len(y)) = y
    BY <2>4, <2>5, SeqEqual
  <2> QED
    BY <2>1, <2>2, <2>6 DEF Tcp!Front
<1> QED
  BY <1>2, <1>3, <1>4 DEF WireText

(* A word with its space, by itself,                                       *)
LEMMA OneWord ==
    ASSUME NEW a \in Tokens
    PROVE  LET g == Append(<<a>>, Tcp!Space)
           IN  g \in Seq(Tokens) /\ Len(g) = 2 /\ g[1] = a /\ g[2] = Tcp!Space
<1>1. <<a>> \in Seq(Tokens) /\ Len(<<a>>) = 1 /\ <<a>>[1] = a
  OBVIOUS
<1>2. PICK x \in Seq(Tokens) : x = <<a>>
  BY <1>1
<1>3. /\ Append(x, Tcp!Space) \in Seq(Tokens) /\ Len(Append(x, Tcp!Space)) = Len(x) + 1
      /\ \A k \in 1..Len(x) : Append(x, Tcp!Space)[k] = x[k]
      /\ Append(x, Tcp!Space)[Len(x) + 1] = Tcp!Space
  BY InTokens, AppendProperties
<1>4. Len(x) = 1 /\ x[1] = a /\ 1 \in 1..1 /\ 1 + 1 = 2
  BY <1>1, <1>2
<1> QED
  BY <1>2, <1>3, <1>4

(* and behind others.                                                      *)
LEMMA OneMore ==
    ASSUME NEW h \in Seq(Tokens), NEW a \in Tokens
    PROVE  LET g == h \o Append(<<a>>, Tcp!Space)
           IN  /\ g \in Seq(Tokens) /\ Len(g) = Len(h) + 2
               /\ \A k \in 1..Len(h) : g[k] = h[k]
               /\ g[Len(h) + 1] = a /\ g[Len(h) + 2] = Tcp!Space
<1>1. PICK x \in Seq(Tokens) : x = Append(<<a>>, Tcp!Space)
  BY OneWord
<1>2. Len(x) = 2 /\ x[1] = a /\ x[2] = Tcp!Space
  BY <1>1, OneWord
<1>3. Len(h) \in Nat
  BY LenProperties
<1>4. /\ h \o x \in Seq(Tokens) /\ Len(h \o x) = Len(h) + Len(x)
      /\ \A k \in 1..(Len(h) + Len(x)) :
             (h \o x)[k] = IF k <= Len(h) THEN h[k] ELSE x[k - Len(h)]
  BY ConcatProperties
<1>5. PICK g \in Seq(Tokens) : g = h \o x
  BY <1>4
<1>6. Len(g) = Len(h) + 2
  BY <1>2, <1>4, <1>5
<1>7. \A k \in 1..(Len(h) + 2) : g[k] = IF k <= Len(h) THEN h[k] ELSE x[k - Len(h)]
  BY <1>2, <1>4, <1>5
<1>8. \A k \in 1..Len(h) : g[k] = h[k]
  BY <1>3, <1>7
<1>9. g[Len(h) + 1] = a /\ g[Len(h) + 2] = Tcp!Space
  <2>1. Len(h) + 1 \in 1..(Len(h) + 2) /\ Len(h) + 2 \in 1..(Len(h) + 2)
        /\ ~(Len(h) + 1 <= Len(h)) /\ ~(Len(h) + 2 <= Len(h))
        /\ (Len(h) + 1) - Len(h) = 1 /\ (Len(h) + 2) - Len(h) = 2
    BY <1>3
  <2>2. g[Len(h) + 1] = x[1]
    BY <1>7, <2>1
  <2>3. g[Len(h) + 2] = x[2]
    BY <1>7, <2>1
  <2> QED
    BY <1>2, <2>2, <2>3
<1> QED
  BY <1>1, <1>5, <1>6, <1>8, <1>9

(* Words with a space behind each, one to four of them.                    *)
Ahead1(h, a) == h \in Seq(Tokens) /\ Len(h) = 2 /\ h[1] = a /\ h[2] = Tcp!Space

Ahead2(h, a, b) ==
    /\ h \in Seq(Tokens) /\ Len(h) = 4
    /\ h[1] = a /\ h[2] = Tcp!Space /\ h[3] = b /\ h[4] = Tcp!Space

Ahead3(h, a, b, d) ==
    /\ h \in Seq(Tokens) /\ Len(h) = 6
    /\ h[1] = a /\ h[2] = Tcp!Space /\ h[3] = b /\ h[4] = Tcp!Space
    /\ h[5] = d /\ h[6] = Tcp!Space

Ahead4(h, a, b, d, e) ==
    /\ h \in Seq(Tokens) /\ Len(h) = 8
    /\ h[1] = a /\ h[2] = Tcp!Space /\ h[3] = b /\ h[4] = Tcp!Space
    /\ h[5] = d /\ h[6] = Tcp!Space /\ h[7] = e /\ h[8] = Tcp!Space

(* A word with its space makes the next of these out of each.              *)
LEMMA Aheads ==
    ASSUME NEW a \in Tokens
    PROVE  /\ Ahead1(Append(<<a>>, Tcp!Space), a)
           /\ \A h, b : Ahead1(h, b) => Ahead2(h \o Append(<<a>>, Tcp!Space), b, a)
           /\ \A h, b, d : Ahead2(h, b, d) => Ahead3(h \o Append(<<a>>, Tcp!Space), b, d, a)
           /\ \A h, b, d, e :
                  Ahead3(h, b, d, e) => Ahead4(h \o Append(<<a>>, Tcp!Space), b, d, e, a)
<1>1. Ahead1(Append(<<a>>, Tcp!Space), a)
  BY OneWord DEF Ahead1
<1>2. ASSUME NEW h \in Seq(Tokens)
      PROVE  \E g : /\ g = h \o Append(<<a>>, Tcp!Space)
                    /\ g \in Seq(Tokens) /\ Len(g) = Len(h) + 2
                    /\ (\A k \in 1..Len(h) : g[k] = h[k])
                    /\ g[Len(h) + 1] = a /\ g[Len(h) + 2] = Tcp!Space
  BY OneMore
<1>3. ASSUME NEW h, NEW b, Ahead1(h, b) PROVE Ahead2(h \o Append(<<a>>, Tcp!Space), b, a)
  <2>1. h \in Seq(Tokens) /\ Len(h) = 2
    BY <1>3, Zenon DEF Ahead1
  <2>4. PICK g : /\ g = h \o Append(<<a>>, Tcp!Space)
                 /\ g \in Seq(Tokens) /\ Len(g) = Len(h) + 2
                 /\ (\A k \in 1..Len(h) : g[k] = h[k])
                 /\ g[Len(h) + 1] = a /\ g[Len(h) + 2] = Tcp!Space
    BY <1>2, <2>1
  <2>2. /\ g = h \o Append(<<a>>, Tcp!Space)
        /\ g \in Seq(Tokens) /\ Len(g) = 2 + 2
        /\ (\A k \in 1..2 : g[k] = h[k]) /\ g[2 + 1] = a /\ g[2 + 2] = Tcp!Space
    BY <2>1, <2>4
  <2>3. Ahead2(g, b, a)
    BY <1>3, <2>2 DEF Ahead1, Ahead2
  <2> QED
    BY <2>2, <2>3
<1>4. ASSUME NEW h, NEW b, NEW d, Ahead2(h, b, d)
      PROVE  Ahead3(h \o Append(<<a>>, Tcp!Space), b, d, a)
  <2>1. h \in Seq(Tokens) /\ Len(h) = 4
    BY <1>4, Zenon DEF Ahead2
  <2>4. PICK g : /\ g = h \o Append(<<a>>, Tcp!Space)
                 /\ g \in Seq(Tokens) /\ Len(g) = Len(h) + 2
                 /\ (\A k \in 1..Len(h) : g[k] = h[k])
                 /\ g[Len(h) + 1] = a /\ g[Len(h) + 2] = Tcp!Space
    BY <1>2, <2>1
  <2>2. /\ g = h \o Append(<<a>>, Tcp!Space)
        /\ g \in Seq(Tokens) /\ Len(g) = 4 + 2
        /\ (\A k \in 1..4 : g[k] = h[k]) /\ g[4 + 1] = a /\ g[4 + 2] = Tcp!Space
    BY <2>1, <2>4
  <2>3. Ahead3(g, b, d, a)
    BY <1>4, <2>2 DEF Ahead2, Ahead3
  <2> QED
    BY <2>2, <2>3
<1>5. ASSUME NEW h, NEW b, NEW d, NEW e, Ahead3(h, b, d, e)
      PROVE  Ahead4(h \o Append(<<a>>, Tcp!Space), b, d, e, a)
  <2>1. h \in Seq(Tokens) /\ Len(h) = 6
    BY <1>5, Zenon DEF Ahead3
  <2>4. PICK g : /\ g = h \o Append(<<a>>, Tcp!Space)
                 /\ g \in Seq(Tokens) /\ Len(g) = Len(h) + 2
                 /\ (\A k \in 1..Len(h) : g[k] = h[k])
                 /\ g[Len(h) + 1] = a /\ g[Len(h) + 2] = Tcp!Space
    BY <1>2, <2>1
  <2>2. /\ g = h \o Append(<<a>>, Tcp!Space)
        /\ g \in Seq(Tokens) /\ Len(g) = 6 + 2
        /\ (\A k \in 1..6 : g[k] = h[k]) /\ g[6 + 1] = a /\ g[6 + 2] = Tcp!Space
    BY <2>1, <2>4
  <2>3. Ahead4(g, b, d, e, a)
    BY <1>5, <2>2 DEF Ahead3, Ahead4
  <2> QED
    BY <2>2, <2>3
<1> QED
  BY <1>1, <1>3, <1>4, <1>5

(* The pieces are the type and then the parts.                             *)
LEMMA PiecesOf ==
    ASSUME NEW m, m.type \in Tokens, Tcp!Parts(m) \in Seq(Seq(Tokens))
    PROVE  /\ Pieces(m)[1] = <<m.type>>
           /\ \A k \in 1..Len(Tcp!Parts(m)) : Pieces(m)[k + 1] = Tcp!Parts(m)[k]
<1>1. PICK ty \in Tokens : ty = m.type
  OBVIOUS
<1>2. PICK x \in Seq(Seq(Tokens)) : x = <<(<<ty>>)>> /\ Len(x) = 1 /\ x[1] = <<ty>>
  <2>1. <<ty>> \in Seq(Tokens)
    OBVIOUS
  <2>2. PICK u \in Seq(Tokens) : u = <<ty>>
    BY <2>1
  <2>3. <<u>> \in Seq(Seq(Tokens)) /\ Len(<<u>>) = 1 /\ <<u>>[1] = u
    OBVIOUS
  <2> QED
    BY <2>2, <2>3
<1>3. PICK q \in Seq(Seq(Tokens)) : q = Tcp!Parts(m)
  OBVIOUS
<1>4. Len(q) \in Nat
  BY LenProperties
<1>5. \A k \in 1..(1 + Len(q)) : (x \o q)[k] = IF k <= 1 THEN x[k] ELSE q[k - 1]
  BY <1>2, ConcatProperties
<1>6. Pieces(m) = x \o q
  BY <1>1, <1>2, <1>3 DEF Pieces
<1>7. (x \o q)[1] = <<ty>>
  BY <1>2, <1>4, <1>5
<1>8. ASSUME NEW k \in 1..Len(q) PROVE (x \o q)[k + 1] = q[k]
  <2>1. k + 1 \in 1..(1 + Len(q)) /\ ~(k + 1 <= 1) /\ (k + 1) - 1 = k
    BY <1>4
  <2> QED
    BY <1>5, <2>1
<1> QED
  BY <1>1, <1>3, <1>6, <1>7, <1>8

(* What MailSerializer writes: four words in front of the content of MSG   *)
(* and ERR,                                                                *)
LEMMA SerializesText ==
    ASSUME NEW m, m.type \in {"MSG", "ERR"}, NEW w \in Tokens, NEW c \in Seq(Tokens),
           m.texts = <<(<<w>>), c>>
    PROVE  \E h : Ahead4(h, m.type, "FROM", w, "IS") /\ Tcp!Serialize(m) = WireText(h, c)
<1>1. PICK ty \in Tokens : ty = m.type
  BY InTokens DEF Keywords
<1>2. "FROM" \in Tokens /\ "IS" \in Tokens
  BY InTokens DEF Keywords
<1>3. PICK q : q = Tcp!Parts(m)
  OBVIOUS
<1>4. q = <<(<<"FROM">>), (<<w>>), (<<"IS">>), c>>
  BY <1>3 DEF Tcp!Parts
<1>5. <<"FROM">> \in Seq(Tokens) /\ <<w>> \in Seq(Tokens) /\ <<"IS">> \in Seq(Tokens)
      /\ <<ty>> \in Seq(Tokens)
  BY <1>2
<1>6. Len(q) = 4 /\ q[1] = <<"FROM">> /\ q[2] = <<w>> /\ q[3] = <<"IS">> /\ q[4] = c
      /\ q \in Seq(Seq(Tokens))
  <2>1. PICK x \in Seq(Tokens), y \in Seq(Tokens), z \in Seq(Tokens) :
          x = <<"FROM">> /\ y = <<w>> /\ z = <<"IS">>
    BY <1>5
  <2>2. q = <<x, y, z, c>>
    BY <1>4, <2>1
  <2> QED
    BY <2>1, <2>2
<1>7. PICK P : P = Pieces(m)
  OBVIOUS
<1>8. P[1] = <<ty>> /\ P[2] = <<"FROM">> /\ P[3] = <<w>> /\ P[4] = <<"IS">> /\ P[5] = c
  <2>1. P[1] = <<ty>> /\ \A k \in 1..4 : P[k + 1] = q[k]
    BY <1>1, <1>3, <1>6, <1>7, PiecesOf
  <2>2. P[1 + 1] = q[1] /\ P[2 + 1] = q[2] /\ P[3 + 1] = q[3] /\ P[4 + 1] = q[4]
    BY <2>1
  <2> QED
    BY <1>6, <2>1, <2>2
<1>9. ASSUME NEW i \in 1..5 PROVE Pieces(m)[i] \in Seq(Tokens)
  <2>1. i = 1 \/ i = 2 \/ i = 3 \/ i = 4 \/ i = 5
    OBVIOUS
  <2> QED
    BY <1>5, <1>7, <1>8, <2>1
<1>10. PICK g : /\ g[1] = Append(Pieces(m)[1], Tcp!Space)
                /\ \A i \in 2..5 : g[i] = g[i - 1] \o Append(Pieces(m)[i], Tcp!Space)
                /\ Tcp!Serialize(m) = Append(Tcp!Front(g[5]), Tcp!LineEnd)
  <2>1. Len(Tcp!Parts(m)) + 1 = 5 /\ 5 \in 1..5
    BY <1>3, <1>6
  <2> QED
    BY <1>9, <2>1, LastPiece
<1>11. /\ g[1] = Append(<<ty>>, Tcp!Space) /\ g[2] = g[1] \o Append(<<"FROM">>, Tcp!Space)
       /\ g[3] = g[2] \o Append(<<w>>, Tcp!Space) /\ g[4] = g[3] \o Append(<<"IS">>, Tcp!Space)
       /\ g[5] = g[4] \o Append(c, Tcp!Space)
  <2>1. 2 \in 2..5 /\ 3 \in 2..5 /\ 4 \in 2..5 /\ 5 \in 2..5
        /\ 2 - 1 = 1 /\ 3 - 1 = 2 /\ 4 - 1 = 3 /\ 5 - 1 = 4
    OBVIOUS
  <2> QED
    BY <1>7, <1>8, <1>10, <2>1
<1>12. Ahead1(g[1], ty)
  BY <1>11, Aheads
<1>13. Ahead2(g[2], ty, "FROM")
  BY <1>2, <1>11, <1>12, Aheads
<1>14. Ahead3(g[3], ty, "FROM", w)
  BY <1>11, <1>13, Aheads
<1>15. Ahead4(g[4], ty, "FROM", w, "IS")
  BY <1>2, <1>11, <1>14, Aheads
<1>16. g[4] \in Seq(Tokens)
  BY <1>15, Zenon DEF Ahead4
<1>17. Tcp!Serialize(m) = WireText(g[4], c)
  BY <1>10, <1>11, <1>16, FrontOf
<1> QED
  BY <1>1, <1>15, <1>17

(* Those of three words in front: REPLY and JOIN.                          *)
LEMMA SerializesShort ==
    ASSUME NEW m, NEW a \in Tokens, NEW b \in Tokens, NEW ty \in Tokens, ty = m.type,
           NEW c \in Seq(Tokens), Tcp!Parts(m) = <<(<<a>>), (<<b>>), c>>
    PROVE  \E h : Ahead3(h, ty, a, b) /\ Tcp!Serialize(m) = WireText(h, c)
<1>1. PICK q : q = Tcp!Parts(m)
  OBVIOUS
<1>2. <<a>> \in Seq(Tokens) /\ <<b>> \in Seq(Tokens) /\ <<ty>> \in Seq(Tokens)
  OBVIOUS
<1>3. Len(q) = 3 /\ q[1] = <<a>> /\ q[2] = <<b>> /\ q[3] = c /\ q \in Seq(Seq(Tokens))
  <2>1. PICK x \in Seq(Tokens), y \in Seq(Tokens) : x = <<a>> /\ y = <<b>>
    BY <1>2
  <2>2. q = <<x, y, c>>
    BY <1>1, <2>1
  <2> QED
    BY <2>1, <2>2
<1>4. PICK P : P = Pieces(m)
  OBVIOUS
<1>5. P[1] = <<ty>> /\ P[2] = <<a>> /\ P[3] = <<b>> /\ P[4] = c
  <2>1. P[1] = <<ty>> /\ \A k \in 1..3 : P[k + 1] = q[k]
    BY <1>1, <1>3, <1>4, PiecesOf
  <2>2. P[1 + 1] = q[1] /\ P[2 + 1] = q[2] /\ P[3 + 1] = q[3]
    BY <2>1
  <2> QED
    BY <1>3, <2>1, <2>2
<1>6. ASSUME NEW i \in 1..4 PROVE Pieces(m)[i] \in Seq(Tokens)
  <2>1. i = 1 \/ i = 2 \/ i = 3 \/ i = 4
    OBVIOUS
  <2> QED
    BY <1>2, <1>4, <1>5, <2>1
<1>7. PICK g : /\ g[1] = Append(Pieces(m)[1], Tcp!Space)
               /\ \A i \in 2..4 : g[i] = g[i - 1] \o Append(Pieces(m)[i], Tcp!Space)
               /\ Tcp!Serialize(m) = Append(Tcp!Front(g[4]), Tcp!LineEnd)
  <2>1. PICK n \in 1..5 : n = 4 /\ Len(Tcp!Parts(m)) + 1 = n
    BY <1>1, <1>3
  <2>2. \A i \in 1..n : Pieces(m)[i] \in Seq(Tokens)
    BY <1>6, <2>1
  <2>3. \E g : /\ g[1] = Append(Pieces(m)[1], Tcp!Space)
               /\ \A i \in 2..n : g[i] = g[i - 1] \o Append(Pieces(m)[i], Tcp!Space)
               /\ Tcp!Serialize(m) = Append(Tcp!Front(g[n]), Tcp!LineEnd)
    BY <2>1, <2>2, LastPiece, Zenon
  <2> QED
    BY <2>1, <2>3
<1>8. /\ g[1] = Append(<<ty>>, Tcp!Space) /\ g[2] = g[1] \o Append(<<a>>, Tcp!Space)
      /\ g[3] = g[2] \o Append(<<b>>, Tcp!Space) /\ g[4] = g[3] \o Append(c, Tcp!Space)
  <2>1. 2 \in 2..4 /\ 3 \in 2..4 /\ 4 \in 2..4 /\ 2 - 1 = 1 /\ 3 - 1 = 2 /\ 4 - 1 = 3
    OBVIOUS
  <2> QED
    BY <1>4, <1>5, <1>7, <2>1
<1>9. Ahead1(g[1], ty)
  BY <1>8, Aheads
<1>10. Ahead2(g[2], ty, a)
  BY <1>8, <1>9, Aheads
<1>11. Ahead3(g[3], ty, a, b)
  BY <1>8, <1>10, Aheads
<1>12. g[3] \in Seq(Tokens)
  BY <1>11, Zenon DEF Ahead3
<1>13. Tcp!Serialize(m) = WireText(g[3], c)
  BY <1>7, <1>8, <1>12, FrontOf
<1> QED
  BY <1>11, <1>13

LEMMA SerializesBye ==
    ASSUME NEW m, m.type = "BYE"
    PROVE  Tcp!Serialize(m) = WireText(<<>>, <<"BYE">>)
<1>1. Tcp!Parts(m) = <<>>
  BY DEF Tcp!Parts
<1>2. "BYE" \in Tokens
  BY InTokens DEF Keywords
<1>3. <<"BYE">> \in Seq(Tokens)
  BY <1>2
<1>4. Len(Tcp!Parts(m)) + 1 = 1 /\ 1 \in 1..5 /\ Tcp!Parts(m) \in Seq(Seq(Tokens))
  BY <1>1
<1>5. Pieces(m)[1] = <<"BYE">>
  BY <1>2, <1>4, PiecesOf
<1>6. PICK n \in 1..5 : n = 1
  OBVIOUS
<1>7. ASSUME NEW i \in 1..n PROVE Pieces(m)[i] \in Seq(Tokens)
  <2>1. i = 1
    BY <1>6
  <2> QED
    BY <1>3, <1>5, <2>1
<1>8. PICK g : /\ g[1] = Append(Pieces(m)[1], Tcp!Space)
               /\ Tcp!Serialize(m) = Append(Tcp!Front(g[n]), Tcp!LineEnd)
  <2>1. Len(Tcp!Parts(m)) + 1 = n
    BY <1>4, <1>6
  <2> QED
    BY <1>7, <2>1, LastPiece
<1>9. PICK e \in Seq(Tokens), c \in Seq(Tokens) : e = <<>> /\ c = <<"BYE">>
  <2>1. <<>> \in Seq(Tokens)
    OBVIOUS
  <2> QED
    BY <1>3, <2>1, Zenon
<1>10. PICK x \in Seq(Tokens) : x = Append(c, Tcp!Space)
  BY <1>2, <1>9, OneWord
<1>11. e \o x = x
  BY <1>9, ConcatEmptySeq
<1>12. Tcp!Serialize(m) = Append(Tcp!Front(e \o Append(c, Tcp!Space)), Tcp!LineEnd)
  BY <1>5, <1>6, <1>8, <1>9, <1>10, <1>11
<1>13. Tcp!Serialize(m) = WireText(e, c)
  BY <1>12, FrontOf
<1> QED
  BY <1>9, <1>13

-----------------------------------------------------------------------------
(* What writeTCPMail makes of these texts.                                 *)
IsName(w) == w \in Tokens \ {"", Tcp!Space, Tcp!LineEnd}

IsContent(c) == c \in Seq(Tokens \ {Tcp!LineEnd}) /\ c \notin {<<>>, <<"">>}

LEMMA ContentType ==
    ASSUME NEW c, IsContent(c)
    PROVE  c \in Seq(Tokens) /\ c # <<>> /\ c # <<"">>
<1>1. Tokens \ {Tcp!LineEnd} \subseteq Tokens
  OBVIOUS
<1> QED
  BY <1>1, SeqMonotonic DEF IsContent

(* The words of the protocol are no different from others.                 *)
LEMMA KeywordNames == \A k \in Keywords : IsName(k)
<1>1. \A k \in Keywords : k # "" /\ k # Tcp!Space /\ k # Tcp!LineEnd
  BY DEF Keywords, Tcp!Space, Tcp!LineEnd
<1> QED
  BY <1>1, InTokens, Zenon DEF IsName

(* Four words with a space behind each.                                    *)
LEMMA FourWords ==
    ASSUME NEW a, NEW b, NEW d, NEW e, IsName(a), IsName(b), IsName(d), IsName(e),
           NEW h, Ahead4(h, a, b, d, e), NEW c, IsContent(c)
    PROVE  LET t == WireText(h, c)
           IN  /\ Tcp!WordAt(t, 1) = a /\ Tcp!WordAt(t, 2) = b /\ Tcp!WordAt(t, 3) = d
               /\ Tcp!WordAt(t, 4) = e /\ Tcp!Rest(t, 4) = c
<1> DEFINE sp == Tcp!Space
<1>1. h \in Seq(Tokens) /\ Len(h) = 8
  BY Zenon DEF Ahead4
<1>2. h[1] = a /\ h[2] = sp /\ h[3] = b /\ h[4] = sp /\ h[5] = d /\ h[6] = sp
      /\ h[7] = e /\ h[8] = sp
  BY Zenon DEF Ahead4
<1>3. c \in Seq(Tokens) /\ Len(c) \in Nat /\ c # <<>> /\ c \in Seq(Tokens \ {Tcp!LineEnd})
  BY ContentType, LenProperties DEF IsContent
<1>4. PICK t \in Seq(Tokens) : t = WireText(h, c)
  BY <1>1, <1>3, LineType
<1>5. Len(t) = 8 + Len(c) + 1 /\ \A k \in 1..8 : t[k] = h[k]
  <2>1. Len(t) = Len(h) + Len(c) + 1 /\ \A k \in 1..Len(h) : t[k] = h[k]
    BY <1>1, <1>3, <1>4, LineType
  <2> QED
    BY <1>1, <2>1
<1>6. t[1] = a /\ t[2] = sp /\ t[3] = b /\ t[4] = sp /\ t[5] = d /\ t[6] = sp
      /\ t[7] = e /\ t[8] = sp
  BY <1>2, <1>5
<1>7. sp \in Tcp!Blank1 /\ a \notin Tcp!Blank1 /\ b \notin Tcp!Blank1
      /\ d \notin Tcp!Blank1 /\ e \notin Tcp!Blank1
  BY Zenon DEF Tcp!Blank1, IsName
<1>8. Len(t) >= 9
  BY <1>3, <1>5
<1> HIDE DEF sp
<1>9. IsWord(t, 1, 1)
  BY <1>6, <1>7, <1>8, FirstWord
<1>10. IsWord(t, 2, 3)
  <2>1. 1 + 1 = 2 /\ 1 + 2 = 3
    OBVIOUS
  <2> QED
    BY <1>6, <1>7, <1>8, <1>9, <2>1, NextWord
<1>11. IsWord(t, 3, 5)
  <2>1. 2 + 1 = 3 /\ 3 + 1 = 4 /\ 3 + 2 = 5
    OBVIOUS
  <2> QED
    BY <1>6, <1>7, <1>8, <1>10, <2>1, NextWord
<1>12. IsWord(t, 4, 7)
  <2>1. 3 + 1 = 4 /\ 5 + 1 = 6 /\ 5 + 2 = 7
    OBVIOUS
  <2> QED
    BY <1>6, <1>7, <1>8, <1>11, <2>1, NextWord
<1>13. Tcp!WordAt(t, 1) = a /\ Tcp!WordAt(t, 2) = b /\ Tcp!WordAt(t, 3) = d
       /\ Tcp!WordAt(t, 4) = e
  BY <1>6, <1>9, <1>10, <1>11, <1>12, WordFound
<1>14. Tcp!Rest(t, 4) = c
  <2>1. 7 + 1 = 8 /\ 4 \in Nat /\ 7 \in Nat
    OBVIOUS
  <2>2. Len(h) = 7 + 1 /\ h[7 + 1] = Tcp!Space /\ h \in Seq(Tokens)
    BY <1>1, <1>2, <2>1 DEF sp
  <2>3. IsWord(WireText(h, c), 4, 7)
    BY <1>4, <1>12
  <2> QED
    BY <1>3, <1>4, <2>1, <2>2, <2>3, RestFound
<1> QED
  BY <1>4, <1>13, <1>14

(* Three words with a space behind each.                                   *)
LEMMA ThreeWords ==
    ASSUME NEW a, NEW b, NEW d, IsName(a), IsName(b), IsName(d),
           NEW h, Ahead3(h, a, b, d), NEW c, IsContent(c)
    PROVE  LET t == WireText(h, c)
           IN  /\ Tcp!WordAt(t, 1) = a /\ Tcp!WordAt(t, 2) = b /\ Tcp!WordAt(t, 3) = d
               /\ Tcp!Rest(t, 3) = c
               /\ \A w : IsName(w) /\ c = <<w>> => Tcp!WordAt(t, 4) = w
<1> DEFINE sp == Tcp!Space
<1>1. h \in Seq(Tokens) /\ Len(h) = 6
  BY Zenon DEF Ahead3
<1>2. h[1] = a /\ h[2] = sp /\ h[3] = b /\ h[4] = sp /\ h[5] = d /\ h[6] = sp
  BY Zenon DEF Ahead3
<1>3. c \in Seq(Tokens) /\ Len(c) \in Nat /\ c # <<>> /\ c \in Seq(Tokens \ {Tcp!LineEnd})
  BY ContentType, LenProperties DEF IsContent
<1>4. PICK t \in Seq(Tokens) : t = WireText(h, c)
  BY <1>1, <1>3, LineType
<1>5. Len(t) = 6 + Len(c) + 1 /\ (\A k \in 1..6 : t[k] = h[k])
      /\ \A k \in 1..Len(c) : t[6 + k] = c[k]
  <2>1. Len(t) = Len(h) + Len(c) + 1 /\ (\A k \in 1..Len(h) : t[k] = h[k])
        /\ \A k \in 1..Len(c) : t[Len(h) + k] = c[k]
    BY <1>1, <1>3, <1>4, LineType
  <2> QED
    BY <1>1, <2>1
<1>6. t[1] = a /\ t[2] = sp /\ t[3] = b /\ t[4] = sp /\ t[5] = d /\ t[6] = sp
  BY <1>2, <1>5
<1>7. sp \in Tcp!Blank1 /\ a \notin Tcp!Blank1 /\ b \notin Tcp!Blank1 /\ d \notin Tcp!Blank1
  BY Zenon DEF Tcp!Blank1, IsName
<1>8. Len(t) >= 7
  BY <1>3, <1>5
<1> HIDE DEF sp
<1>9. IsWord(t, 1, 1)
  BY <1>6, <1>7, <1>8, FirstWord
<1>10. IsWord(t, 2, 3)
  <2>1. 1 + 1 = 2 /\ 1 + 2 = 3
    OBVIOUS
  <2> QED
    BY <1>6, <1>7, <1>8, <1>9, <2>1, NextWord
<1>11. IsWord(t, 3, 5)
  <2>1. 2 + 1 = 3 /\ 3 + 1 = 4 /\ 3 + 2 = 5
    OBVIOUS
  <2> QED
    BY <1>6, <1>7, <1>8, <1>10, <2>1, NextWord
<1>12. Tcp!WordAt(t, 1) = a /\ Tcp!WordAt(t, 2) = b /\ Tcp!WordAt(t, 3) = d
  BY <1>6, <1>9, <1>10, <1>11, WordFound
<1>13. Tcp!Rest(t, 3) = c
  <2>1. Len(h) = 5 + 1 /\ h[5 + 1] = Tcp!Space /\ 3 \in Nat /\ 5 \in Nat
    BY <1>1, <1>2 DEF sp
  <2>2. IsWord(WireText(h, c), 3, 5)
    BY <1>4, <1>11, Zenon
  <2>3. Tcp!Rest(WireText(h, c), 3) = c
    BY <1>1, <1>3, <2>1, <2>2, RestFound, Zenon
  <2> QED
    BY <1>4, <2>3, Zenon
<1>14. ASSUME NEW w, IsName(w), c = <<w>> PROVE Tcp!WordAt(t, 4) = w
  <2>1. 3 + 1 = 4 /\ 5 + 1 = 6 /\ 5 + 2 = 7
    OBVIOUS
  <2>2. Len(c) = 1 /\ c[1] = w
    BY <1>14
  <2>3. 1 \in 1..Len(c) /\ 6 + 1 = 7
    BY <2>2
  <2>4. t[7] = w
    BY <1>5, <2>2, <2>3
  <2>5. w \notin Tcp!Blank1
    BY <1>14 DEF Tcp!Blank1, IsName
  <2>6. IsWord(t, 4, 7)
    BY <1>6, <1>7, <1>8, <1>11, <2>1, <2>4, <2>5, NextWord
  <2> QED
    BY <2>4, <2>6, WordFound
<1> QED
  BY <1>4, <1>12, <1>13, <1>14

(* writeTCPMail of an MSG or ERR: its words are where they must be, and    *)
(* the content is what is left, words of the protocol in it or not.        *)
LEMMA ReadsText ==
    ASSUME NEW ty \in {"MSG", "ERR"}, NEW w, IsName(w), NEW c, IsContent(c),
           NEW h, Ahead4(h, ty, "FROM", w, "IS")
    PROVE  Tcp!WriteTCPText(WireText(h, c)) =
             [type |-> ty, result |-> FALSE, texts |-> <<(<<w>>), c>>]
<1>1. PICK t : t = WireText(h, c)
  OBVIOUS
<1>2. IsName(ty) /\ IsName("FROM") /\ IsName("IS")
  BY KeywordNames DEF Keywords
<1>3. Tcp!WordAt(t, 1) = ty /\ Tcp!WordAt(t, 2) = "FROM" /\ Tcp!WordAt(t, 3) = w
      /\ Tcp!WordAt(t, 4) = "IS" /\ Tcp!Rest(t, 4) = c
  BY <1>1, <1>2, FourWords
<1> DEFINE x == <<(<<w>>), c>>
<1>4. Tcp!AllValid(x)
  <2>1. <<w>> # <<>> /\ <<w>> # <<"">>
    BY DEF IsName
  <2>2. c # <<>> /\ c # <<"">>
    BY ContentType
  <2>3. Len(x) = 2 /\ x[1] = <<w>> /\ x[2] = c
    OBVIOUS
  <2> HIDE DEF x
  <2>4. \A i \in 1..Len(x) : i = 1 \/ i = 2
    BY <2>3
  <2> QED
    BY <2>1, <2>2, <2>3, <2>4 DEF Tcp!AllValid
<1>5. Tcp!WriteTCPText(t) = Tcp!Parsed(ty, FALSE, x, TRUE)
  BY <1>3 DEF Tcp!WriteTCPText
<1> QED
  BY <1>1, <1>4, <1>5 DEF Tcp!Parsed

(* The same of a REPLY.                                                    *)
LEMMA ReadsReply ==
    ASSUME NEW ok \in {"OK", "NOK"}, NEW c, IsContent(c),
           NEW h, Ahead3(h, "REPLY", ok, "IS")
    PROVE  Tcp!WriteTCPText(WireText(h, c)) =
             [type |-> "REPLY", result |-> ok = "OK", texts |-> <<c>>]
<1>1. PICK t : t = WireText(h, c)
  OBVIOUS
<1>2. IsName("REPLY") /\ IsName(ok) /\ IsName("IS")
  BY KeywordNames DEF Keywords
<1>3. Tcp!WordAt(t, 1) = "REPLY" /\ Tcp!WordAt(t, 2) = ok /\ Tcp!WordAt(t, 3) = "IS"
      /\ Tcp!Rest(t, 3) = c
  BY <1>1, <1>2, ThreeWords
<1>4. Tcp!AllValid(<<c>>)
  <2>1. c # <<>> /\ c # <<"">>
    BY ContentType
  <2>2. PICK x : x = <<c>>
    OBVIOUS
  <2>3. Len(x) = 1 /\ x[1] = c
    BY <2>2
  <2>4. \A i \in 1..Len(x) : i = 1
    BY <2>3
  <2> QED
    BY <2>1, <2>2, <2>3, <2>4 DEF Tcp!AllValid
<1>5. (<<ok>> = <<"OK">>) = (ok = "OK")
  OBVIOUS
<1>6. Tcp!WriteTCPText(t) = Tcp!Parsed("REPLY", ok = "OK", <<c>>, TRUE)
  BY <1>3, <1>5 DEF Tcp!WriteTCPText
<1> QED
  BY <1>1, <1>4, <1>6 DEF Tcp!Parsed

(* The same of a JOIN, whose last field is a word.                         *)
LEMMA ReadsJoin ==
    ASSUME NEW w, IsName(w), NEW v, IsName(v),
           NEW h, Ahead3(h, "JOIN", w, "AS")
    PROVE  Tcp!WriteTCPText(WireText(h, <<v>>)) =
             [type |-> "JOIN", result |-> FALSE, texts |-> <<(<<w>>), (<<v>>)>>]
<1>1. PICK t : t = WireText(h, <<v>>)
  OBVIOUS
<1>2. IsName("JOIN") /\ IsName("AS")
  BY KeywordNames DEF Keywords
<1>3. IsContent(<<v>>)
  <2>1. v \in Tokens \ {Tcp!LineEnd} /\ v # ""
    BY Zenon DEF IsName
  <2>2. <<v>> # <<>> /\ <<v>> # <<"">>
    BY <2>1
  <2>3. PICK S : S = Tokens \ {Tcp!LineEnd}
    OBVIOUS
  <2>4. v \in S
    BY <2>1, <2>3
  <2>5. <<v>> \in Seq(S)
    BY <2>4
  <2> QED
    BY <2>2, <2>3, <2>5, Zenon DEF IsContent
<1>4. Tcp!WordAt(t, 1) = "JOIN" /\ Tcp!WordAt(t, 2) = w /\ Tcp!WordAt(t, 3) = "AS"
      /\ Tcp!WordAt(t, 4) = v
  BY <1>1, <1>2, <1>3, ThreeWords
<1> DEFINE x == <<(<<w>>), (<<v>>)>>
<1>5. Tcp!AllValid(x)
  <2>1. <<w>> # <<>> /\ <<w>> # <<"">> /\ <<v>> # <<>> /\ <<v>> # <<"">>
    BY DEF IsName
  <2>2. Len(x) = 2 /\ x[1] = <<w>> /\ x[2] = <<v>>
    OBVIOUS
  <2> HIDE DEF x
  <2>4. \A i \in 1..Len(x) : i = 1 \/ i = 2
    BY <2>2
  <2> QED
    BY <2>1, <2>2, <2>4 DEF Tcp!AllValid
<1>6. Tcp!WriteTCPText(t) = Tcp!Parsed("JOIN", FALSE, x, TRUE)
  BY <1>4 DEF Tcp!WriteTCPText
<1> QED
  BY <1>1, <1>5, <1>6 DEF Tcp!Parsed

(* BYE is all of its text, and a text of one word.                         *)
LEMMA ReadsBye ==
    Tcp!WriteTCPText(WireText(<<>>, <<"BYE">>)) = [type |-> "BYE", result |-> FALSE, texts |-> <<>>]
<1>1. <<>> \in Seq(Tokens) /\ <<"BYE">> \in Seq(Tokens)
  <2>1. "BYE" \in Tokens
    BY InTokens DEF Keywords
  <2> QED
    BY <2>1
<1>2. PICK t \in Seq(Tokens) : t = WireText(<<>>, <<"BYE">>)
  BY <1>1, LineType
<1>3. Len(t) >= 1 /\ t[1] = "BYE"
  <2>1. Len(t) = Len(<<>>) + Len(<<"BYE">>) + 1
        /\ \A k \in 1..Len(<<"BYE">>) : t[Len(<<>>) + k] = <<"BYE">>[k]
    <3>1. Len(t) = Len(<<>>) + Len(<<"BYE">>) + 1
      BY <1>1, <1>2, LineType, Zenon
    <3>2. ASSUME NEW k \in 1..Len(<<"BYE">>) PROVE t[Len(<<>>) + k] = <<"BYE">>[k]
      <4>1. WireText(<<>>, <<"BYE">>)[Len(<<>>) + k] = <<"BYE">>[k]
        BY <1>1, LineType
      <4> QED
        BY <1>2, <4>1, Zenon
    <3> QED
      BY <3>1, <3>2, Zenon
  <2>2. Len(<<>>) = 0 /\ Len(<<"BYE">>) = 1 /\ <<"BYE">>[1] = "BYE" /\ 0 + 1 = 1
    OBVIOUS
  <2> QED
    BY <2>1, <2>2
<1>4. t[1] \notin Tcp!Blank1
  BY <1>3 DEF Tcp!Blank1, Tcp!Space, Tcp!LineEnd
<1>5. Tcp!WordAt(t, 1) = "BYE"
  BY <1>3, <1>4, FirstWord, WordFound
<1>6. Tcp!AllValid(<<>>)
  <2>1. 1..Len(<<>>) = {}
    OBVIOUS
  <2> QED
    BY <2>1, Zenon DEF Tcp!AllValid
<1>7. Tcp!WriteTCPText(t) = Tcp!Parsed("BYE", FALSE, <<>>, TRUE)
  BY <1>5 DEF Tcp!WriteTCPText
<1> QED
  BY <1>2, <1>6, <1>7 DEF Tcp!Parsed

-----------------------------------------------------------------------------
(* A message of the peer, and what becomes of its text.                    *)
LEMMA Inputs ==
    /\ \A w \in Words : IsName(w) /\ w \in Tokens
    /\ \A c \in Sentences : IsContent(c) /\ c \in Seq(Tokens)
<1>1. STRING \ {"", Tcp!Space, Tcp!LineEnd} \subseteq Tokens \ {"", Tcp!Space, Tcp!LineEnd}
  BY Zenon DEF Tokens
<1>2. STRING \ {Tcp!LineEnd} \subseteq Tokens \ {Tcp!LineEnd}
  BY Zenon DEF Tokens
<1>3. ASSUME NEW w \in Words PROVE IsName(w) /\ w \in Tokens
  BY <1>1, WordsAssumption, Zenon DEF IsName
<1>4. ASSUME NEW c \in Sentences PROVE IsContent(c) /\ c \in Seq(Tokens)
  <2>1. c \in Seq(STRING \ {Tcp!LineEnd}) /\ c \notin {<<>>, <<"">>}
    BY WordsAssumption, Zenon
  <2>2. c \in Seq(Tokens \ {Tcp!LineEnd})
    BY <1>2, <2>1, SeqMonotonic, Zenon
  <2>3. IsContent(c)
    BY <2>1, <2>2, Zenon DEF IsContent
  <2> QED
    BY <2>3, ContentType, Zenon
<1> QED
  BY <1>3, <1>4

(* The fields of a message, by its type. The peer sends no AUTH.           *)
Shape(m) ==
    \/ /\ m.type \in {"MSG", "ERR"} /\ m.result = FALSE
       /\ \E w \in Words, c \in Sentences : m.texts = <<(<<w>>), c>>
    \/ /\ m.type = "JOIN" /\ m.result = FALSE
       /\ \E w \in Words, v \in Words : m.texts = <<(<<w>>), (<<v>>)>>
    \/ /\ m.type = "REPLY" /\ m.result \in BOOLEAN
       /\ \E c \in Sentences : m.texts = <<c>>
    \/ m.type = "BYE" /\ m.result = FALSE /\ m.texts = <<>>

(* Two fields, of MSG and ERR.                                             *)
LEMMA Pair ==
    ASSUME NEW x \in {<<(<<n>>), c>> : n \in Words, c \in Sentences}
    PROVE  \E w \in Words, c \in Sentences : x = <<(<<w>>), c>>
OBVIOUS

(* Every member of Message has these.                                      *)
LEMMA Shapes ==
    ASSUME "AUTH" \notin SentTypes, NEW m \in Tcp!Message
    PROVE  /\ m = [type |-> m.type, result |-> m.result, texts |-> m.texts]
           /\ Shape(m)
<1>1. PICK t \in SentTypes :
        m \in [ type   : {t},
                result : IF t = "REPLY" THEN BOOLEAN ELSE {FALSE},
                texts  : Tcp!TextsOf(t) ]
  BY DEF Tcp!Message
<1>2. t \in {"JOIN", "MSG", "ERR", "REPLY", "BYE"}
  BY StreamAssumption DEF MessageType
<1>3. \A R, T : m \in [type : {t}, result : R, texts : T] =>
          /\ m = [type |-> m.type, result |-> m.result, texts |-> m.texts]
          /\ m.type = t /\ m.result \in R /\ m.texts \in T
  OBVIOUS
<1>4. /\ m = [type |-> m.type, result |-> m.result, texts |-> m.texts]
      /\ m.type = t /\ m.texts \in Tcp!TextsOf(t)
      /\ m.result \in IF t = "REPLY" THEN BOOLEAN ELSE {FALSE}
  BY <1>1, <1>3
<1>5. CASE t \in {"MSG", "ERR"}
  <2>1. t # "AUTH" /\ t # "JOIN" /\ t # "REPLY"
    BY <1>5
  <2>2. /\ (IF t = "REPLY" THEN BOOLEAN ELSE {FALSE}) = {FALSE}
        /\ Tcp!TextsOf(t) = {<<(<<n>>), c>> : n \in Words, c \in Sentences}
    BY <1>5, <2>1 DEF Tcp!TextsOf
  <2>3. PICK w \in Words, c \in Sentences : m.texts = <<(<<w>>), c>>
    BY <1>4, <2>2, Pair
  <2>4. m.type \in {"MSG", "ERR"} /\ m.result = FALSE
    BY <1>4, <1>5, <2>2
  <2> QED
    BY <1>4, <2>3, <2>4, Zenon DEF Shape
<1>6. CASE t = "JOIN"
  <2>1. /\ (IF t = "REPLY" THEN BOOLEAN ELSE {FALSE}) = {FALSE}
        /\ Tcp!TextsOf(t) = [1..2 -> {<<n>> : n \in Words}]
    BY <1>6 DEF Tcp!TextsOf
  <2>2. m.texts \in [1..2 -> {<<n>> : n \in Words}]
    BY <1>4, <2>1
  <2>3. PICK w \in Words, v \in Words : m.texts[1] = <<w>> /\ m.texts[2] = <<v>>
    BY <2>2
  <2>4. PICK x, y : x = <<w>> /\ y = <<v>>
    OBVIOUS
  <2>5. m.texts = <<x, y>>
    <3>1. m.texts = [i \in 1..2 |-> m.texts[i]]
      BY <2>2
    <3> QED
      BY <2>3, <2>4, <3>1
  <2> QED
    BY <1>4, <1>6, <2>1, <2>4, <2>5 DEF Shape
<1>7. CASE t = "REPLY"
  <2>1. /\ (IF t = "REPLY" THEN BOOLEAN ELSE {FALSE}) = BOOLEAN
        /\ Tcp!TextsOf(t) = {<<c>> : c \in Sentences}
    BY <1>7 DEF Tcp!TextsOf
  <2> QED
    BY <1>4, <1>7, <2>1 DEF Shape
<1>8. CASE t = "BYE"
  <2>1. /\ (IF t = "REPLY" THEN BOOLEAN ELSE {FALSE}) = {FALSE}
        /\ Tcp!TextsOf(t) = {<<>>}
    BY <1>8 DEF Tcp!TextsOf
  <2> QED
    BY <1>4, <1>8, <2>1 DEF Shape
<1> QED
  BY <1>2, <1>4, <1>5, <1>6, <1>7, <1>8

(* A text is never empty.                                                  *)
LEMMA TextType ==
    ASSUME NEW h \in Seq(Tokens), NEW c \in Seq(Tokens)
    PROVE  WireText(h, c) \in Seq(Tokens) /\ WireText(h, c) # <<>>
<1>1. PICK t \in Seq(Tokens) : t = WireText(h, c)
  BY LineType
<1>2. Len(t) = Len(h) + Len(c) + 1 /\ Len(h) \in Nat /\ Len(c) \in Nat
  BY <1>1, LineType, LenProperties
<1>3. t # <<>>
  BY <1>2
<1> QED
  BY <1>1, <1>3

(* What is written of a message is read as that message.                   *)
LEMMA ReadBack ==
    ASSUME "AUTH" \notin SentTypes, NEW m \in Tcp!Message
    PROVE  /\ Tcp!WriteTCPText(Tcp!Serialize(m)) = m
           /\ Tcp!Serialize(m) \in Seq(Tokens) /\ Tcp!Serialize(m) # <<>>
<1>1. m = [type |-> m.type, result |-> m.result, texts |-> m.texts] /\ Shape(m)
  BY Shapes
<1>2. ASSUME m.type \in {"MSG", "ERR"}, m.result = FALSE, NEW w \in Words, NEW c \in Sentences,
             m.texts = <<(<<w>>), c>>
      PROVE  /\ Tcp!WriteTCPText(Tcp!Serialize(m)) = m
             /\ Tcp!Serialize(m) \in Seq(Tokens) /\ Tcp!Serialize(m) # <<>>
  <2>1. IsName(w) /\ w \in Tokens /\ IsContent(c) /\ c \in Seq(Tokens)
    BY Inputs
  <2>2. PICK h : Ahead4(h, m.type, "FROM", w, "IS") /\ Tcp!Serialize(m) = WireText(h, c)
    BY <1>2, <2>1, SerializesText
  <2>3. h \in Seq(Tokens)
    BY <2>2, Zenon DEF Ahead4
  <2>4. Tcp!WriteTCPText(WireText(h, c))
          = [type |-> m.type, result |-> FALSE, texts |-> <<(<<w>>), c>>]
    BY <1>2, <2>1, <2>2, ReadsText
  <2> QED
    BY <1>1, <1>2, <2>1, <2>2, <2>3, <2>4, TextType
<1>3. ASSUME m.type = "JOIN", m.result = FALSE, NEW w \in Words, NEW v \in Words,
             m.texts = <<(<<w>>), (<<v>>)>>
      PROVE  /\ Tcp!WriteTCPText(Tcp!Serialize(m)) = m
             /\ Tcp!Serialize(m) \in Seq(Tokens) /\ Tcp!Serialize(m) # <<>>
  <2>1. IsName(w) /\ w \in Tokens /\ IsName(v) /\ v \in Tokens
    BY Inputs
  <2>2. PICK c \in Seq(Tokens) : c = <<v>>
    <3>1. v \in Tokens
      BY <2>1
    <3>2. <<v>> \in Seq(Tokens)
      BY <3>1
    <3> QED
      BY <3>2, Zenon
  <2>3. m.type \in Tokens /\ "AS" \in Tokens
    BY <1>3, InTokens DEF Keywords
  <2>4. Tcp!Parts(m) = <<(<<w>>), (<<"AS">>), c>>
    BY <1>3, <2>2 DEF Tcp!Parts
  <2>5. PICK h : Ahead3(h, m.type, w, "AS") /\ Tcp!Serialize(m) = WireText(h, c)
    BY <2>1, <2>3, <2>4, SerializesShort
  <2>6. h \in Seq(Tokens)
    BY <2>5, Zenon DEF Ahead3
  <2>7. Tcp!WriteTCPText(WireText(h, <<v>>))
          = [type |-> "JOIN", result |-> FALSE, texts |-> <<(<<w>>), (<<v>>)>>]
    BY <1>3, <2>1, <2>5, ReadsJoin
  <2> QED
    BY <1>1, <1>3, <2>2, <2>5, <2>6, <2>7, TextType
<1>4. ASSUME m.type = "REPLY", m.result \in BOOLEAN, NEW c \in Sentences, m.texts = <<c>>
      PROVE  /\ Tcp!WriteTCPText(Tcp!Serialize(m)) = m
             /\ Tcp!Serialize(m) \in Seq(Tokens) /\ Tcp!Serialize(m) # <<>>
  <2>1. IsContent(c) /\ c \in Seq(Tokens)
    BY Inputs
  <2>2. PICK ok \in {"OK", "NOK"} : ok = IF m.result THEN "OK" ELSE "NOK"
    BY <1>4
  <2>3. m.type \in Tokens /\ "IS" \in Tokens /\ ok \in Tokens
    BY <1>4, InTokens DEF Keywords
  <2>4. Tcp!Parts(m) = <<(<<ok>>), (<<"IS">>), c>>
    <3>1. Tcp!Parts(m) = <<(IF m.result THEN <<"OK">> ELSE <<"NOK">>), <<"IS">>, m.texts[1]>>
      BY <1>4 DEF Tcp!Parts
    <3>2. (IF m.result THEN <<"OK">> ELSE <<"NOK">>) = <<ok>> /\ m.texts[1] = c
      BY <1>4, <2>2
    <3> QED
      BY <3>1, <3>2
  <2>5. PICK h : Ahead3(h, m.type, ok, "IS") /\ Tcp!Serialize(m) = WireText(h, c)
    <3>1. PICK ty \in Tokens : ty = m.type
      BY <2>3, Zenon
    <3>2. PICK is \in Tokens : is = "IS"
      BY <2>3, Zenon
    <3>3. Tcp!Parts(m) = <<(<<ok>>), (<<is>>), c>>
      BY <2>4, <3>2, Zenon
    <3>4. \E h : Ahead3(h, ty, ok, is) /\ Tcp!Serialize(m) = WireText(h, c)
      BY <2>1, <2>3, <3>1, <3>3, SerializesShort
    <3> QED
      BY <3>1, <3>2, <3>4, Zenon
  <2>6. h \in Seq(Tokens)
    BY <2>5, Zenon DEF Ahead3
  <2>7. Tcp!WriteTCPText(WireText(h, c))
          = [type |-> "REPLY", result |-> ok = "OK", texts |-> <<c>>]
    BY <1>4, <2>1, <2>5, ReadsReply
  <2>8. (ok = "OK") = m.result
    BY <1>4, <2>2
  <2> QED
    BY <1>1, <1>4, <2>1, <2>5, <2>6, <2>7, <2>8, TextType
<1>5. ASSUME m.type = "BYE", m.result = FALSE, m.texts = <<>>
      PROVE  /\ Tcp!WriteTCPText(Tcp!Serialize(m)) = m
             /\ Tcp!Serialize(m) \in Seq(Tokens) /\ Tcp!Serialize(m) # <<>>
  <2>1. Tcp!Serialize(m) = WireText(<<>>, <<"BYE">>)
    BY <1>5, SerializesBye
  <2>2. PICK e \in Seq(Tokens), c \in Seq(Tokens) : e = <<>> /\ c = <<"BYE">>
    <3>1. <<>> \in Seq(Tokens)
      OBVIOUS
    <3>2. "BYE" \in Tokens
      BY InTokens DEF Keywords
    <3>3. <<"BYE">> \in Seq(Tokens)
      BY <3>2
    <3> QED
      BY <3>1, <3>3, Zenon
  <2>3. WireText(e, c) \in Seq(Tokens) /\ WireText(e, c) # <<>>
    BY TextType
  <2> QED
    BY <1>1, <1>5, <2>1, <2>2, <2>3, ReadsBye
<1> QED
  BY <1>1, <1>2, <1>3, <1>4, <1>5 DEF Shape

-----------------------------------------------------------------------------
(* Each recv returns a whole text: the text, if there is one, is that of   *)
(* the last message.                                                       *)
TcpInv ==
    /\ sent \in Seq(Tcp!Message) /\ Len(parsed) \in Nat
    /\ parsed \in Seq(Tcp!Message)
    /\ IF stream = <<>> THEN Len(parsed) = Len(sent)
       ELSE Len(sent) = Len(parsed) + 1 /\ stream = Tcp!Serialize(sent[Len(sent)])
    /\ \A i \in 1..Len(parsed) : parsed[i] = sent[i]

(* It holds at first,                                                      *)
LEMMA TcpInit == Init => TcpInv
<1> SUFFICES ASSUME Init PROVE TcpInv
  OBVIOUS
<1>1. stream = <<>> /\ sent = <<>> /\ parsed = <<>>
  BY DEF Init, Tcp!Init
<1>2. Len(<<>>) = 0 /\ <<>> \in Seq(Tcp!Message) /\ 1..0 = {}
  OBVIOUS
<1> QED
  BY <1>1, <1>2 DEF TcpInv

(* and every step keeps it: Send finds the stream empty, and Receive takes *)
(* all of it.                                                              *)
LEMMA TcpStep ==
    ASSUME InStep, "AUTH" \notin SentTypes
    PROVE  TcpInv /\ [Next]_vars => TcpInv'
<1> SUFFICES ASSUME TcpInv, [Next]_vars PROVE TcpInv'
  OBVIOUS
<1>0. /\ sent \in Seq(Tcp!Message) /\ parsed \in Seq(Tcp!Message)
      /\ Len(sent) \in Nat /\ Len(parsed) \in Nat
  BY LenProperties DEF TcpInv
<1>1. CASE UNCHANGED tcpVars
  BY <1>1 DEF tcpVars, TcpInv
<1>2. CASE Tcp!Send
  <2>1. PICK m \in Tcp!Message :
          sent' = Append(sent, m) /\ stream' = stream \o Tcp!Serialize(m)
    BY <1>2, Zenon DEF Tcp!Send
  <2>2. stream = <<>> /\ parsed' = parsed
    BY <1>2 DEF Tcp!Send
  <2>3. Tcp!Serialize(m) \in Seq(Tokens) /\ Tcp!Serialize(m) # <<>>
    BY ReadBack
  <2>4. stream' = Tcp!Serialize(m)
    BY <2>1, <2>2, <2>3, ConcatEmptySeq
  <2>5. /\ sent' \in Seq(Tcp!Message) /\ Len(sent') = Len(sent) + 1
        /\ \A k \in 1..Len(sent) : sent'[k] = sent[k]
        /\ sent'[Len(sent) + 1] = m
    BY <1>0, <2>1, AppendProperties
  <2>6. Len(parsed) = Len(sent)
    BY <2>2 DEF TcpInv
  <2>7. \A i \in 1..Len(parsed) : parsed'[i] = sent'[i]
    BY <2>2, <2>5, <2>6 DEF TcpInv
  <2> QED
    BY <1>0, <2>2, <2>3, <2>4, <2>5, <2>6, <2>7 DEF TcpInv
<1>3. CASE Tcp!Receive
  <2>1. /\ stream # <<>> /\ sent' = sent
        /\ parsed' = Append(parsed, Tcp!WriteTCPText(SubSeq(stream, 1, Len(stream))))
        /\ stream' = SubSeq(stream, Len(stream) + 1, Len(stream))
    BY <1>3 DEF Tcp!Receive
  <2>2. Len(sent) = Len(parsed) + 1 /\ stream = Tcp!Serialize(sent[Len(sent)])
    BY <2>1 DEF TcpInv
  <2>3. PICK m \in Tcp!Message : m = sent[Len(sent)]
    <3>1. Len(sent) \in 1..Len(sent)
      BY <1>0, <2>2
    <3> QED
      BY <1>0, <3>1, ElementOfSeq
  <2>4. stream \in Seq(Tokens) /\ Tcp!WriteTCPText(stream) = m
    BY <2>2, <2>3, ReadBack
  <2>5. SubSeq(stream, 1, Len(stream)) = stream
    <3>1. Len(stream) \in Nat
      BY <2>4, LenProperties
    <3>2. \A i \in 1..Len(stream) : stream[i] \in Tokens
      BY <2>4, ElementOfSeq
    <3> QED
      BY <2>4, <3>1, <3>2
  <2>6. stream' = <<>>
    <3>1. Len(stream) \in Nat
      BY <2>4, LenProperties
    <3>2. stream' \in Seq(Tokens) /\ Len(stream') = 0
      BY <2>1, <2>4, <3>1, SubSeqProperties
    <3> QED
      BY <3>2, EmptySeq
  <2>7. parsed' = Append(parsed, m)
    BY <2>1, <2>4, <2>5
  <2>8. /\ parsed' \in Seq(Tcp!Message) /\ Len(parsed') = Len(parsed) + 1
        /\ \A k \in 1..Len(parsed) : parsed'[k] = parsed[k]
        /\ parsed'[Len(parsed) + 1] = m
    BY <1>0, <2>7, AppendProperties
  <2>9. ASSUME NEW i \in 1..Len(parsed') PROVE parsed'[i] = sent'[i]
    <3>1. CASE i = Len(parsed) + 1
      BY <2>1, <2>2, <2>3, <2>8, <3>1
    <3>2. CASE i # Len(parsed) + 1
      <4>1. i \in 1..Len(parsed)
        BY <1>0, <2>8, <3>2
      <4> QED
        BY <2>1, <2>8, <4>1 DEF TcpInv
    <3> QED
      BY <3>1, <3>2
  <2> QED
    BY <1>0, <2>1, <2>2, <2>6, <2>8, <2>9 DEF TcpInv
<1> QED
  BY <1>1, <1>2, <1>3 DEF Next, Datagrams, Texts, Tcp!Next, vars, tcpVars

(* writeTCPMail reads what MailSerializer or server.py has written, as     *)
(* long as each recv returns one whole text: every message is read with    *)
(* the fields it was sent with and in the order of sending, whatever words *)
(* of the protocol its names and contents are made of. The peer sends no   *)
(* AUTH: of that one the two fields behind the first are taken in the      *)
(* wrong order.                                                            *)
THEOREM TextsReadBackHolds ==
    ASSUME InStep, "AUTH" \notin SentTypes
    PROVE  Spec => []TextsReadBack
<1>1. TcpInv => TextsReadBack
  <2> SUFFICES ASSUME TcpInv PROVE TextsReadBack
    OBVIOUS
  <2>1. Len(parsed) = Len(sent) - (IF stream = <<>> THEN 0 ELSE 1)
    BY LenProperties DEF TcpInv
  <2>2. ASSUME NEW i \in 1..Len(parsed)
        PROVE  /\ parsed[i] = sent[i]
               /\ parsed[i].type # "BYE" =>
                    Tcp!WriteTCPMail([type |-> sent[i].type, id |-> Tcp!NoId, ref |-> Tcp!NoId,
                                      result |-> sent[i].result])
                      = {[Tcp!Of(parsed[i].type) EXCEPT !.result = parsed[i].result]}
    <3>1. parsed[i] = sent[i]
      BY DEF TcpInv
    <3>2. PICK m \in Tcp!Message : m = parsed[i]
      BY ElementOfSeq DEF TcpInv
    <3>3. ASSUME m.type # "BYE"
          PROVE  Tcp!WriteTCPMail([type |-> m.type, id |-> Tcp!NoId, ref |-> Tcp!NoId,
                                   result |-> m.result])
                   = {[Tcp!Of(m.type) EXCEPT !.result = m.result]}
      <4>1. m.type \in {"MSG", "ERR", "JOIN", "REPLY"}
        BY <3>3, Shapes DEF Shape
      <4>2. PICK d : d = [type |-> m.type, id |-> Tcp!NoId, ref |-> Tcp!NoId,
                          result |-> m.result]
        OBVIOUS
      <4>3. d.type = m.type /\ d.result = m.result
        BY <4>2
      <4>4. d.type # "MALFORMED" /\ d.type \notin {"BYE", "UNKNOWN", "CONFIRM"}
        BY <4>1, <4>3
      <4>5. Tcp!WriteTCPMail(d) = {[Tcp!Of(d.type) EXCEPT !.result = d.result]}
        BY <4>4 DEF Tcp!WriteTCPMail
      <4> QED
        BY <4>2, <4>3, <4>5
    <3> QED
      BY <3>1, <3>2, <3>3
  <2> QED
    BY <2>1, <2>2 DEF TextsReadBack, Tcp!TextsReadBack
<1>2. Spec => []TcpInv
  BY TcpInit, TcpStep, PTL DEF Spec
<1> QED
  BY <1>1, <1>2, PTL
=============================================================================
