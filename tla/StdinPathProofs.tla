--------------------------- MODULE StdinPathProofs --------------------------
(***************************************************************************)
(* Standard input, for every length of line, number of lines and size of   *)
(* the buffer, at a terminal and from a pipe: what listenStdin hands to    *)
(* writeMail are the user's lines, each once, whole and in order, but for  *)
(* a line that is cut when more was waiting than one read takes.           *)
(*                                                                         *)
(* LinesIn goes through the bytes with a recursive function, so that what  *)
(* it yields for every input is shown by induction.  The induction is over *)
(* sets: one that holds <<>> and, with a sequence, all that are one byte   *)
(* longer, holds all sequences.                                            *)
(***************************************************************************)
EXTENDS StdinPath, TLAPS, WellFoundedInduction, SequenceTheorems

-----------------------------------------------------------------------------
(* Induction. A set of numbers has a least one.                            *)
LEMMA Least ==
    ASSUME NEW T \in SUBSET Nat, NEW n \in T
    PROVE  \E m \in T : \A k \in T : m <= k
<1> DEFINE R == OpToRel(<, Nat)
<1>1. IsWellFoundedOn(R, Nat)
  BY NatLessThanWellFounded
<1>2. \A x, y \in Nat : <<x, y>> \in R <=> x < y
  BY DEF OpToRel
<1> HIDE DEF R
<1>3. PICK m \in T : \A k \in T : ~ (<<k, m>> \in R)
  BY <1>1, WFMin
<1>4. \A k \in T : ~ (k < m)
  BY <1>2, <1>3
<1> QED
  BY <1>4

(* A set with 0, and with the successor of each of its numbers, has all.   *)
LEMMA Induction ==
    ASSUME NEW T \in SUBSET Nat, 0 \in T, \A n \in T : n + 1 \in T
    PROVE  T = Nat
<1> SUFFICES ASSUME NEW x \in Nat \ T PROVE FALSE
  OBVIOUS
<1>1. PICK m \in Nat \ T : \A k \in Nat \ T : m <= k
  <2>1. Nat \ T \in SUBSET Nat
    OBVIOUS
  <2> QED
    BY <2>1, Least
<1>2. m # 0 /\ m - 1 \in T
  BY <1>1
<1> QED
  BY <1>1, <1>2

(* The same for sequences, by their length.                                *)
LEMMA SeqInduction ==
    ASSUME NEW S, NEW T \in SUBSET Seq(S), <<>> \in T,
           \A s \in T : \A b \in S : Append(s, b) \in T
    PROVE  T = Seq(S)
<1> DEFINE N == {n \in Nat : \A s \in Seq(S) : Len(s) = n => s \in T}
<1>1. N \in SUBSET Nat /\ 0 \in N
  OBVIOUS
<1>2. ASSUME NEW n \in N PROVE n + 1 \in N
  <2> SUFFICES ASSUME NEW s \in Seq(S), Len(s) = n + 1 PROVE s \in T
    OBVIOUS
  <2>1. s # <<>>
    BY EmptySeq
  <2>2. PICK t \in Seq(S), b \in S : s = Append(t, b)
    BY <2>1, SequenceEmptyOrAppend
  <2>3. Len(t) = n
    BY <2>2, LenProperties, AppendProperties
  <2> QED
    BY <2>2, <2>3
<1>3. N = Nat
  <2> HIDE DEF N
  <2> QED
    BY <1>1, <1>2, Induction
<1> QED
  BY <1>3, LenProperties

-----------------------------------------------------------------------------
(* What Take and TakeAll yield. The accumulator of Take.                   *)
Acc == [line : Seq(Nat), all : Seq(Seq(Nat))]

(* Take keeps the accumulator's type.                                      *)
LEMMA TakeType ==
    ASSUME NEW acc \in Acc, NEW b \in Nat
    PROVE  Take(acc, b) \in Acc
<1>1. acc.line \in Seq(Nat) /\ acc.all \in Seq(Seq(Nat))
  BY DEF Acc
<1>2. Append(acc.line, b) \in Seq(Nat) /\ Append(acc.all, acc.line) \in Seq(Seq(Nat))
  BY <1>1
<1>3. <<>> \in Seq(Nat)
  OBVIOUS
<1> DEFINE L == Seq(Nat)
           A == Seq(Seq(Nat))
<1> HIDE DEF L, A
<1>4. acc \in [line : L, all : A] /\ <<>> \in L
  BY <1>3 DEF Acc, L, A
<1>5. Append(acc.line, b) \in L /\ Append(acc.all, acc.line) \in A
  BY <1>2 DEF L, A
<1>6. Take(acc, b) \in [line : L, all : A]
  BY <1>4, <1>5 DEF Take, Newline
<1> QED
  BY <1>6 DEF Acc, L, A

(* g holds the accumulator after each byte of s.                           *)
Run(g, acc, s) ==
    /\ g \in [0..Len(s) -> Acc]
    /\ g[0] = acc
    /\ \A n \in 1..Len(s) : g[n] = Take(g[n - 1], s[n])

(* There is such a g for every s.                                          *)
LEMMA RunExists ==
    ASSUME NEW acc \in Acc, NEW s \in Seq(Nat)
    PROVE  \E g : Run(g, acc, s)
<1> DEFINE T == {u \in Seq(Nat) : \E g : Run(g, acc, u)}
<1>1. <<>> \in T
  <2> DEFINE g == [n \in 0..0 |-> acc]
  <2>1. Run(g, acc, <<>>)
    BY DEF Run
  <2> QED
    BY <2>1
<1>2. ASSUME NEW u \in T, NEW b \in Nat PROVE Append(u, b) \in T
  <2>1. PICK g : Run(g, acc, u)
    OBVIOUS
  <2> DEFINE v == Append(u, b)
             h == [n \in 0..Len(v) |-> IF n = Len(v) THEN Take(g[n - 1], b) ELSE g[n]]
  <2>2. /\ u \in Seq(Nat) /\ Len(u) \in Nat /\ v \in Seq(Nat) /\ Len(v) = Len(u) + 1
        /\ v[Len(v)] = b /\ \A n \in 1..Len(u) : v[n] = u[n]
    BY AppendProperties, LenProperties
  <2>3. Take(g[Len(u)], b) \in Acc
    <3>1. Len(u) \in 0..Len(u) /\ g \in [0..Len(u) -> Acc]
      BY <2>1, LenProperties DEF Run
    <3>2. g[Len(u)] \in Acc
      BY <3>1
    <3> QED
      BY <3>2, TakeType
  <2> HIDE DEF v
  <2>4. h \in [0..Len(v) -> Acc]
    BY <2>1, <2>2, <2>3 DEF Run
  <2>5. h[0] = acc
    BY <2>1, <2>2 DEF Run
  <2>6. ASSUME NEW n \in 1..Len(v) PROVE h[n] = Take(h[n - 1], v[n])
    <3>1. n - 1 \in 0..Len(u) /\ n - 1 # Len(v) /\ h[n - 1] = g[n - 1]
      BY <2>2
    <3>2. CASE n = Len(v)
      BY <2>2, <3>1, <3>2
    <3>3. CASE n # Len(v)
      BY <2>1, <2>2, <3>1, <3>3 DEF Run
    <3> QED
      BY <3>2, <3>3
  <2>7. Run(h, acc, v)
    BY <2>4, <2>5, <2>6 DEF Run
  <2> QED
    BY <2>2, <2>7 DEF v
<1>3. T = Seq(Nat)
  <2> HIDE DEF T
  <2>1. T \in SUBSET Seq(Nat)
    BY DEF T
  <2> QED
    BY <1>1, <1>2, <2>1, SeqInduction
<1> QED
  BY <1>3

(* It is the function that TakeAll is defined by.                          *)
LEMMA TakeAllRun ==
    ASSUME NEW acc \in Acc, NEW s \in Seq(Nat), NEW g, Run(g, acc, s)
    PROVE  TakeAll(acc, s) = g[Len(s)]
<1> DEFINE Eq(f) == f = [n \in 0..Len(s) |->
                           IF n = 0 THEN acc ELSE Take(f[n - 1], s[n])]
<1> DEFINE c == CHOOSE f : Eq(f)
<1>1. TakeAll(acc, s) = c[Len(s)]
  BY DEF TakeAll
<1>2. Eq(g)
  BY DEF Run
<1>3. Eq(c)
  BY <1>2
<1> HIDE DEF c
<1>4. c = g
  <2> DEFINE T == {n \in Nat : n <= Len(s) => c[n] = g[n]}
  <2>1. Len(s) \in Nat
    BY LenProperties
  <2>2. T \in SUBSET Nat /\ 0 \in T
    BY <1>2, <1>3, <2>1
  <2>3. ASSUME NEW n \in T PROVE n + 1 \in T
    <3>1. CASE n + 1 <= Len(s)
      <4>1. n + 1 \in 0..Len(s) /\ n + 1 # 0 /\ (n + 1) - 1 = n
        BY <2>1, <3>1
      <4>2. c[n + 1] = Take(c[(n + 1) - 1], s[n + 1])
        BY <1>3, <4>1
      <4>3. g[n + 1] = Take(g[(n + 1) - 1], s[n + 1])
        BY <1>2, <4>1
      <4> QED
        BY <2>1, <3>1, <4>1, <4>2, <4>3
    <3> QED
      BY <3>1
  <2>4. T = Nat
    <3> HIDE DEF T
    <3> QED
      BY <2>2, <2>3, Induction
  <2>5. \A n \in 0..Len(s) : c[n] = g[n]
    BY <2>1, <2>4
  <2> QED
    BY <1>2, <1>3, <2>5
<1> QED
  BY <1>1, <1>4

(* TakeAll yields an accumulator.                                          *)
LEMMA TakeAllType ==
    ASSUME NEW acc \in Acc, NEW s \in Seq(Nat)
    PROVE  TakeAll(acc, s) \in Acc
<1>1. PICK g : Run(g, acc, s)
  BY RunExists
<1>2. g \in [0..Len(s) -> Acc] /\ Len(s) \in 0..Len(s)
  BY <1>1, LenProperties DEF Run
<1>3. g[Len(s)] \in Acc
  BY <1>2
<1> QED
  BY <1>1, <1>3, TakeAllRun

(* TakeAll's recursion: nothing to take,                                   *)
LEMMA TakeNone ==
    ASSUME NEW acc \in Acc
    PROVE  TakeAll(acc, <<>>) = acc
<1>1. <<>> \in Seq(Nat) /\ Len(<<>>) = 0
  OBVIOUS
<1>2. PICK g : Run(g, acc, <<>>)
  BY <1>1, RunExists
<1>3. TakeAll(acc, <<>>) = g[0]
  BY <1>1, <1>2, TakeAllRun
<1> QED
  BY <1>2, <1>3 DEF Run

(* and one byte more.                                                      *)
LEMMA TakeOneMore ==
    ASSUME NEW acc \in Acc, NEW s \in Seq(Nat), NEW b \in Nat
    PROVE  TakeAll(acc, Append(s, b)) = Take(TakeAll(acc, s), b)
<1> DEFINE v == Append(s, b)
<1>1. /\ v \in Seq(Nat) /\ Len(s) \in Nat /\ Len(v) = Len(s) + 1
      /\ v[Len(v)] = b /\ \A n \in 1..Len(s) : v[n] = s[n]
  BY AppendProperties, LenProperties
<1>2. PICK g : Run(g, acc, v)
  BY <1>1, RunExists
<1> HIDE DEF v
<1> DEFINE h == [n \in 0..Len(s) |-> g[n]]
<1>3. Run(h, acc, s)
  <2>1. h \in [0..Len(s) -> Acc] /\ h[0] = acc
    BY <1>1, <1>2 DEF Run
  <2>2. ASSUME NEW n \in 1..Len(s) PROVE h[n] = Take(h[n - 1], s[n])
    <3>1. n \in 1..Len(v) /\ n \in 0..Len(s) /\ n - 1 \in 0..Len(s) /\ v[n] = s[n]
      BY <1>1
    <3>2. g[n] = Take(g[n - 1], v[n])
      BY <1>2, <3>1 DEF Run
    <3> QED
      BY <3>1, <3>2
  <2> QED
    BY <2>1, <2>2 DEF Run
<1>4. TakeAll(acc, s) = g[Len(s)]
  <2>1. TakeAll(acc, s) = h[Len(s)]
    <3> HIDE DEF h
    <3> QED
      BY <1>3, TakeAllRun
  <2> QED
    BY <1>1, <2>1
<1>5. TakeAll(acc, v) = g[Len(v)]
  BY <1>1, <1>2, TakeAllRun
<1>6. g[Len(v)] = Take(g[Len(s)], b)
  <2>1. Len(v) \in 1..Len(v) /\ Len(v) - 1 = Len(s)
    BY <1>1
  <2> QED
    BY <1>1, <1>2, <2>1 DEF Run
<1> QED
  BY <1>4, <1>5, <1>6 DEF v

(* A byte more behind the second of two sequences.                         *)
LEMMA ConcatAppend ==
    ASSUME NEW S, NEW s \in Seq(S), NEW t \in Seq(S), NEW b \in S
    PROVE  s \o Append(t, b) = Append(s \o t, b)
<1>1. <<b>> \in Seq(S) /\ s \o t \in Seq(S)
  BY ConcatProperties
<1>2. (s \o t) \o <<b>> = s \o (t \o <<b>>)
  BY <1>1, ConcatAssociative
<1> QED
  BY <1>1, <1>2, AppendIsConcat

LEMMA ConcatByte ==
    ASSUME NEW s \in Seq(Nat), NEW t \in Seq(Nat), NEW b \in Nat
    PROVE  s \o Append(t, b) = Append(s \o t, b)
  BY ConcatAppend

LEMMA ConcatLine ==
    ASSUME NEW x \in Seq(Seq(Nat)), NEW a \in Seq(Seq(Nat)), NEW l \in Seq(Nat)
    PROVE  x \o Append(a, l) = Append(x \o a, l)
  BY ConcatAppend

(* TakeAll goes through two pieces one after the other.                    *)
LEMMA TakeAllConcat ==
    ASSUME NEW acc \in Acc, NEW s \in Seq(Nat), NEW t \in Seq(Nat)
    PROVE  TakeAll(acc, s \o t) = TakeAll(TakeAll(acc, s), t)
<1> DEFINE T == {u \in Seq(Nat) : TakeAll(acc, s \o u) = TakeAll(TakeAll(acc, s), u)}
<1>1. TakeAll(acc, s) \in Acc
  BY TakeAllType
<1>2. <<>> \in T
  <2>1. <<>> \in Seq(Nat) /\ s \o <<>> = s
    BY ConcatEmptySeq, EmptySeq
  <2> QED
    BY <1>1, <2>1, TakeNone
<1>3. ASSUME NEW u \in T, NEW b \in Nat PROVE Append(u, b) \in T
  <2>1. u \in Seq(Nat) /\ s \o u \in Seq(Nat) /\ Append(u, b) \in Seq(Nat)
    BY ConcatProperties, AppendProperties
  <2>2. s \o Append(u, b) = Append(s \o u, b)
    BY <2>1, ConcatAppend
  <2>3. TakeAll(acc, Append(s \o u, b)) = Take(TakeAll(acc, s \o u), b)
    BY <2>1, TakeOneMore
  <2>4. TakeAll(TakeAll(acc, s), Append(u, b)) = Take(TakeAll(TakeAll(acc, s), u), b)
    BY <1>1, <2>1, TakeOneMore
  <2> QED
    BY <2>1, <2>2, <2>3, <2>4
<1>4. T = Seq(Nat)
  <2> HIDE DEF T
  <2>1. T \in SUBSET Seq(Nat)
    BY DEF T
  <2> QED
    BY <1>2, <1>3, <2>1, SeqInduction
<1> QED
  BY <1>4

-----------------------------------------------------------------------------
(* Lines. A sequence of bytes without a newline; one that ends in a        *)
(* newline if it is not empty.                                             *)
Free(l) == \A i \in 1..Len(l) : l[i] # Newline

Whole(s) == s = <<>> \/ s[Len(s)] = Newline

(* The fields of an accumulator.                                           *)
LEMMA AccFields ==
    ASSUME NEW l \in Seq(Nat), NEW a \in Seq(Seq(Nat))
    PROVE  /\ [line |-> l, all |-> a] \in Acc
           /\ [line |-> l, all |-> a].line = l
           /\ [line |-> l, all |-> a].all = a
<1> DEFINE L == Seq(Nat)
           A == Seq(Seq(Nat))
<1> HIDE DEF L, A
<1>1. l \in L /\ a \in A
  BY DEF L, A
<1>2. [line |-> l, all |-> a] \in [line : L, all : A]
  BY <1>1
<1> QED
  BY <1>2 DEF Acc, L, A

LEMMA FieldsOf ==
    ASSUME NEW acc \in Acc
    PROVE  /\ acc.line \in Seq(Nat) /\ acc.all \in Seq(Seq(Nat))
           /\ acc = [line |-> acc.line, all |-> acc.all]
<1> DEFINE L == Seq(Nat)
           A == Seq(Seq(Nat))
<1> HIDE DEF L, A
<1>1. acc \in [line : L, all : A]
  BY DEF Acc, L, A
<1>2. acc.line \in L /\ acc.all \in A /\ acc = [line |-> acc.line, all |-> acc.all]
  BY <1>1
<1> QED
  BY <1>2 DEF L, A

(* A byte of a line goes to the open line,                                 *)
LEMMA TakeByte ==
    ASSUME NEW acc \in Acc, NEW b \in Nat, b # Newline
    PROVE  Take(acc, b) = [line |-> Append(acc.line, b), all |-> acc.all]
<1>1. acc = [line |-> acc.line, all |-> acc.all]
  BY FieldsOf
<1> DEFINE l == acc.line
           a == acc.all
<1> HIDE DEF l, a
<1>2. acc = [line |-> l, all |-> a]
  BY <1>1 DEF l, a
<1>3. Take(acc, b) = [line |-> Append(l, b), all |-> a]
  BY <1>2 DEF Take
<1> QED
  BY <1>3 DEF l, a

(* so that without a newline the open line grows by all of them;           *)
LEMMA TakeOpen ==
    ASSUME NEW l \in Seq(Nat), NEW a \in Seq(Seq(Nat)), NEW s \in Seq(Nat), Free(s)
    PROVE  TakeAll([line |-> l, all |-> a], s) = [line |-> l \o s, all |-> a]
<1> DEFINE acc == [line |-> l, all |-> a]
           Taken(u) == TakeAll(acc, u) = [line |-> l \o u, all |-> a]
<1> DEFINE T == {u \in Seq(Nat) : Free(u) => Taken(u)}
<1>1. acc \in Acc
  BY AccFields
<1>2. <<>> \in T
  <2>1. <<>> \in Seq(Nat) /\ l \o <<>> = l
    BY ConcatEmptySeq, EmptySeq
  <2>2. Taken(<<>>)
    BY <1>1, <2>1, TakeNone
  <2> QED
    BY <2>1, <2>2
<1>3. ASSUME NEW u \in T, NEW b \in Nat PROVE Append(u, b) \in T
  <2>1. u \in Seq(Nat) /\ Append(u, b) \in Seq(Nat)
    BY AppendProperties
  <2> SUFFICES ASSUME Free(Append(u, b)) PROVE Taken(Append(u, b))
    BY <2>1
  <2>2. /\ Len(u) \in Nat /\ Len(Append(u, b)) = Len(u) + 1
        /\ Append(u, b)[Len(u) + 1] = b
        /\ \A i \in 1..Len(u) : Append(u, b)[i] = u[i]
    BY <2>1, AppendProperties, LenProperties
  <2>3. Free(u) /\ b # Newline
    BY <2>2 DEF Free
  <2>4. TakeAll(acc, u) = [line |-> l \o u, all |-> a]
    BY <2>3
  <2>5. l \o u \in Seq(Nat)
    BY <2>1, ConcatProperties
  <2>6. /\ TakeAll(acc, u) \in Acc /\ TakeAll(acc, u).line = l \o u
        /\ TakeAll(acc, u).all = a
    <3>1. PICK v \in Seq(Nat) : v = l \o u
      BY <2>5
    <3>2. TakeAll(acc, u) = [line |-> v, all |-> a]
      BY <2>4, <3>1
    <3> HIDE DEF acc
    <3>3. TakeAll(acc, u) \in Acc /\ TakeAll(acc, u).line = v /\ TakeAll(acc, u).all = a
      BY <3>2, AccFields
    <3> QED
      BY <3>1, <3>3
  <2>7. TakeAll(acc, Append(u, b)) = Take(TakeAll(acc, u), b)
    BY <1>1, <2>1, TakeOneMore
  <2>8. Take(TakeAll(acc, u), b) = [line |-> Append(l \o u, b), all |-> a]
    BY <2>3, <2>6, TakeByte
  <2>9. Append(l \o u, b) = l \o Append(u, b)
    BY <2>1, ConcatByte, Zenon
  <2> QED
    BY <2>7, <2>8, <2>9
<1>4. T = Seq(Nat)
  <2>1. T \in SUBSET Seq(Nat)
    OBVIOUS
  <2> HIDE DEF T
  <2> QED
    BY <1>2, <1>3, <2>1, SeqInduction
<1> QED
  BY <1>4

(* a newline ends it,                                                      *)
LEMMA TakeEnd ==
    ASSUME NEW acc \in Acc
    PROVE  Take(acc, Newline) =
             [ line |-> <<>>,
               all |-> IF acc.line = <<>> THEN acc.all ELSE Append(acc.all, acc.line) ]
  BY DEF Take

(* and makes a line of what came before.                                   *)
LEMMA TakeLine ==
    ASSUME NEW a \in Seq(Seq(Nat)), NEW l \in Seq(Nat), Free(l)
    PROVE  TakeAll([line |-> <<>>, all |-> a], Append(l, Newline)) =
             [line |-> <<>>, all |-> IF l = <<>> THEN a ELSE Append(a, l)]
<1> DEFINE acc == [line |-> <<>>, all |-> a]
<1>1. <<>> \in Seq(Nat) /\ <<>> \o l = l
  BY ConcatEmptySeq, EmptySeq
<1>2. acc \in Acc
  BY <1>1, AccFields
<1>3. TakeAll(acc, l) = [line |-> l, all |-> a]
  BY <1>1, TakeOpen
<1>4. TakeAll(acc, Append(l, Newline)) = Take(TakeAll(acc, l), Newline)
  <2>1. Newline \in Nat
    BY DEF Newline
  <2> HIDE DEF acc
  <2> QED
    BY <1>2, <2>1, TakeOneMore
<1>5. TakeAll(acc, l) \in Acc /\ TakeAll(acc, l).line = l /\ TakeAll(acc, l).all = a
  BY <1>3, AccFields
<1> QED
  BY <1>4, <1>5, TakeEnd

(* The lines that are complete already stay in front.                      *)
LEMMA TakePrefix ==
    ASSUME NEW x \in Seq(Seq(Nat)), NEW s \in Seq(Nat)
    PROVE  LET r == TakeAll(NoLines, s)
           IN  TakeAll([line |-> <<>>, all |-> x], s) = [line |-> r.line, all |-> x \o r.all]
<1> DEFINE acc == [line |-> <<>>, all |-> x]
           r(u) == TakeAll(NoLines, u)
           T == {u \in Seq(Nat) : TakeAll(acc, u) = [line |-> r(u).line, all |-> x \o r(u).all]}
<1>1. acc \in Acc
  BY AccFields, EmptySeq
<1>2. NoLines \in Acc /\ NoLines.line = <<>> /\ NoLines.all = <<>>
  BY AccFields, EmptySeq DEF NoLines
<1> HIDE DEF acc
<1>3. <<>> \in T
  <2>1. x \o <<>> = x /\ <<>> \in Seq(Nat)
    BY ConcatEmptySeq, EmptySeq
  <2>2. TakeAll(acc, <<>>) = acc /\ r(<<>>) = NoLines
    BY <1>1, <1>2, TakeNone
  <2> QED
    BY <1>2, <2>1, <2>2 DEF acc
<1>4. ASSUME NEW u \in T, NEW b \in Nat PROVE Append(u, b) \in T
  <2>1. u \in Seq(Nat) /\ Append(u, b) \in Seq(Nat)
    BY AppendProperties
  <2>2. PICK l \in Seq(Nat), a \in Seq(Seq(Nat)) : r(u) = [line |-> l, all |-> a]
    <3>1. r(u) \in Acc
      BY <1>2, <2>1, TakeAllType
    <3> HIDE DEF r
    <3> QED
      BY <3>1, FieldsOf
  <2>3. r(u) \in Acc /\ r(u).line = l /\ r(u).all = a
    BY <2>2, AccFields
  <2>4. x \o a \in Seq(Seq(Nat))
    BY ConcatProperties
  <2>5. TakeAll(acc, u) = [line |-> l, all |-> x \o a]
    BY <2>3
  <2>6. TakeAll(acc, u) \in Acc /\ TakeAll(acc, u).line = l /\ TakeAll(acc, u).all = x \o a
    <3>1. PICK y \in Seq(Seq(Nat)) : y = x \o a
      BY <2>4
    <3>2. TakeAll(acc, u) = [line |-> l, all |-> y]
      BY <2>5, <3>1
    <3>3. TakeAll(acc, u) \in Acc /\ TakeAll(acc, u).line = l /\ TakeAll(acc, u).all = y
      BY <3>2, AccFields
    <3> QED
      BY <3>1, <3>3
  <2>7. TakeAll(acc, Append(u, b)) = Take(TakeAll(acc, u), b) /\ r(Append(u, b)) = Take(r(u), b)
    BY <1>1, <1>2, <2>1, TakeOneMore
  <2>8. CASE b # Newline
    <3>1. Append(l, b) \in Seq(Nat)
      BY AppendProperties
    <3>2. r(Append(u, b)) = [line |-> Append(l, b), all |-> a]
      BY <2>3, <2>7, <2>8, TakeByte
    <3>3. TakeAll(acc, Append(u, b)) = [line |-> Append(l, b), all |-> x \o a]
      BY <2>6, <2>7, <2>8, TakeByte
    <3>4. r(Append(u, b)).line = Append(l, b) /\ r(Append(u, b)).all = a
      BY <3>1, <3>2, AccFields
    <3> QED
      BY <2>1, <3>3, <3>4
  <2>9. CASE b = Newline
    <3> DEFINE c == IF l = <<>> THEN a ELSE Append(a, l)
    <3>1. c \in Seq(Seq(Nat)) /\ <<>> \in Seq(Nat)
      BY AppendProperties, EmptySeq
    <3>2. r(Append(u, b)) = [line |-> <<>>, all |-> c]
      BY <2>3, <2>7, <2>9, TakeEnd
    <3>3. TakeAll(acc, Append(u, b)) =
            [line |-> <<>>, all |-> IF l = <<>> THEN x \o a ELSE Append(x \o a, l)]
      BY <2>6, <2>7, <2>9, TakeEnd
    <3>4. (IF l = <<>> THEN x \o a ELSE Append(x \o a, l)) = x \o c
      <4>2. x \o Append(a, l) = Append(x \o a, l)
        BY ConcatLine
      <4> QED
        BY <4>2
    <3> HIDE DEF c
    <3>5. r(Append(u, b)).line = <<>> /\ r(Append(u, b)).all = c
      BY <3>1, <3>2, AccFields
    <3> QED
      BY <2>1, <3>3, <3>4, <3>5
  <2> QED
    BY <2>8, <2>9
<1>5. T = Seq(Nat)
  <2>1. T \in SUBSET Seq(Nat)
    OBVIOUS
  <2> HIDE DEF T
  <2> QED
    BY <1>3, <1>4, <2>1, SeqInduction
<1> QED
  BY <1>5 DEF acc

(* No bytes, no lines.                                                     *)
LEMMA LinesNone == LinesIn(<<>>) = <<>>
<1>1. NoLines \in Acc /\ NoLines.all = <<>>
  BY AccFields, EmptySeq DEF NoLines
<1> QED
  BY <1>1, TakeNone DEF LinesIn

(* A line in front of the bytes is the first of their lines,               *)
LEMMA LinesFront ==
    ASSUME NEW l \in Seq(Nat), Free(l), NEW s \in Seq(Nat)
    PROVE  LinesIn(Append(l, Newline) \o s) =
             IF l = <<>> THEN LinesIn(s) ELSE <<l>> \o LinesIn(s)
<1> DEFINE L == Append(l, Newline)
           r == TakeAll(NoLines, s)
           x == IF l = <<>> THEN <<>> ELSE <<l>>
<1>1. NoLines \in Acc /\ NoLines = [line |-> <<>>, all |-> <<>>]
  BY AccFields, EmptySeq DEF NoLines
<1>2. Newline \in Nat /\ L \in Seq(Nat)
  BY AppendProperties DEF Newline
<1>3. x \in Seq(Seq(Nat))
  OBVIOUS
<1>4. TakeAll(NoLines, L) = [line |-> <<>>, all |-> x]
  <2>1. <<>> \in Seq(Seq(Nat)) /\ Append(<<>>, l) = <<l>>
    OBVIOUS
  <2> QED
    BY <1>1, <2>1, TakeLine
<1>5. r.all \in Seq(Seq(Nat)) /\ r.line \in Seq(Nat)
  <2>1. r \in Acc
    BY <1>1, TakeAllType
  <2> QED
    BY <2>1, FieldsOf
<1> HIDE DEF L, x
<1>6. TakeAll(NoLines, L \o s) = TakeAll([line |-> <<>>, all |-> x], s)
  BY <1>1, <1>2, <1>4, TakeAllConcat
<1>7. TakeAll([line |-> <<>>, all |-> x], s) = [line |-> r.line, all |-> x \o r.all]
  BY <1>3, TakePrefix
<1>8. LinesIn(L \o s) = x \o r.all
  BY <1>6, <1>7 DEF LinesIn
<1>9. LinesIn(s) = r.all
  BY DEF LinesIn
<1> HIDE DEF r
<1>10. CASE l = <<>>
  <2>1. x \o r.all = r.all
    BY <1>5, <1>10, ConcatEmptySeq DEF x
  <2> QED
    BY <1>8, <1>9, <1>10, <2>1 DEF L
<1>11. CASE l # <<>>
  BY <1>8, <1>9, <1>11 DEF L, x
<1> QED
  BY <1>10, <1>11

(* and one behind bytes that end in a newline is the last.                 *)
LEMMA LinesBack ==
    ASSUME NEW s \in Seq(Nat), Whole(s), NEW l \in Seq(Nat), Free(l)
    PROVE  LinesIn(s \o Append(l, Newline)) =
             IF l = <<>> THEN LinesIn(s) ELSE Append(LinesIn(s), l)
<1> DEFINE r == TakeAll(NoLines, s)
<1>1. NoLines \in Acc /\ NoLines = [line |-> <<>>, all |-> <<>>] /\ Newline \in Nat
  BY AccFields, EmptySeq DEF NoLines, Newline
<1>2. r \in Acc
  BY <1>1, TakeAllType
<1>3. r.all \in Seq(Seq(Nat)) /\ r.line \in Seq(Nat) /\ r = [line |-> r.line, all |-> r.all]
  BY <1>2, FieldsOf
<1>4. r.line = <<>>
  <2>1. CASE s = <<>>
    BY <1>1, <2>1, TakeNone
  <2>2. CASE s # <<>>
    <3>1. PICK t \in Seq(Nat), b \in Nat : s = Append(t, b)
      BY <2>2, SequenceEmptyOrAppend
    <3>2. Len(s) = Len(t) + 1 /\ s[Len(t) + 1] = b
      BY <3>1, AppendProperties
    <3>3. s = Append(t, Newline)
      BY <2>2, <3>1, <3>2 DEF Whole
    <3>4. r = Take(TakeAll(NoLines, t), Newline) /\ TakeAll(NoLines, t) \in Acc
      BY <1>1, <3>3, TakeOneMore, TakeAllType
    <3> QED
      BY <3>4, TakeEnd
  <2> QED
    BY <2>1, <2>2
<1>5. Append(l, Newline) \in Seq(Nat)
  BY <1>1, AppendProperties
<1>6. TakeAll(NoLines, s \o Append(l, Newline)) = TakeAll(r, Append(l, Newline))
  BY <1>1, <1>5, TakeAllConcat
<1> HIDE DEF r
<1>7. TakeAll(r, Append(l, Newline)) =
        [line |-> <<>>, all |-> IF l = <<>> THEN r.all ELSE Append(r.all, l)]
  <2>1. PICK a \in Seq(Seq(Nat)) : a = r.all
    BY <1>3
  <2>2. r = [line |-> <<>>, all |-> a]
    BY <1>3, <1>4, <2>1
  <2> QED
    BY <2>1, <2>2, TakeLine
<1> QED
  BY <1>6, <1>7 DEF LinesIn, r

(* LineEnd finds the first newline, and there is none if it is 0.          *)
LEMMA LineEnds ==
    ASSUME NEW s \in Seq(Nat)
    PROVE  \/ LineEnd(s) = 0 /\ Free(s)
           \/ /\ LineEnd(s) \in 1..Len(s)
              /\ s[LineEnd(s)] = Newline
              /\ \A i \in 1..(LineEnd(s) - 1) : s[i] # Newline
<1> DEFINE I == {i \in 1..Len(s) : s[i] = Newline}
<1>1. LineEnd(s) = IF I # {} THEN Min(I) ELSE 0
  BY DEF LineEnd, SelectInSeq
<1>2. CASE I = {}
  BY <1>1, <1>2 DEF Free
<1>3. CASE I # {}
  <2>1. I \in SUBSET Nat
    OBVIOUS
  <2>2. PICK m \in I : \A k \in I : m <= k
    BY <1>3, <2>1, Least
  <2>3. Min(I) \in I /\ \A k \in I : Min(I) <= k
    BY <2>2 DEF Min
  <2>4. LineEnd(s) \in I /\ \A k \in I : LineEnd(s) <= k
    BY <1>1, <1>3, <2>3
  <2>5. Len(s) \in Nat
    BY LenProperties
  <2> QED
    BY <2>4, <2>5
<1> QED
  BY <1>2, <1>3

(* First and After cut a sequence in two.                                  *)
LEMMA CutInTwo ==
    ASSUME NEW S, NEW s \in Seq(S), NEW n \in 0..Len(s)
    PROVE  /\ First(s, n) \in Seq(S) /\ After(s, n) \in Seq(S)
           /\ Len(First(s, n)) = n /\ \A i \in 1..n : First(s, n)[i] = s[i]
           /\ First(s, n) \o After(s, n) = s
<1>1. Len(s) \in Nat /\ n \in Nat /\ n \in Int /\ n <= Len(s)
  BY LenProperties
<1>2. \A i \in 1..Len(s) : s[i] \in S
  BY ElementOfSeq
<1>3. First(s, n) \in Seq(S) /\ Len(First(s, n)) = n /\ \A i \in 1..n : First(s, n)[i] = s[i]
  BY <1>1, <1>2, SubSeqProperties DEF First
<1>4. After(s, n) \in Seq(S)
  BY <1>1, <1>2, SubSeqProperties DEF After
<1>5. SubSeq(s, 1, n) \o SubSeq(s, n + 1, Len(s)) = SubSeq(s, 1, Len(s))
  <2>1. 1 \in 1..(Len(s) + 1) /\ n \in (1 - 1)..Len(s) /\ Len(s) \in n..Len(s)
    BY <1>1
  <2> QED
    BY <2>1, ConcatAdjacentSubSeq
<1> QED
  BY <1>3, <1>4, <1>5, SubSeqFull DEF First, After

(* What is cut off at LineEnd is a line and its newline.                   *)
LEMMA FirstLine ==
    ASSUME NEW s \in Seq(Nat), LineEnd(s) > 0
    PROVE  LET n == LineEnd(s)
               l == First(s, n - 1)
           IN  /\ n \in 1..Len(s) /\ l \in Seq(Nat) /\ Free(l)
               /\ l = <<>> <=> n = 1
               /\ First(s, n) = Append(l, Newline)
<1> DEFINE n == LineEnd(s)
           l == First(s, n - 1)
<1>1. Len(s) \in Nat
  BY LenProperties
<1>2. n \in 1..Len(s) /\ s[n] = Newline /\ \A i \in 1..(n - 1) : s[i] # Newline
  BY LineEnds
<1> HIDE DEF n
<1>3. n \in 0..Len(s) /\ n - 1 \in 0..Len(s)
  BY <1>1, <1>2
<1>4. l \in Seq(Nat) /\ Len(l) = n - 1 /\ \A i \in 1..(n - 1) : l[i] = s[i]
  BY <1>3, CutInTwo
<1>5. /\ First(s, n) \in Seq(Nat) /\ Len(First(s, n)) = n
      /\ \A i \in 1..n : First(s, n)[i] = s[i]
  BY <1>3, CutInTwo
<1> HIDE DEF l
<1>6. Free(l)
  BY <1>2, <1>4 DEF Free
<1>7. l = <<>> <=> n = 1
  BY <1>2, <1>4, EmptySeq
<1>8. /\ Append(l, Newline) \in Seq(Nat) /\ Len(Append(l, Newline)) = n
      /\ \A i \in 1..(n - 1) : Append(l, Newline)[i] = l[i]
      /\ Append(l, Newline)[n] = Newline
  <2>1. Newline \in Nat
    BY DEF Newline
  <2> QED
    BY <1>2, <1>4, <2>1, AppendProperties
<1>9. \A i \in 1..n : First(s, n)[i] = Append(l, Newline)[i]
  BY <1>2, <1>4, <1>5, <1>8
<1>10. First(s, n) = Append(l, Newline)
  BY <1>5, <1>8, <1>9, SeqEqual
<1> QED
  BY <1>2, <1>4, <1>6, <1>7, <1>10 DEF l, n

-----------------------------------------------------------------------------
(* The inductive invariant. What has not reached the StdinPipe.            *)
Rest == cin \o input \o unwritten

(* Where the bytes may be cut. The StdinListener writes whole lines; what  *)
(* is on its way to it ends in a newline too, since the user's lines do.   *)
(* listenStdin may be in the middle of a line only after a read that has   *)
(* left something behind.                                                  *)
Wholes ==
    /\ Whole(stdinPipe) /\ Whole(buf \o stdinPipe) /\ Whole(Rest)
    /\ ~overfull => Whole(buf)

(* The user closes after the last line has been written, and the end is    *)
(* seen when nothing is left.                                              *)
Ends ==
    /\ closed => unwritten = <<>>
    /\ signalled => closed /\ Rest = <<>>

(* What every reachable state satisfies.                                   *)
Inv == StdinPathTypeOK /\ Wholes /\ Ends

(* Bytes are numbers.                                                      *)
LEMMA BytesAreNumbers ==
    ASSUME NEW s \in Seq(0..MaxLines)
    PROVE  s \in Seq(Nat)
<1>1. 0..MaxLines \subseteq Nat
  BY StdinPathAssumption
<1> QED
  BY <1>1, SeqMonotonic

(* Two pieces that end in a newline make one,                              *)
LEMMA WholeConcat ==
    ASSUME NEW s \in Seq(Nat), NEW t \in Seq(Nat), Whole(t), Whole(s) \/ t # <<>>
    PROVE  Whole(s \o t)
<1>1. CASE t = <<>>
  BY <1>1, ConcatEmptySeq
<1>2. CASE t # <<>>
  <2>1. Len(t) \in Nat /\ Len(t) # 0 /\ Len(s) \in Nat
    BY <1>2, EmptySeq, LenProperties
  <2>2. Len(s \o t) = Len(s) + Len(t) /\ (s \o t)[Len(s) + Len(t)] = t[Len(t)]
    BY <2>1, ConcatProperties
  <2> QED
    BY <1>2, <2>2 DEF Whole
<1> QED
  BY <1>1, <1>2

(* and what is behind any cut of it ends in a newline.                     *)
LEMMA WholeAfter ==
    ASSUME NEW s \in Seq(Nat), NEW t \in Seq(Nat), Whole(s \o t)
    PROVE  Whole(t)
<1>1. CASE t = <<>>
  BY <1>1 DEF Whole
<1>2. CASE t # <<>>
  <2>1. Len(t) \in Nat /\ Len(t) # 0 /\ Len(s) \in Nat
    BY <1>2, EmptySeq, LenProperties
  <2>2. Len(s \o t) = Len(s) + Len(t) /\ (s \o t)[Len(s) + Len(t)] = t[Len(t)]
    BY <2>1, ConcatProperties
  <2>3. s \o t # <<>>
    BY <1>2, ConcatEqualIffEmpty
  <2> QED
    BY <2>2, <2>3 DEF Whole
<1> QED
  BY <1>1, <1>2

(* Without a newline such a piece is empty.                                *)
LEMMA WholeFree ==
    ASSUME NEW s \in Seq(Nat), Whole(s), Free(s)
    PROVE  s = <<>>
<1> SUFFICES ASSUME s # <<>> PROVE FALSE
  OBVIOUS
<1>1. Len(s) \in 1..Len(s)
  BY EmptySeq
<1> QED
  BY <1>1 DEF Whole, Free

(* A line with its newline is such a piece.                                *)
LEMMA WholeEnded ==
    ASSUME NEW l \in Seq(Nat)
    PROVE  Append(l, Newline) \in Seq(Nat) /\ Whole(Append(l, Newline))
<1>1. Newline \in Nat
  BY DEF Newline
<1> QED
  BY <1>1, AppendProperties DEF Whole

(* Concatenation is associative; named, for the provers to use it once.    *)
Assoc(a, b, c) == (a \o b) \o c = a \o (b \o c)

LEMMA Associative ==
    ASSUME NEW a \in Seq(Nat), NEW b \in Seq(Nat), NEW c \in Seq(Nat)
    PROVE  Assoc(a, b, c)
  BY DEF Assoc

(* The five buffers, of bytes that are the numbers of lines, or of any.     *)
Bytes(S) ==
    /\ unwritten \in Seq(S) /\ input \in Seq(S) /\ cin \in Seq(S)
    /\ stdinPipe \in Seq(S) /\ buf \in Seq(S)

Others ==
    /\ tty \in Ttys /\ closed \in BOOLEAN /\ stdinKeep \in BOOLEAN
    /\ signalled \in BOOLEAN /\ overfull \in BOOLEAN /\ cuts \in Nat
    /\ stdinPc \in {"select", "getline", "done"}

Texts == typed \in Seq(Seq(1..MaxLines)) /\ handed \in Seq(Seq(1..MaxLines))

(* The parts of the type invariant.                                        *)
LEMMA TypeParts == StdinPathTypeOK <=> Texts /\ Bytes(0..MaxLines) /\ Others
  BY DEF StdinPathTypeOK, Texts, Bytes, Others

LEMMA NumberBytes == Bytes(0..MaxLines) => Bytes(Nat)
  BY BytesAreNumbers DEF Bytes

(* The line that UserTypes makes.                                          *)
Letters(n, k) == [i \in 1..n |-> k]

IsLine(line, n) ==
    /\ line \in Seq(1..MaxLines) /\ line \in Seq(0..MaxLines)
    /\ line \in Seq(Nat) /\ Free(line) /\ (line = <<>> <=> n = 0)
    /\ line \o <<Newline>> = Append(line, Newline)

LEMMA Lined ==
    ASSUME NEW n \in Nat, NEW k \in 1..MaxLines
    PROVE  IsLine(Letters(n, k), n)
<1> DEFINE line == [i \in 1..n |-> k]
<1>1. k \in Nat /\ k \in 0..MaxLines /\ k # 0
  BY StdinPathAssumption
<1>2. line \in Seq(1..MaxLines)
  OBVIOUS
<1>3. line \in Seq(0..MaxLines)
  BY <1>1
<1>4. line \in Seq(Nat) /\ Len(line) = n
  BY <1>1
<1>5. Free(line)
  BY <1>1, <1>4 DEF Free, Newline
<1>6. line = <<>> <=> n = 0
  BY <1>4, EmptySeq
<1>7. Newline \in Nat
  BY DEF Newline
<1> HIDE DEF line
<1>8. line \o <<Newline>> = Append(line, Newline)
  BY <1>4, <1>7, AppendIsConcat
<1> QED
  BY <1>2, <1>3, <1>4, <1>5, <1>6, <1>8 DEF line, Letters, IsLine

-----------------------------------------------------------------------------
(* The types. One lemma for each kind of step.                             *)
LEMMA TypesTyped ==
    ASSUME StdinPathTypeOK, NEW n \in Lengths, UserTypes(n)
    PROVE  StdinPathTypeOK'
<1>1. Len(typed) + 1 \in 1..MaxLines /\ n \in Nat
  BY StdinPathAssumption, TypeParts DEF UserTypes, Texts
<1>2. PICK line : /\ line = Letters(n, Len(typed) + 1)
                  /\ line \in Seq(1..MaxLines) /\ line \in Seq(0..MaxLines)
  <2>1. IsLine(Letters(n, Len(typed) + 1), n)
    BY <1>1, Lined
  <2> QED
    BY <2>1 DEF IsLine
<1>3. typed' = Append(typed, line) /\ unwritten' = unwritten \o line \o <<Newline>>
  BY <1>2 DEF UserTypes, Letters
<1>4. typed' \in Seq(Seq(1..MaxLines)) /\ handed' = handed
  BY <1>2, <1>3, TypeParts DEF UserTypes, listenerVars, Texts
<1>5. unwritten' \in Seq(0..MaxLines)
  <2>1. <<Newline>> \in Seq(0..MaxLines)
    BY StdinPathAssumption DEF Newline
  <2>2. unwritten \in Seq(0..MaxLines)
    BY TypeParts DEF Bytes
  <2> QED
    BY <1>2, <1>3, <2>1, <2>2, ConcatProperties
<1>6. Bytes(0..MaxLines)'
  BY <1>5, TypeParts DEF UserTypes, listenerVars, Bytes
<1>7. Texts'
  BY <1>4, TypeParts DEF Texts
<1>8. Others'
  BY TypeParts DEF UserTypes, readerVars, listenerVars, Others
<1> QED
  BY <1>6, <1>7, <1>8, TypeParts DEF StdinPathTypeOK, Texts, Bytes, Others

LEMMA TypesUserMoves ==
    ASSUME StdinPathTypeOK, UserWrites \/ UserCloses
    PROVE  StdinPathTypeOK'
<1>1. CASE UserWrites
  <2>1. PICK n \in 1..Len(unwritten) :
            input' = input \o First(unwritten, n) /\ unwritten' = After(unwritten, n)
    BY <1>1 DEF UserWrites
  <2> DEFINE B == 0..MaxLines
  <2>2. Bytes(B)
    BY TypeParts
  <2> HIDE DEF B
  <2>3. n \in 0..Len(unwritten)
    BY <2>1
  <2>4. First(unwritten, n) \in Seq(B) /\ After(unwritten, n) \in Seq(B)
    BY <2>2, <2>3, CutInTwo DEF Bytes
  <2>5. input' \in Seq(B) /\ unwritten' \in Seq(B)
    BY <2>1, <2>2, <2>4, ConcatProperties DEF Bytes
  <2>6. Bytes(B)'
    BY <1>1, <2>2, <2>5 DEF UserWrites, listenerVars, Bytes
  <2>7. Texts' /\ Others'
    BY <1>1, TypeParts DEF UserWrites, readerVars, listenerVars, Others, Texts
  <2> QED
    BY <2>6, <2>7 DEF StdinPathTypeOK, Texts, Bytes, Others, B
<1>2. CASE UserCloses
  BY <1>2 DEF UserCloses, readerVars, listenerVars, StdinPathTypeOK
<1> QED
  BY <1>1, <1>2

LEMMA TypesReader ==
    ASSUME StdinPathTypeOK, Reader \/ Stop
    PROVE  StdinPathTypeOK'
<1> DEFINE B == 0..MaxLines
<1>1. Bytes(B) /\ Texts /\ Others
  BY TypeParts
<1>2. StdinPathTypeOK' <=> (Bytes(B) /\ Texts /\ Others)'
  BY DEF StdinPathTypeOK, Texts, Bytes, Others
<1> HIDE DEF B
<1>3. Texts'
  BY <1>1 DEF Texts, Reader, Stop, SelectReady, SelectTimeout, GetlineReadsAhead,
              GetlineReturns, GetlineFails, userVars, listenerVars, readerVars
<1>4. Others'
  BY <1>1 DEF Others, Reader, Stop, SelectReady, SelectTimeout, GetlineReadsAhead, NextTurn,
              GetlineReturns, GetlineFails, userVars, listenerVars, readerVars
<1>5. CASE SelectReady \/ SelectTimeout \/ GetlineFails \/ Stop
  <2>1. Bytes(B)'
    BY <1>1, <1>5 DEF Bytes, SelectReady, SelectTimeout, GetlineFails, Stop, userVars,
                      listenerVars
  <2> QED
    BY <1>2, <1>3, <1>4, <2>1
<1>6. CASE GetlineReadsAhead
  <2>1. Bytes(Nat)
    BY <1>1, NumberBytes DEF B
  <2>2. PICK n \in 0..Len(input) : cin' = cin \o First(input, n) /\ input' = After(input, n)
    <3>1. LineEnd(input) \in 0..Len(input) /\ Len(input) \in 0..Len(input)
      BY <2>1, LineEnds, LenProperties DEF Bytes
    <3> QED
      BY <1>6, <3>1 DEF GetlineReadsAhead
  <2>3. First(input, n) \in Seq(B) /\ After(input, n) \in Seq(B)
    BY <1>1, CutInTwo DEF Bytes
  <2>4. cin' \in Seq(B) /\ input' \in Seq(B)
    BY <1>1, <2>2, <2>3, ConcatProperties DEF Bytes
  <2>5. Bytes(B)'
    BY <1>1, <1>6, <2>4 DEF Bytes, GetlineReadsAhead, userVars, listenerVars
  <2> QED
    BY <1>2, <1>3, <1>4, <2>5
<1>7. CASE GetlineReturns
  <2>1. Bytes(Nat)
    BY <1>1, NumberBytes DEF B
  <2>2. PICK n \in 0..Len(cin) : cin' = After(cin, n) /\ stdinPipe' = stdinPipe \o First(cin, n)
    <3>1. LineEnd(cin) \in 0..Len(cin)
      BY <2>1, LineEnds, LenProperties DEF Bytes
    <3> QED
      BY <1>7, <3>1 DEF GetlineReturns
  <2>3. First(cin, n) \in Seq(B) /\ After(cin, n) \in Seq(B)
    BY <1>1, CutInTwo DEF Bytes
  <2>4. cin' \in Seq(B) /\ stdinPipe' \in Seq(B)
    BY <1>1, <2>2, <2>3, ConcatProperties DEF Bytes
  <2>5. Bytes(B)'
    BY <1>1, <1>7, <2>4 DEF Bytes, GetlineReturns, userVars, listenerVars
  <2> QED
    BY <1>2, <1>3, <1>4, <2>5
<1> QED
  BY <1>5, <1>6, <1>7 DEF Reader

(* listenStdin reads no more than there is, and all of it if it fits.      *)
LEMMA ReadBounds ==
    ASSUME Bytes(Nat)
    PROVE  /\ ReadsAtMost \in 0..Len(stdinPipe)
           /\ Len(stdinPipe) <= BufferSize => ReadsAtMost = Len(stdinPipe)
<1>1. Len(stdinPipe) \in Nat
  BY LenProperties DEF Bytes
<1> QED
  BY <1>1, StdinPathAssumption DEF ReadsAtMost

LEMMA TypesListener ==
    ASSUME StdinPathTypeOK, Listener
    PROVE  StdinPathTypeOK'
<1> DEFINE B == 0..MaxLines
<1>1. Bytes(B) /\ Bytes(Nat) /\ Texts /\ Others
  BY TypeParts, NumberBytes
<1>2. StdinPathTypeOK' <=> (Bytes(B) /\ Texts /\ Others)'
  BY DEF StdinPathTypeOK, Texts, Bytes, Others
<1> HIDE DEF B
<1>3. CASE ListenStdin
  <2>1. First(stdinPipe, ReadsAtMost) \in Seq(B) /\ After(stdinPipe, ReadsAtMost) \in Seq(B)
    BY <1>1, ReadBounds, CutInTwo DEF Bytes
  <2>2. Bytes(B)'
    BY <1>1, <1>3, <2>1 DEF Bytes, ListenStdin, userVars
  <2>3. Texts' /\ Others'
    BY <1>1, <1>3 DEF Texts, Others, ListenStdin, userVars, readerVars
  <2> QED
    BY <1>2, <2>2, <2>3
<1>4. CASE ListenStdinLine
  <2> DEFINE n == LineEnd(buf)
  <2>1. /\ n \in 1..Len(buf) /\ buf' = After(buf, n)
        /\ handed' = IF n > 1 THEN Append(handed, First(buf, n - 1)) ELSE handed
        /\ \A i \in 1..(n - 1) : buf[i] # Newline
    BY <1>1, <1>4, LineEnds DEF ListenStdinLine, LineUpTo, Bytes
  <2> HIDE DEF n
  <2>2. n \in 0..Len(buf) /\ n - 1 \in 0..Len(buf)
    BY <2>1
  <2>3. Bytes(B)'
    <3>1. buf' \in Seq(B)
      BY <1>1, <2>1, <2>2, CutInTwo DEF Bytes
    <3> QED
      BY <1>1, <1>4, <3>1 DEF Bytes, ListenStdinLine, userVars
  <2>4. First(buf, n - 1) \in Seq(1..MaxLines)
    <3> DEFINE l == First(buf, n - 1)
    <3>1. /\ l \in Seq(B) /\ Len(l) = n - 1
          /\ \A i \in 1..(n - 1) : l[i] = buf[i]
      BY <1>1, <2>2, CutInTwo DEF Bytes
    <3> HIDE DEF l
    <3>2. \A i \in 1..Len(l) : l[i] \in 1..MaxLines
      <4> SUFFICES ASSUME NEW i \in 1..Len(l) PROVE l[i] \in 1..MaxLines
        OBVIOUS
      <4>1. l[i] \in 0..MaxLines /\ l[i] # 0
        BY <2>1, <3>1, ElementOfSeq DEF Newline, B
      <4> QED
        BY <4>1, StdinPathAssumption
    <3>3. l \in Seq(1..MaxLines)
      <4>1. Len(l) \in Nat /\ l = [i \in 1..Len(l) |-> l[i]]
        BY <3>1
      <4>2. l \in [1..Len(l) -> 1..MaxLines]
        BY <3>2, <4>1
      <4> QED
        BY <4>1, <4>2, SeqDef
    <3> QED
      BY <3>3 DEF l
  <2>5. Texts'
    <3> DEFINE L == Seq(1..MaxLines)
    <3>1. handed \in Seq(L) /\ First(buf, n - 1) \in L
      BY <1>1, <2>4 DEF Texts
    <3> HIDE DEF L
    <3>2. handed' \in Seq(L)
      BY <2>1, <3>1, AppendProperties
    <3> QED
      BY <1>1, <1>4, <3>2 DEF Texts, ListenStdinLine, userVars, L
  <2>6. Others'
    BY <1>1, <1>4 DEF Others, ListenStdinLine, userVars, readerVars
  <2> QED
    BY <1>2, <2>3, <2>5, <2>6
<1>5. CASE ListenStdinDrops
  <2>1. Bytes(B)'
    BY <1>1, <1>5, EmptySeq DEF Bytes, ListenStdinDrops, userVars
  <2>2. Texts' /\ Others'
    BY <1>1, <1>5 DEF Texts, Others, ListenStdinDrops, userVars, readerVars
  <2> QED
    BY <1>2, <2>1, <2>2
<1> QED
  BY <1>3, <1>4, <1>5 DEF Listener

(* Every step keeps the types.                                             *)
LEMMA TypeStep == StdinPathTypeOK /\ [Next]_vars => StdinPathTypeOK'
<1> SUFFICES ASSUME StdinPathTypeOK, [Next]_vars PROVE StdinPathTypeOK'
  OBVIOUS
<1>1. CASE UNCHANGED vars
  BY <1>1 DEF vars, userVars, listenerVars, readerVars, StdinPathTypeOK
<1> QED
  BY <1>1, TypesTyped, TypesUserMoves, TypesReader, TypesListener DEF Next, User

(* Five buffers in a row.                                                   *)
Row(b, p, c, i, u) ==
    /\ b \o p \o c \o i \o u = (b \o p) \o (c \o i \o u)
    /\ b \o p \o c \o i \o u = b \o (p \o (c \o i \o u))
    /\ c \o i \o u = c \o (i \o u)
    /\ b \o p \in Seq(Nat) /\ c \o i \o u \in Seq(Nat) /\ p \o (c \o i \o u) \in Seq(Nat)
    /\ b \o p \o c \o i \o u \in Seq(Nat) /\ c \o i \in Seq(Nat)

LEMMA Buffers ==
    ASSUME NEW b \in Seq(Nat), NEW p \in Seq(Nat), NEW c \in Seq(Nat),
           NEW i \in Seq(Nat), NEW u \in Seq(Nat)
    PROVE  Row(b, p, c, i, u)
<1>1. PICK a \in Seq(Nat) : a = b \o p
  BY ConcatProperties
<1>2. PICK d \in Seq(Nat) : d = c \o i
  BY ConcatProperties
<1>3. PICK r \in Seq(Nat) : r = d \o u
  BY ConcatProperties
<1>4. Assoc(a, c, i) /\ Assoc(a, d, u) /\ Assoc(b, p, r) /\ Assoc(c, i, u)
  BY Associative
<1>5. a \o r \in Seq(Nat) /\ p \o r \in Seq(Nat)
  BY ConcatProperties
<1> QED
  BY <1>1, <1>2, <1>3, <1>4, <1>5, Zenon DEF Assoc, Row

Shifted(a, b, f, g) == (a \o (b \o f)) \o g = (a \o b) \o (f \o g)

LEMMA Shift ==
    ASSUME NEW a \in Seq(Nat), NEW b \in Seq(Nat), NEW f \in Seq(Nat), NEW g \in Seq(Nat)
    PROVE  Shifted(a, b, f, g)
<1>1. PICK x \in Seq(Nat) : x = b \o f
  BY ConcatProperties
<1>2. PICK y \in Seq(Nat) : y = f \o g
  BY ConcatProperties
<1>3. Assoc(a, x, g) /\ Assoc(b, f, g) /\ Assoc(a, b, y)
  BY Associative
<1> QED
  BY <1>1, <1>2, <1>3, Zenon DEF Assoc, Shifted

(* Nothing in the row, nothing in its parts.                               *)
LEMMA RestEmpty ==
    ASSUME NEW c \in Seq(Nat), NEW i \in Seq(Nat), NEW u \in Seq(Nat),
           c \o i \o u = <<>>
    PROVE  c = <<>> /\ i = <<>> /\ u = <<>>
<1>1. PICK d \in Seq(Nat) : d = c \o i
  BY ConcatProperties
<1>2. d = <<>> /\ u = <<>>
  BY <1>1, ConcatEqualIffEmpty
<1>3. c \o i = <<>>
  BY <1>1, <1>2
<1>4. c = <<>> /\ i = <<>>
  BY <1>3, ConcatEqualIffEmpty
<1> QED
  BY <1>2, <1>4

-----------------------------------------------------------------------------
(* The other parts of the invariant, and what a step does to the bytes.    *)
(* Neither the bytes under way, taken together, nor the lines handed over  *)
(* change.                                                                 *)
Kept == Underway' = Underway /\ handed' = handed

(* A new line comes behind all bytes under way.                            *)
LEMMA TypedStep ==
    ASSUME Inv, NEW n \in Lengths, UserTypes(n)
    PROVE  LET line == Letters(n, Len(typed) + 1)
           IN  /\ Wholes' /\ Ends' /\ handed' = handed
               /\ Whole(Underway) /\ Underway' = Underway \o Append(line, Newline)
<1> DEFINE k == Len(typed) + 1
           line == Letters(n, k)
           e == <<Newline>>
<1>1. Bytes(Nat) /\ Wholes /\ Ends
  BY TypeParts, NumberBytes DEF Inv
<1>2. k \in 1..MaxLines /\ n \in Nat
  BY StdinPathAssumption, TypeParts DEF UserTypes, Texts, Inv
<1>3. line \in Seq(Nat) /\ line \o e = Append(line, Newline)
  <2>1. IsLine(line, n)
    BY <1>2, Lined
  <2> HIDE DEF line
  <2> QED
    BY <2>1 DEF IsLine
<1>4. unwritten' = unwritten \o line \o e
  BY DEF UserTypes, Letters
<1>5. e \in Seq(Nat)
  BY DEF Newline
<1> HIDE DEF line, e
<1>6. PICK L \in Seq(Nat) : L = Append(line, Newline) /\ L = line \o e /\ Whole(L) /\ L # <<>>
  <2>1. Newline \in Nat
    BY DEF Newline
  <2> QED
    <3>1. PICK L \in Seq(Nat) : L = Append(line, Newline) /\ Whole(L)
      BY <1>3, WholeEnded, Zenon
    <3>2. Append(line, Newline) # <<>>
      BY <1>3, <2>1, AppendProperties
    <3> QED
      BY <1>3, <3>1, <3>2, Zenon
<1>7. unwritten' = unwritten \o L
  <2>1. Assoc(unwritten, line, e)
    BY <1>1, <1>3, <1>5, Associative DEF Bytes
  <2> QED
    BY <1>4, <1>6, <2>1 DEF Assoc
<1>8. PICK d \in Seq(Nat) : d = cin \o input
  BY <1>1, ConcatProperties DEF Bytes
<1>9. PICK x \in Seq(Nat) : x = buf \o stdinPipe \o cin \o input
  <2>1. PICK y \in Seq(Nat) : y = buf \o stdinPipe
    BY <1>1, ConcatProperties DEF Bytes
  <2>2. PICK z \in Seq(Nat) : z = y \o cin
    BY <1>1, ConcatProperties DEF Bytes
  <2>3. PICK w \in Seq(Nat) : w = z \o input
    BY <1>1, ConcatProperties DEF Bytes
  <2> QED
    BY <2>1, <2>2, <2>3
<1>10. Assoc(d, unwritten, L) /\ Assoc(x, unwritten, L)
  BY <1>1, Associative DEF Bytes
<1>11. Rest' = Rest \o L
  BY <1>7, <1>8, <1>10, Zenon DEF Rest, UserTypes, Assoc
<1>12. Underway' = Underway \o L
  BY <1>7, <1>9, <1>10, Zenon DEF Underway, UserTypes, listenerVars, Assoc
<1>13. Rest \in Seq(Nat) /\ buf \o stdinPipe \in Seq(Nat) /\ Underway = (buf \o stdinPipe) \o Rest
  <2>1. Row(buf, stdinPipe, cin, input, unwritten)
    BY <1>1, Buffers DEF Bytes
  <2> QED
    BY <2>1, Zenon DEF Row, Rest, Underway
<1>14. Whole(Rest')
  BY <1>6, <1>11, <1>13, WholeConcat
<1>15. Whole(Underway)
  BY <1>1, <1>13, WholeConcat DEF Wholes
<1>16. Wholes'
  BY <1>1, <1>14 DEF Wholes, UserTypes, listenerVars
<1>17. Ends' /\ handed' = handed
  BY <1>1 DEF Ends, UserTypes, readerVars, listenerVars
<1> QED
  BY <1>6, <1>12, <1>15, <1>16, <1>17 DEF line

(* The user's bytes reach standard input, from there stdio's buffer,       *)
LEMMA WritesStep ==
    ASSUME Inv, UserWrites
    PROVE  Wholes' /\ Ends' /\ Kept
<1>1. Bytes(Nat) /\ Wholes /\ Ends
  BY TypeParts, NumberBytes DEF Inv
<1>2. PICK n \in 1..Len(unwritten) :
         input' = input \o First(unwritten, n) /\ unwritten' = After(unwritten, n)
  BY DEF UserWrites
<1>3. n \in 0..Len(unwritten) /\ unwritten # <<>>
  BY <1>2, EmptySeq
<1>4. PICK f \in Seq(Nat), g \in Seq(Nat) :
         f \o g = unwritten /\ input' = input \o f /\ unwritten' = g
  BY <1>1, <1>2, <1>3, CutInTwo DEF Bytes
<1>5. Rest' = Rest
  <2>1. Shifted(cin, input, f, g)
    BY <1>1, Shift DEF Bytes
  <2> QED
    BY <1>4, <2>1, Zenon DEF Rest, UserWrites, Shifted
<1>6. Underway' = Underway
  <2>1. PICK i \in Seq(Nat), u \in Seq(Nat) : i = input' /\ u = unwritten'
    BY <1>1, <1>4, ConcatProperties DEF Bytes
  <2>2. /\ Row(buf, stdinPipe, cin, input, unwritten)
        /\ Row(buf, stdinPipe, cin, i, u)
    BY <1>1, Buffers DEF Bytes
  <2>3. buf' = buf /\ stdinPipe' = stdinPipe /\ cin' = cin
    BY DEF UserWrites, listenerVars
  <2> QED
    BY <1>5, <2>1, <2>2, <2>3, Zenon DEF Underway, Rest, Row
<1>7. Wholes'
  BY <1>1, <1>5 DEF Wholes, UserWrites, listenerVars
<1>8. ~closed /\ ~signalled
  BY <1>1, <1>3 DEF Ends
<1> QED
  BY <1>6, <1>7, <1>8 DEF Ends, Kept, UserWrites, readerVars, listenerVars

LEMMA ReadsAheadStep ==
    ASSUME Inv, GetlineReadsAhead
    PROVE  Wholes' /\ Ends' /\ Kept
<1>1. Bytes(Nat) /\ Wholes /\ Ends
  BY TypeParts, NumberBytes DEF Inv
<1>2. PICK n \in 0..Len(input) : cin' = cin \o First(input, n) /\ input' = After(input, n)
  <2>1. LineEnd(input) \in 0..Len(input) /\ Len(input) \in 0..Len(input)
    BY <1>1, LineEnds, LenProperties DEF Bytes
  <2> QED
    BY <2>1 DEF GetlineReadsAhead
<1>3. PICK f \in Seq(Nat), g \in Seq(Nat) :
         f \o g = input /\ cin' = cin \o f /\ input' = g
  BY <1>1, <1>2, CutInTwo DEF Bytes
<1>4. Assoc(cin, f, g)
  BY <1>1, Associative DEF Bytes
<1>5. cin' \o input' = cin \o input
  BY <1>3, <1>4, Zenon DEF Assoc
<1>6. buf' = buf /\ stdinPipe' = stdinPipe /\ unwritten' = unwritten
  BY DEF GetlineReadsAhead, listenerVars, userVars
<1>7. Rest' = Rest
  BY <1>5, <1>6, Zenon DEF Rest
<1>8. Underway' = Underway
  <2>1. PICK c \in Seq(Nat), i \in Seq(Nat) : c = cin' /\ i = input'
    BY <1>1, <1>3, ConcatProperties DEF Bytes
  <2>2. /\ Row(buf, stdinPipe, cin, input, unwritten)
        /\ Row(buf, stdinPipe, c, i, unwritten)
    BY <1>1, Buffers DEF Bytes
  <2> QED
    BY <1>6, <1>7, <2>1, <2>2, Zenon DEF Underway, Rest, Row
<1>9. Wholes'
  BY <1>1, <1>6, <1>7 DEF Wholes, GetlineReadsAhead, listenerVars
<1> QED
  BY <1>1, <1>6, <1>7, <1>8, <1>9
  DEF Ends, Kept, GetlineReadsAhead, userVars, readerVars, listenerVars

(* and a line of them the StdinPipe: the bytes stay in their order.        *)
LEMMA ReturnsStep ==
    ASSUME Inv, GetlineReturns
    PROVE  Wholes' /\ Ends' /\ Kept
<1> DEFINE n == LineEnd(cin)
<1>1. Bytes(Nat) /\ Wholes /\ Ends
  BY TypeParts, NumberBytes DEF Inv
<1>2. PICK f \in Seq(Nat), g \in Seq(Nat) :
         /\ f \o g = cin /\ Whole(f) /\ f # <<>>
         /\ cin' = g /\ stdinPipe' = stdinPipe \o f
  <2>1. LineEnd(cin) > 0 /\ cin' = After(cin, n) /\ stdinPipe' = stdinPipe \o First(cin, n)
    BY DEF GetlineReturns
  <2>2. PICK l \in Seq(Nat) : n \in 1..Len(cin) /\ First(cin, n) = Append(l, Newline)
    BY <1>1, <2>1, FirstLine DEF Bytes
  <2> HIDE DEF n
  <2>3. n \in 0..Len(cin)
    BY <2>2
  <2>4. First(cin, n) \in Seq(Nat) /\ After(cin, n) \in Seq(Nat) /\ First(cin, n) \o After(cin, n) = cin
    BY <1>1, <2>3, CutInTwo DEF Bytes
  <2>5. Whole(Append(l, Newline)) /\ Append(l, Newline) # <<>>
    <3>1. Newline \in Nat
      BY DEF Newline
    <3> QED
      BY <3>1, WholeEnded, AppendProperties
  <2> QED
    BY <2>1, <2>2, <2>4, <2>5
<1>3. buf' = buf /\ input' = input /\ unwritten' = unwritten /\ handed' = handed
  BY DEF GetlineReturns, listenerVars, userVars
<1>4. /\ Assoc(buf, stdinPipe, f) /\ Shifted(buf, stdinPipe, f, g)
      /\ buf \o stdinPipe \in Seq(Nat)
  BY <1>1, Associative, Shift, ConcatProperties DEF Bytes
<1>5. Underway' = Underway
  BY <1>2, <1>3, <1>4, Zenon DEF Underway, Shifted
<1>6. Whole(stdinPipe')
  BY <1>1, <1>2, WholeConcat DEF Bytes, Wholes
<1>7. Whole((buf \o stdinPipe)')
  <2>1. Whole((buf \o stdinPipe) \o f)
    BY <1>1, <1>2, <1>4, WholeConcat DEF Wholes
  <2> QED
    BY <1>2, <1>3, <1>4, <2>1, Zenon DEF Assoc
<1>8. Whole(Rest')
  <2>1. PICK r \in Seq(Nat) : r = g \o input \o unwritten
    <3>1. PICK x \in Seq(Nat) : x = g \o input
      BY <1>1, ConcatProperties DEF Bytes
    <3> QED
      BY <1>1, <3>1, ConcatProperties DEF Bytes
  <2>2. Rest = f \o r
    <3>1. PICK x \in Seq(Nat) : x = g \o input
      BY <1>1, ConcatProperties DEF Bytes
    <3>2. Assoc(f, g, input) /\ Assoc(f, x, unwritten)
      BY <1>1, Associative DEF Bytes
    <3> QED
      BY <1>2, <2>1, <3>1, <3>2, Zenon DEF Rest, Assoc
  <2>3. Whole(r)
    BY <1>1, <2>2, WholeAfter DEF Wholes
  <2> QED
    BY <1>2, <1>3, <2>1, <2>3 DEF Rest
<1>9. Wholes'
  BY <1>1, <1>6, <1>7, <1>8 DEF Wholes, GetlineReturns, listenerVars
<1>10. ~signalled
  <2> SUFFICES ASSUME signalled PROVE FALSE
    OBVIOUS
  <2>1. cin = <<>>
    BY <1>1, RestEmpty DEF Ends, Rest, Bytes
  <2> QED
    BY <1>2, <2>1, ConcatEqualIffEmpty
<1> QED
  BY <1>1, <1>3, <1>5, <1>9, <1>10 DEF Ends, Kept, GetlineReturns, userVars, listenerVars

(* Steps that move no byte. GetlineFails sees the end when Rest is empty.  *)
LEMMA SilentSteps ==
    ASSUME Inv, UserCloses \/ SelectReady \/ SelectTimeout \/ GetlineFails \/ Stop
    PROVE  Wholes' /\ Ends' /\ Kept
<1>1. Bytes(Nat) /\ Wholes /\ Ends
  BY TypeParts, NumberBytes DEF Inv
<1>2. /\ buf' = buf /\ stdinPipe' = stdinPipe /\ cin' = cin /\ input' = input
      /\ unwritten' = unwritten /\ handed' = handed /\ overfull' = overfull
  BY DEF UserCloses, SelectReady, SelectTimeout, GetlineFails, Stop, userVars, listenerVars
<1>3. Kept /\ Rest' = Rest
  BY <1>2, Zenon DEF Kept, Underway, Rest
<1>4. Wholes'
  BY <1>1, <1>2, <1>3 DEF Wholes
<1>5. Ends'
  <2>1. CASE GetlineFails
    <3>1. cin = <<>> /\ input = <<>> /\ closed /\ closed' = closed
      BY <2>1 DEF GetlineFails, userVars
    <3>2. unwritten = <<>>
      BY <1>1, <3>1 DEF Ends
    <3>3. Rest = <<>>
      BY <3>1, <3>2 DEF Rest
    <3> QED
      BY <1>2, <1>3, <3>1, <3>2, <3>3 DEF Ends
  <2>2. CASE UserCloses
    BY <1>1, <1>2, <1>3, <2>2 DEF Ends, UserCloses, readerVars
  <2>3. CASE SelectReady \/ SelectTimeout \/ Stop
    <3>1. closed' = closed /\ signalled' = signalled
      BY <2>3 DEF SelectReady, SelectTimeout, Stop, userVars
    <3> QED
      BY <1>1, <1>2, <1>3, <3>1 DEF Ends
  <2> QED
    BY <2>1, <2>2, <2>3
<1> QED
  BY <1>3, <1>4, <1>5

(* listenStdin reads what fits: all, or else overfull becomes true.        *)
LEMMA ListenStep ==
    ASSUME Inv, ListenStdin
    PROVE  Wholes' /\ Ends' /\ Kept
<1>1. Bytes(Nat) /\ Wholes /\ Ends
  BY TypeParts, NumberBytes DEF Inv
<1>2. PICK f \in Seq(Nat), g \in Seq(Nat) :
         /\ f \o g = stdinPipe /\ buf' = f /\ stdinPipe' = g
         /\ ~overfull' => f = stdinPipe
  <2>1. ReadsAtMost \in 0..Len(stdinPipe)
    BY <1>1, ReadBounds
  <2>2. /\ First(stdinPipe, ReadsAtMost) \in Seq(Nat)
        /\ After(stdinPipe, ReadsAtMost) \in Seq(Nat)
        /\ First(stdinPipe, ReadsAtMost) \o After(stdinPipe, ReadsAtMost) = stdinPipe
    BY <1>1, <2>1, CutInTwo DEF Bytes
  <2>3. ASSUME ~overfull' PROVE First(stdinPipe, ReadsAtMost) = stdinPipe
    <3>1. Len(stdinPipe) <= BufferSize
      <4>1. ~ (Len(stdinPipe) > BufferSize)
        BY <2>3, Zenon DEF ListenStdin
      <4>2. Len(stdinPipe) \in Nat
        BY <1>1, LenProperties DEF Bytes
      <4> QED
        BY <4>1, <4>2, StdinPathAssumption
    <3>2. ReadsAtMost = Len(stdinPipe)
      BY <1>1, <3>1, ReadBounds
    <3> QED
      BY <1>1, <3>2, SubSeqFull DEF First, Bytes
  <2> QED
    BY <2>2, <2>3 DEF ListenStdin
<1>3. /\ buf = <<>> /\ cin' = cin /\ input' = input /\ unwritten' = unwritten
      /\ handed' = handed /\ closed' = closed /\ signalled' = signalled
  BY DEF ListenStdin, userVars, readerVars
<1>4. (buf \o stdinPipe)' = buf \o stdinPipe
  <2>1. <<>> \o stdinPipe = stdinPipe
    BY <1>1, ConcatEmptySeq DEF Bytes
  <2> QED
    BY <1>2, <1>3, <2>1
<1>5. Kept /\ Rest' = Rest
  BY <1>3, <1>4, Zenon DEF Kept, Underway, Rest
<1>6. Whole(stdinPipe')
  BY <1>1, <1>2, WholeAfter DEF Wholes
<1>7. Wholes'
  BY <1>1, <1>2, <1>4, <1>5, <1>6 DEF Wholes
<1> QED
  BY <1>1, <1>3, <1>5, <1>7 DEF Ends

(* listenStdin takes the first line of all that is under way. For its part *)
(* that is still in the StdinPipe the invariant says that the line's end   *)
(* is not: buf has a newline.                                              *)
LEMMA LineStep ==
    ASSUME Inv, ListenStdinLine
    PROVE  /\ Wholes' /\ Ends'
           /\ \E l \in Seq(Nat) :
                 /\ Free(l) /\ Underway' \in Seq(Nat)
                 /\ Underway = Append(l, Newline) \o Underway'
                 /\ handed' = IF l = <<>> THEN handed ELSE Append(handed, l)
<1> DEFINE n == LineEnd(buf)
<1>1. Bytes(Nat) /\ Wholes /\ Ends
  BY TypeParts, NumberBytes DEF Inv
<1>2. n > 0 /\ buf' = After(buf, n)
  BY DEF ListenStdinLine
<1>3. PICK l \in Seq(Nat) :
         /\ n \in 1..Len(buf) /\ Free(l) /\ (l = <<>> <=> n = 1)
         /\ First(buf, n) = Append(l, Newline) /\ l = First(buf, n - 1)
  BY <1>1, <1>2, FirstLine DEF Bytes
<1>4. handed' = IF l = <<>> THEN handed ELSE Append(handed, l)
  BY <1>3 DEF ListenStdinLine, LineUpTo
<1> HIDE DEF n
<1>5. PICK f \in Seq(Nat), g \in Seq(Nat) :
         f = Append(l, Newline) /\ f \o g = buf /\ buf' = g
  <2>1. n \in 0..Len(buf)
    BY <1>3
  <2> QED
    BY <1>1, <1>2, <1>3, <2>1, CutInTwo DEF Bytes
<1>6. /\ stdinPipe' = stdinPipe /\ cin' = cin /\ input' = input /\ unwritten' = unwritten
      /\ closed' = closed /\ signalled' = signalled /\ overfull' = overfull
  BY DEF ListenStdinLine, userVars, readerVars
<1>7. /\ Row(buf, stdinPipe, cin, input, unwritten)
      /\ Row(g, stdinPipe, cin, input, unwritten)
  BY <1>1, Buffers DEF Bytes
<1>8. PICK r \in Seq(Nat) : r = stdinPipe \o Rest
  BY <1>7 DEF Row, Rest
<1>9. Assoc(f, g, stdinPipe) /\ Assoc(f, g, r)
  BY <1>1, Associative DEF Bytes
<1>10. Underway' = g \o r /\ Underway = (f \o g) \o r
  BY <1>5, <1>6, <1>7, <1>8, Zenon DEF Row, Underway, Rest
<1>11. Underway' \in Seq(Nat) /\ Underway = Append(l, Newline) \o Underway'
  <2>1. g \o r \in Seq(Nat)
    BY ConcatProperties
  <2> QED
    BY <1>5, <1>9, <1>10, <2>1, Zenon DEF Assoc
<1>12. Rest' = Rest
  BY <1>6 DEF Rest
<1>13. Whole((buf \o stdinPipe)')
  <2>1. PICK x \in Seq(Nat) : x = g \o stdinPipe
    BY <1>1, ConcatProperties DEF Bytes
  <2>2. Whole(f \o x)
    BY <1>1, <1>5, <1>9, <2>1, Zenon DEF Assoc, Wholes
  <2>3. Whole(x)
    BY <2>2, WholeAfter
  <2> QED
    BY <1>5, <1>6, <2>1, <2>3
<1>14. Whole(buf) => Whole(buf')
  BY <1>5, WholeAfter
<1>15. Wholes'
  BY <1>1, <1>6, <1>12, <1>13, <1>14 DEF Wholes
<1>16. Ends'
  BY <1>1, <1>6, <1>12 DEF Ends
<1> QED
  BY <1>3, <1>4, <1>11, <1>15, <1>16

(* Something without a newline is left only when overfull: else the buffer *)
(* ended in one.                                                           *)
LEMMA DropsStep ==
    ASSUME Inv, ListenStdinDrops
    PROVE  Wholes' /\ Ends' /\ overfull
<1>1. Bytes(Nat) /\ Wholes /\ Ends
  BY TypeParts, NumberBytes DEF Inv
<1>2. /\ buf # <<>> /\ LineEnd(buf) = 0 /\ buf' = <<>>
      /\ stdinPipe' = stdinPipe /\ cin' = cin /\ input' = input /\ unwritten' = unwritten
      /\ closed' = closed /\ signalled' = signalled /\ overfull' = overfull
  BY DEF ListenStdinDrops, userVars, readerVars
<1>3. Free(buf)
  BY <1>1, <1>2, LineEnds DEF Bytes
<1>4. overfull
  BY <1>1, <1>2, <1>3, WholeFree DEF Wholes, Bytes
<1>5. Rest' = Rest
  BY <1>2 DEF Rest
<1>6. <<>> \o stdinPipe = stdinPipe
  BY <1>1, ConcatEmptySeq DEF Bytes
<1>7. Wholes'
  BY <1>1, <1>2, <1>5, <1>6 DEF Wholes, Whole
<1>8. Ends'
  BY <1>1, <1>2, <1>5 DEF Ends
<1> QED
  BY <1>4, <1>7, <1>8

(* The invariant at the start, in every step, and so always.               *)
LEMMA InitInv == Init => Inv
<1> SUFFICES ASSUME Init PROVE Inv
  OBVIOUS
<1>1. Bytes(0..MaxLines) /\ Texts
  BY EmptySeq DEF Init, Bytes, Texts
<1>2. Others
  BY DEF Init, Others
<1>3. <<>> \o <<>> = <<>>
  BY EmptySeq, ConcatEmptySeq
<1>4. Rest = <<>> /\ buf \o stdinPipe = <<>>
  BY <1>3, Zenon DEF Init, Rest
<1>5. Wholes /\ Ends
  BY <1>4 DEF Init, Wholes, Ends, Whole
<1> QED
  BY <1>1, <1>2, <1>5, TypeParts DEF Inv

LEMMA InvStep == Inv /\ [Next]_vars => Inv'
<1> SUFFICES ASSUME Inv, [Next]_vars PROVE Inv'
  OBVIOUS
<1>1. StdinPathTypeOK'
  BY TypeStep DEF Inv
<1>2. Wholes' /\ Ends'
  <2>1. CASE UNCHANGED vars
    BY <2>1 DEF vars, userVars, listenerVars, readerVars, Inv, Wholes, Ends, Rest
  <2>2. CASE Next
    BY <2>2, TypedStep, WritesStep, ReadsAheadStep, ReturnsStep, SilentSteps, ListenStep,
       LineStep, DropsStep
    DEF Next, User, Reader, Listener
  <2> QED
    BY <2>1, <2>2
<1> QED
  BY <1>1, <1>2 DEF Inv

LEMMA SpecInv == Spec => []Inv
  BY InitInv, InvStep, PTL DEF Spec

(* The buffers of the readers (std::getline, listenStdin) hold bytes of    *)
(* the user's lines, and the flags are Booleans.                           *)
THEOREM StdinTypesHold == Spec => []StdinPathTypeOK
<1>1. Inv => StdinPathTypeOK
  BY DEF Inv
<1> QED
  BY <1>1, SpecInv, PTL

(* StdinListener::runListener: the end of the input is written to the      *)
(* SignalPipe when no byte is left in stdio's buffer or in front of it.    *)
THEOREM EndIsLastHolds == Spec => []EndIsLast
<1>1. Inv => EndIsLast
  BY DEF Inv, Ends, Rest, EndIsLast
<1> QED
  BY <1>1, SpecInv, PTL

-----------------------------------------------------------------------------
(* The refinement. LinesIn yields lines.                                   *)
LEMMA LinesType == ASSUME NEW s \in Seq(Nat) PROVE LinesIn(s) \in Seq(Seq(Nat))
<1>1. NoLines \in Acc
  BY AccFields, EmptySeq DEF NoLines
<1>2. TakeAll(NoLines, s) \in Acc
  BY <1>1, TakeAllType
<1> QED
  BY <1>2, FieldsOf DEF LinesIn

(* At the start no line is under way.                                      *)
LEMMA FifoInit == Init => Fifo!Init
<1> SUFFICES ASSUME Init PROVE Fifo!Init
  OBVIOUS
<1>1. <<>> \o <<>> = <<>>
  BY EmptySeq, ConcatEmptySeq
<1>2. Underway = <<>> /\ handed = <<>>
  BY <1>1, Zenon DEF Init, Underway
<1> QED
  BY <1>2, LinesNone DEF Fifo!Init

(* A line of n letters is an item of the abstract queue.                   *)
LEMMA LineItem ==
    ASSUME NEW n \in Lengths, NEW k \in 1..MaxLines, NEW line \in [1..n -> {k}]
    PROVE  line \in LineBytes
<1> DEFINE Group(m, j) == [1..m -> {j}]
<1>1. line \in Group(n, k)
  OBVIOUS
<1> HIDE DEF Group
<1>2. line \in UNION {Group(m, j) : m \in Lengths, j \in 1..MaxLines}
  BY <1>1
<1> QED
  BY <1>2 DEF LineBytes, Group

(* The user's line is sent, unless it is empty,                            *)
LEMMA FifoSends ==
    ASSUME Inv, NEW n \in Lengths, UserTypes(n)
    PROVE  Fifo!Next \/ UNCHANGED <<LinesIn(Underway), handed>>
<1> DEFINE k == Len(typed) + 1
           line == Letters(n, k)
<1>1. k \in 1..MaxLines /\ n \in Nat
  BY StdinPathAssumption, TypeParts DEF UserTypes, Texts, Inv
<1>2. line \in Seq(Nat) /\ Free(line) /\ line \in LineBytes
  <2>1. line \in Seq(Nat) /\ Free(line)
    <3>1. IsLine(line, n)
      BY <1>1, Lined
    <3> HIDE DEF line
    <3> QED
      BY <3>1 DEF IsLine
  <2>2. line \in [1..n -> {k}]
    BY DEF Letters
  <2>3. line \in LineBytes
    BY <1>1, <2>2, LineItem
  <2> QED
    BY <2>1, <2>3
<1>3. Bytes(Nat)
  BY TypeParts, NumberBytes DEF Inv
<1>4. Underway \in Seq(Nat)
  <2>1. Row(buf, stdinPipe, cin, input, unwritten)
    BY <1>3, Buffers DEF Bytes
  <2> QED
    BY <2>1 DEF Row, Underway
<1>5. Whole(Underway) /\ Underway' = Underway \o Append(line, Newline) /\ handed' = handed
  BY TypedStep
<1> HIDE DEF line
<1>6. LinesIn(Underway') = IF line = <<>> THEN LinesIn(Underway) ELSE Append(LinesIn(Underway), line)
  BY <1>2, <1>4, <1>5, LinesBack
<1>7. CASE line = <<>>
  BY <1>5, <1>6, <1>7
<1>8. CASE line # <<>>
  <2>1. Fifo!Send(line)
    BY <1>5, <1>6, <1>8 DEF Fifo!Send
  <2> QED
    BY <1>2, <2>1 DEF Fifo!Next
<1> QED
  BY <1>7, <1>8

(* and listenStdin delivers the front of the queue, unless the line is     *)
(* empty.                                                                  *)
LEMMA FifoDelivers ==
    ASSUME Inv, ListenStdinLine
    PROVE  Fifo!Next \/ UNCHANGED <<LinesIn(Underway), handed>>
<1>1. PICK l \in Seq(Nat) :
         /\ Free(l) /\ Underway' \in Seq(Nat)
         /\ Underway = Append(l, Newline) \o Underway'
         /\ handed' = IF l = <<>> THEN handed ELSE Append(handed, l)
  BY LineStep
<1>2. LinesIn(Underway) = IF l = <<>> THEN LinesIn(Underway') ELSE <<l>> \o LinesIn(Underway')
  BY <1>1, LinesFront
<1>3. CASE l = <<>>
  BY <1>1, <1>2, <1>3
<1>4. CASE l # <<>>
  <2>1. PICK q \in Seq(Seq(Nat)) : q = LinesIn(Underway')
    BY <1>1, LinesType
  <2>2. <<l>> \o q # <<>> /\ Head(<<l>> \o q) = l /\ Tail(<<l>> \o q) = q
    OBVIOUS
  <2>3. Fifo!Deliver
    BY <1>1, <1>2, <1>4, <2>1, <2>2 DEF Fifo!Deliver
  <2> QED
    BY <2>3 DEF Fifo!Next
<1> QED
  BY <1>3, <1>4

(* From the key presses to writeMail, through the five buffers of          *)
(* std::getline and listenStdin, the lines form a reliable queue: each     *)
(* comes out once, whole and in order. The only step that is none of the   *)
(* queue's is the loss of what is left of a line, and only after a read    *)
(* that did not take all there was.                                        *)
THEOREM StdinIsLineFifo == Spec => IsLineFifo
<1> DEFINE Step == Fifo!Next \/ (ListenStdinDrops /\ overfull)
<1>1. Inv /\ [Next]_vars => [Step]_<<LinesIn(Underway), handed>>
  <2> SUFFICES ASSUME Inv, [Next]_vars
               PROVE  Step \/ UNCHANGED <<LinesIn(Underway), handed>>
    OBVIOUS
  <2>1. CASE UNCHANGED vars
    BY <2>1 DEF vars, userVars, listenerVars, readerVars, Underway
  <2>2. CASE Kept
    BY <2>2 DEF Kept
  <2>3. CASE \E n \in Lengths : UserTypes(n)
    BY <2>3, FifoSends
  <2>4. CASE ListenStdinLine
    BY <2>4, FifoDelivers
  <2>5. CASE ListenStdinDrops
    BY <2>5, DropsStep
  <2> HIDE DEF Step
  <2> QED
    BY <2>1, <2>2, <2>3, <2>4, <2>5, WritesStep, ReadsAheadStep, ReturnsStep, SilentSteps,
       ListenStep
    DEF Next, User, Reader, Listener
<1> QED
  BY <1>1, FifoInit, SpecInv, PTL DEF Spec, IsLineFifo

(* listenStdin: as long as it never leaves anything in the StdinPipe the   *)
(* lines are a reliable queue, and none is lost or cut.                    *)
THEOREM FittingLinesAreFifo == Spec /\ []~overfull => Fifo!Spec /\ [](cuts = 0)
<1> DEFINE v == <<LinesIn(Underway), handed>>
           Step == Fifo!Next \/ (ListenStdinDrops /\ overfull)
<1>1. ~overfull /\ [Step]_v => [Fifo!Next]_v
  OBVIOUS
<1>2. Init => cuts = 0
  BY DEF Init
<1>3. Inv /\ ~overfull /\ cuts = 0 /\ [Next]_vars => (cuts = 0)'
  BY DropsStep DEF Next, User, Reader, Listener, UserTypes, UserWrites, UserCloses, SelectReady,
     SelectTimeout, GetlineReadsAhead, GetlineReturns, GetlineFails, ListenStdin,
     ListenStdinLine, Stop, vars, listenerVars
<1>4. Spec => Fifo!Init /\ [][Step]_v
  BY StdinIsLineFifo DEF IsLineFifo
<1> QED
  BY <1>1, <1>2, <1>3, <1>4, SpecInv, PTL DEF Spec, Fifo!Spec
=============================================================================
