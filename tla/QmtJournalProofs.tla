-------------------------- MODULE QmtJournalProofs --------------------------
(***************************************************************************)
(* What a start of the QMT service finds in its journal, for every bound:  *)
(* every start reads the files back unless a line was torn, what they no   *)
(* longer hold is covered by a checkpoint and was closed, and they stay    *)
(* within the limit.                                                       *)
(*                                                                         *)
(* The argument is one number p, which is not in the state: the files hold *)
(* the records after the first p, archive by archive, then the file that   *)
(* is rotated or written.  A rotation moves the end of the last archive, a *)
(* compaction moves p, and the latest checkpoint and the marker say how    *)
(* far it came.  The lemmas before the invariant are about lines, about    *)
(* the fold that decides which archives are closed (a scan that starts     *)
(* over where nothing is open finds the same), and about chains of         *)
(* archives.  They are stated for any sequence, since a line carries a     *)
(* whole record.                                                           *)
(***************************************************************************)
EXTENDS QmtJournal, TLAPS, SequenceTheorems, WellFoundedInduction

-----------------------------------------------------------------------------
(* Sequences of whatever there is.                                         *)

IsSeq(s) == s \in Seq(ToSet(s))

LEMMA SeqIsSeq == ASSUME NEW T, NEW s \in Seq(T) PROVE IsSeq(s)
<1>1. s \in [1..Len(s) -> T] /\ Len(s) \in Nat /\ DOMAIN s = 1..Len(s)
  BY LenProperties
<1>2. s \in [1..Len(s) -> ToSet(s)]
  BY <1>1 DEF ToSet
<1> QED
  BY <1>1, <1>2, SeqDef DEF IsSeq

LEMMA IsSeqLen ==
  ASSUME NEW s, IsSeq(s)
  PROVE  /\ Len(s) \in Nat /\ DOMAIN s = 1..Len(s) /\ s = [i \in 1..Len(s) |-> s[i]]
         /\ s = <<>> <=> Len(s) = 0
<1>1. s \in Seq(ToSet(s))
  BY DEF IsSeq
<1> HIDE DEF IsSeq
<1>2. Len(s) \in Nat /\ DOMAIN s = 1..Len(s) /\ s \in [1..Len(s) -> ToSet(s)]
  BY <1>1, LenProperties
<1>3. s = [i \in 1..Len(s) |-> s[i]]
  BY <1>2
<1>4. s = <<>> <=> Len(s) = 0
  BY <1>1, EmptySeq
<1> QED
  BY <1>2, <1>3, <1>4

LEMMA SameSeq ==
  ASSUME NEW s, NEW t, IsSeq(s), IsSeq(t), Len(s) = Len(t), \A i \in 1..Len(s) : s[i] = t[i]
  PROVE  s = t
<1>1. s = [i \in 1..Len(s) |-> s[i]] /\ t = [i \in 1..Len(t) |-> t[i]]
  BY IsSeqLen
<1>2. [i \in 1..Len(s) |-> s[i]] = [i \in 1..Len(t) |-> t[i]]
  OBVIOUS
<1> QED
  BY <1>1, <1>2

LEMMA AppendSeq ==
  ASSUME NEW s, IsSeq(s), NEW x
  PROVE  /\ IsSeq(Append(s, x)) /\ Len(Append(s, x)) = Len(s) + 1
         /\ \A i \in 1..Len(s) : Append(s, x)[i] = s[i]
         /\ Append(s, x)[Len(s) + 1] = x
<1> DEFINE T == ToSet(s) \cup {x}
<1>1. s \in Seq(T) /\ x \in T
  <2>1. s \in Seq(ToSet(s)) /\ ToSet(s) \subseteq T
    BY DEF IsSeq
  <2> HIDE DEF T
  <2>2. s \in Seq(T)
    BY <2>1, SeqMonotonic
  <2> QED
    BY <2>2 DEF T
<1> HIDE DEF T
<1>2. Append(s, x) \in Seq(T)
  BY <1>1
<1>3. IsSeq(Append(s, x))
  BY <1>2, SeqIsSeq
<1> QED
  BY <1>1, <1>3

LEMMA TailSeq ==
  ASSUME NEW s, IsSeq(s), s # <<>>
  PROVE  /\ IsSeq(Tail(s)) /\ Len(Tail(s)) = Len(s) - 1 /\ Len(s) \in Nat \ {0}
         /\ \A i \in 1..Len(s) - 1 : Tail(s)[i] = s[i + 1]
<1>1. s \in Seq(ToSet(s))
  BY DEF IsSeq
<1>2. Tail(s) \in Seq(ToSet(s)) /\ Len(s) \in Nat \ {0}
  BY <1>1, EmptySeq
<1>3. IsSeq(Tail(s))
  BY <1>2, SeqIsSeq
<1> QED
  BY <1>1, <1>2, <1>3

LEMMA FunctionSeq ==
  ASSUME NEW s, NEW n \in Nat, DOMAIN s = 1..n, s = [i \in DOMAIN s |-> s[i]]
  PROVE  IsSeq(s) /\ Len(s) = n
<1>1. s \in [1..n -> ToSet(s)]
  BY DEF ToSet
<1>2. s \in Seq(ToSet(s))
  BY <1>1, SeqDef
<1>3. Len(s) = n
  BY <1>2
<1> QED
  BY <1>2, <1>3 DEF IsSeq

LEMMA ConcatSeq ==
  ASSUME NEW s, NEW t, IsSeq(s), IsSeq(t)
  PROVE  /\ IsSeq(s \o t) /\ Len(s \o t) = Len(s) + Len(t)
         /\ \A i \in 1..Len(s) : (s \o t)[i] = s[i]
         /\ \A i \in 1..Len(t) : (s \o t)[Len(s) + i] = t[i]
<1> DEFINE T == ToSet(s) \cup ToSet(t)
<1>1. s \in Seq(T) /\ t \in Seq(T)
  <2>1. s \in Seq(ToSet(s)) /\ t \in Seq(ToSet(t)) /\ ToSet(s) \subseteq T /\ ToSet(t) \subseteq T
    BY DEF IsSeq
  <2> HIDE DEF T
  <2> QED
    BY <2>1, SeqMonotonic
<1> HIDE DEF T
<1>2. /\ s \o t \in Seq(T) /\ Len(s \o t) = Len(s) + Len(t)
      /\ \A i \in 1..Len(s) + Len(t) : (s \o t)[i] = IF i <= Len(s) THEN s[i] ELSE t[i - Len(s)]
  BY <1>1, ConcatProperties
<1>3. IsSeq(s \o t)
  BY <1>2, SeqIsSeq
<1>4. Len(s) \in Nat /\ Len(t) \in Nat
  BY IsSeqLen
<1>5. ASSUME NEW i \in 1..Len(t) PROVE (s \o t)[Len(s) + i] = t[i]
  <2>1. Len(s) + i \in 1..Len(s) + Len(t) /\ ~(Len(s) + i <= Len(s)) /\ Len(s) + i - Len(s) = i
    BY <1>4
  <2> QED
    BY <1>2, <2>1
<1> QED
  BY <1>2, <1>3, <1>4, <1>5

LEMMA SubSeqSeq ==
  ASSUME NEW s, IsSeq(s), NEW p \in Nat, NEW q \in Nat, p <= q, q <= Len(s)
  PROVE  /\ IsSeq(SubSeq(s, p + 1, q)) /\ Len(SubSeq(s, p + 1, q)) = q - p
         /\ \A i \in 1..q - p : SubSeq(s, p + 1, q)[i] = s[p + i]
<1>1. \A i \in p + 1..q : s[i] \in ToSet(s)
  BY IsSeqLen DEF ToSet
<1>2. /\ SubSeq(s, p + 1, q) \in Seq(ToSet(s))
      /\ Len(SubSeq(s, p + 1, q)) = IF p + 1 <= q THEN q - (p + 1) + 1 ELSE 0
      /\ \A i \in 1..q - (p + 1) + 1 : SubSeq(s, p + 1, q)[i] = s[p + 1 + i - 1]
  BY <1>1, SubSeqProperties
<1>3. IsSeq(SubSeq(s, p + 1, q))
  BY <1>2, SeqIsSeq
<1>4. q - (p + 1) + 1 = q - p /\ \A i \in 1..q - p : p + 1 + i - 1 = p + i
  OBVIOUS
<1> QED
  BY <1>2, <1>3, <1>4

-----------------------------------------------------------------------------
(* Spans: the lines of the records after the first p, to the q-th.         *)

LineAt(h, k) == [seq |-> k, prev |-> k - 1, hash |-> k, record |-> h[k]]
Span(h, p, q) == [i \in 1..q - p |-> LineAt(h, p + i)]

LEMMA LineAtFields ==
  ASSUME NEW h, NEW k
  PROVE  LineAt(h, k).seq = k /\ LineAt(h, k).prev = k - 1 /\ LineAt(h, k).hash = k
  BY DEF LineAt

\* A span is a sequence; it is empty when nothing lies between.
LEMMA SpanSeq ==
  ASSUME NEW h, NEW p \in Nat, NEW q \in Nat, p <= q
  PROVE  /\ IsSeq(Span(h, p, q)) /\ Len(Span(h, p, q)) = q - p
         /\ \A i \in 1..q - p : Span(h, p, q)[i] = LineAt(h, p + i)
         /\ Span(h, p, q) = <<>> <=> p = q
<1> DEFINE n == q - p
           s == Span(h, p, q)
<1>1. n \in Nat /\ DOMAIN s = 1..n /\ s = [i \in DOMAIN s |-> s[i]]
  BY DEF Span
<1> HIDE DEF n, s
<1>2. IsSeq(s) /\ Len(s) = n
  BY <1>1, FunctionSeq
<1>3. s = <<>> <=> Len(s) = 0
  BY <1>2, IsSeqLen
<1>4. \A i \in 1..q - p : Span(h, p, q)[i] = LineAt(h, p + i)
  BY DEF Span
<1>5. n = q - p
  BY DEF n
<1> QED
  BY <1>2, <1>3, <1>4, <1>5 DEF s

\* The name of a file that is not empty.
LEMMA SpanName ==
  ASSUME NEW h, NEW p \in Nat, NEW q \in Nat, p < q
  PROVE  /\ Last(Span(h, p, q)) = LineAt(h, q) /\ Name(Span(h, p, q)) = q
         /\ Last(Span(h, p, q)).hash = q /\ Last(Span(h, p, q)).seq = q
<1>1. p <= q /\ q - p \in 1..(q - p) /\ p + (q - p) = q
  OBVIOUS
<1>2. Len(Span(h, p, q)) = q - p /\ Span(h, p, q)[q - p] = LineAt(h, p + (q - p))
  BY <1>1, SpanSeq
<1>3. Last(Span(h, p, q)) = LineAt(h, q)
  BY <1>1, <1>2 DEF Last
<1> QED
  BY <1>3 DEF Name, LineAt

\* Spans that meet join.
LEMMA SpanConcat ==
  ASSUME NEW h, NEW a \in Nat, NEW b \in Nat, NEW c \in Nat, a <= b, b <= c
  PROVE  Span(h, a, b) \o Span(h, b, c) = Span(h, a, c)
<1> DEFINE s == Span(h, a, b)
           t == Span(h, b, c)
           u == Span(h, a, c)
<1>1. /\ IsSeq(s) /\ IsSeq(t) /\ IsSeq(u) /\ Len(s) = b - a /\ Len(t) = c - b /\ Len(u) = c - a
      /\ \A i \in 1..b - a : s[i] = LineAt(h, a + i)
      /\ \A i \in 1..c - b : t[i] = LineAt(h, b + i)
      /\ \A i \in 1..c - a : u[i] = LineAt(h, a + i)
  BY SpanSeq
<1> HIDE DEF s, t, u
<1>2. /\ IsSeq(s \o t) /\ Len(s \o t) = Len(s) + Len(t)
      /\ \A i \in 1..Len(s) : (s \o t)[i] = s[i]
      /\ \A i \in 1..Len(t) : (s \o t)[Len(s) + i] = t[i]
  <2>1. IsSeq(s) /\ IsSeq(t)
    BY <1>1
  <2> QED
    BY <2>1, ConcatSeq
<1>3. ASSUME NEW i \in 1..c - a PROVE (s \o t)[i] = u[i]
  <2>1. CASE i <= b - a
    <3>1. i \in 1..b - a
      BY <2>1
    <3> QED
      BY <3>1, <1>1, <1>2
  <2>2. CASE i > b - a
    <3> DEFINE j == i - (b - a)
    <3>1. j \in 1..c - b /\ i = (b - a) + j /\ b + j = a + i
      BY <2>2
    <3> HIDE DEF j
    <3>2. (s \o t)[i] = t[j] /\ t[j] = LineAt(h, b + j)
      BY <3>1, <1>1, <1>2
    <3> QED
      BY <3>1, <3>2, <1>1
  <2>3. i <= b - a \/ i > b - a
    OBVIOUS
  <2> QED
    BY <2>1, <2>2, <2>3
<1>4. Len(s \o t) = c - a
  BY <1>1, <1>2
<1>5. s \o t = u
  BY <1>1, <1>2, <1>3, <1>4, SameSeq
<1> QED
  BY <1>5 DEF s, t, u

\* A record more changes nothing before it.
LEMMA SpanGrows ==
  ASSUME NEW h, IsSeq(h), NEW r, NEW p \in Nat, NEW q \in Nat, q <= Len(h)
  PROVE  Span(Append(h, r), p, q) = Span(h, p, q)
<1>1. \A i \in 1..q - p : p + i \in 1..Len(h)
  BY IsSeqLen
<1>2. \A i \in 1..Len(h) : Append(h, r)[i] = h[i]
  BY AppendSeq
<1>3. \A i \in 1..q - p : LineAt(Append(h, r), p + i) = LineAt(h, p + i)
  BY <1>1, <1>2 DEF LineAt
<1> QED
  BY <1>3 DEF Span

\* A record more is a line more.
LEMMA SpanAppend ==
  ASSUME NEW h, IsSeq(h), NEW r, NEW p \in Nat, p <= Len(h)
  PROVE  Append(Span(h, p, Len(h)), LineAt(Append(h, r), Len(h) + 1))
           = Span(Append(h, r), p, Len(h) + 1)
<1> DEFINE n == Len(h)
           g == Append(h, r)
           s == Span(h, p, n)
           l == LineAt(g, n + 1)
           t == Span(g, p, n + 1)
<1>1. n \in Nat /\ n + 1 \in Nat /\ p <= n
  BY IsSeqLen
<1>2. /\ IsSeq(s) /\ Len(s) = n - p /\ s = Span(g, p, n)
      /\ \A i \in 1..n - p : s[i] = LineAt(g, p + i)
  <2>1. s = Span(g, p, n)
    BY <1>1, SpanGrows
  <2> HIDE DEF s, g, n
  <2>2. IsSeq(Span(g, p, n)) /\ Len(Span(g, p, n)) = n - p
        /\ \A i \in 1..n - p : Span(g, p, n)[i] = LineAt(g, p + i)
    BY <1>1, SpanSeq
  <2> QED
    BY <2>1, <2>2
<1>3. IsSeq(t) /\ Len(t) = n + 1 - p /\ \A i \in 1..n + 1 - p : t[i] = LineAt(g, p + i)
  <2>1. n + 1 \in Nat /\ p <= n + 1
    BY <1>1
  <2> HIDE DEF g, n
  <2>2. PICK m \in Nat : m = n + 1
    BY <2>1
  <2>3. /\ IsSeq(Span(g, p, m)) /\ Len(Span(g, p, m)) = m - p
        /\ \A i \in 1..m - p : Span(g, p, m)[i] = LineAt(g, p + i)
    BY <2>1, <2>2, SpanSeq
  <2> QED
    BY <1>1, <2>2, <2>3 DEF t
<1> HIDE DEF n, g, s, l, t
<1>4. /\ IsSeq(Append(s, l)) /\ Len(Append(s, l)) = n - p + 1
      /\ \A i \in 1..n - p : Append(s, l)[i] = s[i]
      /\ Append(s, l)[n - p + 1] = l
  BY <1>2, AppendSeq
<1>5. ASSUME NEW i \in 1..n - p + 1 PROVE Append(s, l)[i] = t[i]
  <2>1. CASE i \in 1..n - p
    <3>1. i \in 1..n + 1 - p
      BY <2>1, <1>1
    <3> QED
      BY <2>1, <3>1, <1>2, <1>3, <1>4
  <2>2. CASE i = n - p + 1
    <3>1. p + i = n + 1 /\ i \in 1..n + 1 - p
      BY <2>2, <1>1
    <3>2. t[i] = LineAt(g, n + 1)
      BY <3>1, <1>3
    <3> QED
      BY <3>2, <2>2, <1>4 DEF l
  <2>3. i \in 1..n - p \/ i = n - p + 1
    BY <1>1
  <2> QED
    BY <2>1, <2>2, <2>3
<1>6. Len(Append(s, l)) = Len(t) /\ Len(t) = n - p + 1
  BY <1>1, <1>3, <1>4
<1>7. Append(s, l) = t
  BY <1>3, <1>4, <1>5, <1>6, SameSeq
<1> QED
  BY <1>7 DEF s, l, t, n, g

\* The records of a span.
LEMMA SpanRecords ==
  ASSUME NEW h, IsSeq(h), NEW p \in Nat, NEW q \in Nat, p <= q, q <= Len(h)
  PROVE  Records(Span(h, p, q)) = SubSeq(h, p + 1, q)
<1> DEFINE s == Records(Span(h, p, q))
           t == SubSeq(h, p + 1, q)
           n == q - p
<1>0. n \in Nat
  OBVIOUS
<1>1. IsSeq(t) /\ Len(t) = n /\ \A i \in 1..n : t[i] = h[p + i]
  BY SubSeqSeq
<1>2. DOMAIN s = 1..n /\ s = [i \in DOMAIN s |-> s[i]] /\ \A i \in 1..n : s[i] = h[p + i]
  BY DEF Records, Span, LineAt
<1> HIDE DEF s, t, n
<1>3. IsSeq(s) /\ Len(s) = n
  BY <1>0, <1>2, FunctionSeq
<1>4. s = t
  BY <1>1, <1>2, <1>3, SameSeq
<1> QED
  BY <1>4 DEF s, t

-----------------------------------------------------------------------------
(* Induction, steps and joined files.                                      *)

\* Induction, with the property as a set: what remains outside would have a
\* least element.
LEMMA NatSetInduction ==
  ASSUME NEW S, 0 \in S, \A n \in Nat : n \in S => n + 1 \in S
  PROVE  Nat \subseteq S
<1> DEFINE T == Nat \ S
           R == OpToRel(<, Nat)
<1>1. SUFFICES ASSUME T # {} PROVE FALSE
  OBVIOUS
<1>2. PICK x \in T : \A y \in T : <<y, x>> \notin R
  <2> HIDE DEF R, T
  <2>1. IsWellFoundedOn(R, Nat)
    BY NatLessThanWellFounded DEF R
  <2>2. T \subseteq Nat
    BY DEF T
  <2> QED
    BY <2>1, <2>2, <1>1, WFMin
<1>3. x - 1 \in T
  OBVIOUS
<1>4. <<x - 1, x>> \in R
  BY <1>3 DEF OpToRel
<1> QED
  BY <1>2, <1>3, <1>4

\* What does not fall from one index to the next does not fall.
LEMMA Monotone ==
  ASSUME NEW n \in Nat, NEW d \in Nat, NEW e \in [0..n -> Nat],
         \A i \in 1..n : e[i - 1] + d <= e[i]
  PROVE  \A i \in 0..n : \A j \in 0..n : i < j => e[i] + d <= e[j]
<1> DEFINE S == {j \in Nat : j <= n => \A i \in 0..n : i < j => e[i] + d <= e[j]}
<1>1. 0 \in S
  OBVIOUS
<1>2. ASSUME NEW j \in Nat, j \in S PROVE j + 1 \in S
  <2>1. ASSUME j + 1 <= n, NEW i \in 0..n, i < j + 1 PROVE e[i] + d <= e[j + 1]
    <3>1. j + 1 \in 1..n /\ j \in 0..n /\ j + 1 \in 0..n /\ j + 1 - 1 = j
      BY <2>1
    <3>2. e[j] + d <= e[j + 1] /\ e[j] \in Nat /\ e[j + 1] \in Nat /\ e[i] \in Nat
      BY <3>1
    <3>3. CASE i = j
      BY <3>2, <3>3
    <3>4. CASE i < j
      <4>1. e[i] + d <= e[j]
        BY <1>2, <2>1, <3>4
      <4> QED
        BY <4>1, <3>2
    <3>5. i = j \/ i < j
      BY <2>1
    <3> QED
      BY <3>3, <3>4, <3>5
  <2> QED
    BY <2>1
<1>3. Nat \subseteq S
  <2> HIDE DEF S
  <2> QED
    BY <1>1, <1>2, NatSetInduction
<1> QED
  BY <1>3

\* The recursion behind FlattenSeq.
Joined(g, ss) == [i \in 1..Len(ss) |-> IF i = 1 THEN ss[i] ELSE g[i - 1] \o ss[i]]
Join(ss) == CHOOSE g : g = Joined(g, ss)

LEMMA FlattenIsJoin ==
  ASSUME NEW ss
  PROVE  FlattenSeq(ss) = IF Len(ss) = 0 THEN ss ELSE Join(ss)[Len(ss)]
  BY DEF FlattenSeq, Join, Joined

\* Files that begin where the one before ends join to one span.
LEMMA JoinedSpans ==
  ASSUME NEW h, NEW n \in Nat \ {0}, NEW ss, Len(ss) = n, NEW e \in [0..n -> Nat],
         \A i \in 1..n : e[i - 1] <= e[i] /\ ss[i] = Span(h, e[i - 1], e[i])
  PROVE  FlattenSeq(ss) = Span(h, e[0], e[n]) /\ e[0] <= e[n]
<1>1. \A i \in 1..n : e[0] <= e[i] /\ e[i] \in Nat /\ e[i - 1] \in Nat /\ e[0] \in Nat
  <2>1. \A i \in 1..n : e[i - 1] + 0 <= e[i]
    OBVIOUS
  <2>2. \A i \in 0..n : \A j \in 0..n : i < j => e[i] + 0 <= e[j]
    BY <2>1, Monotone
  <2> QED
    BY <2>2
<1>2. ASSUME NEW j \in 1..n, NEW i \in 1..n, i = j + 1
      PROVE  Span(h, e[0], e[j]) \o ss[i] = Span(h, e[0], e[i])
  <2>1. i - 1 = j
    BY <1>2
  <2>2. e[0] <= e[j] /\ e[j] <= e[i] /\ ss[i] = Span(h, e[j], e[i])
    BY <2>1, <1>1
  <2>3. e[0] \in Nat /\ e[j] \in Nat /\ e[i] \in Nat
    BY <1>1
  <2>4. Span(h, e[0], e[j]) \o Span(h, e[j], e[i]) = Span(h, e[0], e[i])
    <3>1. PICK x \in Nat, y \in Nat, z \in Nat : x = e[0] /\ y = e[j] /\ z = e[i]
      BY <2>3
    <3>2. x <= y /\ y <= z
      BY <2>2, <3>1
    <3>3. Span(h, x, y) \o Span(h, y, z) = Span(h, x, z)
      BY <3>2, SpanConcat, ZenonT(60)
    <3> QED
      BY <3>1, <3>3
  <2> QED
    BY <2>2, <2>4
<1>3. ss[1] = Span(h, e[0], e[1])
  OBVIOUS
<1>4. \E g : g = Joined(g, ss)
  <2> DEFINE g == [i \in 1..n |-> Span(h, e[0], e[i])]
  <2>1. ASSUME NEW i \in 1..n
        PROVE  g[i] = IF i = 1 THEN ss[i] ELSE g[i - 1] \o ss[i]
    <3>1. g[i] = Span(h, e[0], e[i])
      OBVIOUS
    <3>2. CASE i = 1
      BY <3>1, <3>2, <1>3
    <3>3. CASE i # 1
      <4>1. g[i - 1] = Span(h, e[0], e[i - 1])
        BY <3>3
      <4>2. i - 1 \in 1..n /\ i = (i - 1) + 1
        BY <3>3
      <4>3. Span(h, e[0], e[i - 1]) \o ss[i] = Span(h, e[0], e[i])
        BY <4>2, <1>2
      <4> HIDE DEF g
      <4> QED
        BY <3>1, <3>3, <4>1, <4>3
    <3> QED
      BY <3>2, <3>3
  <2>2. g = [i \in 1..n |-> g[i]]
    OBVIOUS
  <2> HIDE DEF g
  <2>3. g = Joined(g, ss)
    BY <2>1, <2>2 DEF Joined
  <2> QED
    BY <2>3
<1>5. Join(ss) = Joined(Join(ss), ss)
  BY <1>4 DEF Join
<1> DEFINE g == Join(ss)
<1>6. /\ g[1] = ss[1]
      /\ \A j \in 1..n : \A i \in 1..n : i = j + 1 => g[i] = g[j] \o ss[i]
  <2> HIDE DEF g
  <2>1. g = Joined(g, ss)
    BY <1>5 DEF g
  <2>2. \A i \in 1..n : g[i] = IF i = 1 THEN ss[i] ELSE g[i - 1] \o ss[i]
    BY <2>1 DEF Joined
  <2>3. ASSUME NEW j \in 1..n, NEW i \in 1..n, i = j + 1 PROVE g[i] = g[j] \o ss[i]
    <3>1. i # 1 /\ i - 1 = j
      BY <2>3
    <3> QED
      BY <2>2, <3>1
  <2>4. g[1] = ss[1]
    <3>1. 1 \in 1..n
      OBVIOUS
    <3> QED
      BY <2>2, <3>1
  <2> QED
    BY <2>3, <2>4
<1> DEFINE S == {m \in Nat : m \in 1..n => g[m] = Span(h, e[0], e[m])}
<1>7. Nat \subseteq S
  <2> HIDE DEF g
  <2>1. 0 \in S
    OBVIOUS
  <2>2. ASSUME NEW m \in Nat, m \in S PROVE m + 1 \in S
    <3>1. ASSUME m + 1 \in 1..n PROVE g[m + 1] = Span(h, e[0], e[m + 1])
      <4>1. CASE m = 0
        BY <4>1, <3>1, <1>3, <1>6
      <4>2. CASE m # 0
        <5>1. PICK i \in 1..n : i = m + 1
          BY <3>1
        <5>2. m \in 1..n
          BY <4>2, <3>1
        <5>3. g[m] = Span(h, e[0], e[m])
          BY <2>2, <5>2
        <5>4. g[i] = g[m] \o ss[i]
          BY <1>6, <5>1, <5>2
        <5>5. Span(h, e[0], e[m]) \o ss[i] = Span(h, e[0], e[i])
          BY <1>2, <5>1, <5>2
        <5> QED
          BY <5>1, <5>3, <5>4, <5>5
      <4> QED
        BY <4>1, <4>2
    <3> QED
      BY <3>1
  <2> HIDE DEF S
  <2> QED
    BY <2>1, <2>2, NatSetInduction
<1>8. g[n] = Span(h, e[0], e[n])
  <2> HIDE DEF g
  <2>1. n \in S /\ n \in 1..n
    BY <1>7
  <2> QED
    BY <2>1
<1>9. FlattenSeq(ss) = g[n]
  BY FlattenIsJoin
<1> QED
  BY <1>1, <1>8, <1>9

-----------------------------------------------------------------------------
(* The scan of records.  *)

\* The recursion behind the fold, and what it computes.
Folded(g, records, s) ==
  IF s = {} THEN Unscanned ELSE ScannedRecord(g[s \ {Max(s)}], records[Max(s)])
Iter(records) == CHOOSE g : g = [s \in SUBSET DOMAIN records |-> Folded(g, records, s)]
Scan(records) == FoldLeft(ScannedRecord, Unscanned, records)

LEMMA ScanIsIter ==
  ASSUME NEW records
  PROVE  Scan(records) = Iter(records)[DOMAIN records]
  BY DEF Scan, FoldLeft, MapThenFoldSet, Iter, Folded

LEMMA LastIsMax ==
  ASSUME NEW n \in Nat, NEW s \in SUBSET (1..n + 1), n + 1 \in s
  PROVE  Max(s) = n + 1 /\ s \ {Max(s)} \in SUBSET (1..n)
<1>1. \A x \in s : x \in Nat /\ x <= n + 1
  OBVIOUS
<1>2. \E x \in s : \A y \in s : x >= y
  BY <1>1
<1>3. Max(s) \in s /\ \A y \in s : Max(s) >= y
  BY <1>2 DEF Max
<1>4. Max(s) = n + 1
  <2> DEFINE x == Max(s)
  <2>1. x \in Nat /\ x <= n + 1 /\ x >= n + 1
    BY <1>1, <1>3
  <2> HIDE DEF x
  <2>2. x = n + 1
    BY <2>1
  <2> QED
    BY <2>2 DEF x
<1>5. \A x \in s \ {n + 1} : x \in 1..n
  OBVIOUS
<1> QED
  BY <1>4, <1>5

\* The recursion has a solution: one for n records gives one for n + 1.
LEMMA IterExists ==
  ASSUME NEW records, NEW n \in Nat, DOMAIN records = 1..n
  PROVE  \E g : g = [s \in SUBSET DOMAIN records |-> Folded(g, records, s)]
<1> DEFINE Solves(g, m) == g = [s \in SUBSET (1..m) |-> Folded(g, records, s)]
           N == {m \in Nat : \E g : Solves(g, m)}
<1>1. 0 \in N
  <2> DEFINE g == [s \in SUBSET (1..0) |-> Unscanned]
  <2>1. \A s \in SUBSET (1..0) : Folded(g, records, s) = Unscanned
    BY DEF Folded
  <2>2. Solves(g, 0)
    BY <2>1
  <2> HIDE DEF g, Solves
  <2> QED
    BY <2>2
<1>2. ASSUME NEW m \in Nat, m \in N PROVE m + 1 \in N
  <2>1. PICK g : Solves(g, m)
    BY <1>2
  <2> DEFINE h == [s \in SUBSET (1..m + 1) |-> IF m + 1 \in s THEN Folded(g, records, s) ELSE g[s]]
  <2>2. ASSUME NEW s \in SUBSET (1..m + 1) PROVE h[s] = Folded(h, records, s)
    <3>1. CASE m + 1 \in s
      <4>1. h[s] = Folded(g, records, s)
        BY <3>1
      <4>2. h[s \ {Max(s)}] = g[s \ {Max(s)}]
        <5>1. s \ {Max(s)} \in SUBSET (1..m) /\ m + 1 \notin s \ {Max(s)}
          BY <3>1, LastIsMax
        <5>2. s \ {Max(s)} \in SUBSET (1..m + 1)
          OBVIOUS
        <5> QED
          BY <5>1, <5>2
      <4> QED
        BY <4>1, <4>2 DEF Folded
    <3>2. CASE m + 1 \notin s
      <4>0. s \in SUBSET (1..m)
        BY <3>2
      <4>1. h[s] = g[s] /\ g[s] = Folded(g, records, s)
        BY <3>2, <4>0, <2>1
      <4>2. h[s \ {Max(s)}] = g[s \ {Max(s)}]
        BY <3>2
      <4> QED
        BY <4>1, <4>2 DEF Folded
    <3> QED
      BY <3>1, <3>2
  <2>3. Solves(h, m + 1)
    <3>1. h = [s \in SUBSET (1..m + 1) |-> h[s]]
      OBVIOUS
    <3> HIDE DEF h
    <3> QED
      BY <3>1, <2>2
  <2> HIDE DEF h, Solves
  <2> QED
    BY <2>3
<1>3. Nat \subseteq N
  <2> HIDE DEF N
  <2> QED
    BY <1>1, <1>2, NatSetInduction
<1>4. n \in N
  BY <1>3
<1> QED
  BY <1>4

\* What the recursion says of a prefix depends on nothing else.
LEMMA PrefixStep ==
  ASSUME NEW records, NEW n \in Nat, DOMAIN records = 1..n
  PROVE  /\ Iter(records)[1..0] = Unscanned
         /\ \A m \in Nat : m + 1 <= n =>
              Iter(records)[1..m + 1] = ScannedRecord(Iter(records)[1..m], records[m + 1])
<1>1. Iter(records) = [s \in SUBSET (1..n) |-> Folded(Iter(records), records, s)]
  BY IterExists DEF Iter
<1>2. 1..0 = {} /\ 1..0 \in SUBSET (1..n)
  OBVIOUS
<1>3. Iter(records)[1..0] = Unscanned
  BY <1>1, <1>2 DEF Folded
<1>4. ASSUME NEW m \in Nat, m + 1 <= n
      PROVE  Iter(records)[1..m + 1] = ScannedRecord(Iter(records)[1..m], records[m + 1])
  <2> DEFINE s == 1..m + 1
  <2>1. s \in SUBSET (1..n) /\ m + 1 \in s /\ s # {}
    <3>1. s \in SUBSET (1..n)
      BY <1>4
    <3>2. m + 1 \in s
      OBVIOUS
    <3> HIDE DEF s
    <3> QED
      BY <3>1, <3>2
  <2>2. Max(s) = m + 1
    <3> HIDE DEF s
    <3>1. s \in SUBSET (1..m + 1)
      BY DEF s
    <3> QED
      BY <2>1, <3>1, LastIsMax
  <2>3. s \ {m + 1} = 1..m
    OBVIOUS
  <2>4. Iter(records)[s] = Folded(Iter(records), records, s)
    BY <1>1, <2>1
  <2> QED
    BY <2>1, <2>2, <2>3, <2>4 DEF Folded
<1> QED
  BY <1>3, <1>4

Begins(r1, n1, r2, n2) ==
  /\ n1 \in Nat /\ n2 \in Nat /\ n1 <= n2
  /\ DOMAIN r1 = 1..n1 /\ DOMAIN r2 = 1..n2
  /\ \A i \in 1..n1 : r1[i] = r2[i]

\* Two sequences that begin alike are scanned alike so far.
LEMMA PrefixAgrees ==
  ASSUME NEW r1, NEW r2, NEW n1, NEW n2, Begins(r1, n1, r2, n2)
  PROVE  Iter(r1)[1..n1] = Iter(r2)[1..n1]
<1> USE DEF Begins
<1> DEFINE N == {m \in Nat : m <= n1 => Iter(r1)[1..m] = Iter(r2)[1..m]}
<1>1. 0 \in N
  BY PrefixStep
<1>2. ASSUME NEW m \in Nat, m \in N PROVE m + 1 \in N
  <2>1. ASSUME m + 1 <= n1 PROVE Iter(r1)[1..m + 1] = Iter(r2)[1..m + 1]
    <3>1. Iter(r1)[1..m] = Iter(r2)[1..m] /\ r1[m + 1] = r2[m + 1] /\ m + 1 <= n2
      BY <1>2, <2>1
    <3>2. Iter(r1)[1..m + 1] = ScannedRecord(Iter(r1)[1..m], r1[m + 1])
      BY <2>1, PrefixStep
    <3>3. Iter(r2)[1..m + 1] = ScannedRecord(Iter(r2)[1..m], r2[m + 1])
      BY <3>1, PrefixStep
    <3> QED
      BY <3>1, <3>2, <3>3
  <2> QED
    BY <2>1
<1>3. Nat \subseteq N
  <2> HIDE DEF N
  <2> QED
    BY <1>1, <1>2, NatSetInduction
<1> QED
  BY <1>3

\* The scan of one record more is the scan of that record.
LEMMA ScanAppend ==
  ASSUME NEW records, IsSeq(records), NEW r
  PROVE  Scan(Append(records, r)) = ScannedRecord(Scan(records), r)
<1> DEFINE longer == Append(records, r)
           n == Len(records)
<1>1. /\ n \in Nat /\ DOMAIN records = 1..n /\ DOMAIN longer = 1..n + 1 /\ longer[n + 1] = r
      /\ \A i \in 1..n : records[i] = longer[i]
  <2>1. n \in Nat /\ DOMAIN records = 1..n
    BY IsSeqLen
  <2>2. /\ IsSeq(longer) /\ Len(longer) = n + 1 /\ longer[n + 1] = r
        /\ \A i \in 1..n : longer[i] = records[i]
    BY AppendSeq
  <2> HIDE DEF longer, n
  <2>3. DOMAIN longer = 1..Len(longer)
    BY <2>2, IsSeqLen
  <2> QED
    BY <2>1, <2>2, <2>3
<1> HIDE DEF longer, n
<1>2. Iter(records)[1..n] = Iter(longer)[1..n]
  <2> DEFINE k == n + 1
  <2>1. k \in Nat /\ n <= k /\ DOMAIN longer = 1..k
    BY <1>1
  <2> HIDE DEF k
  <2>2. Begins(records, n, longer, k)
    <3>1. \A i \in 1..n : i \in 1..k
      BY <1>1, <2>1
    <3> QED
      BY <1>1, <2>1, <3>1 DEF Begins
  <2> QED
    BY <2>2, PrefixAgrees
<1>3. Iter(longer)[1..n + 1] = ScannedRecord(Iter(longer)[1..n], r)
  BY <1>1, PrefixStep
<1>4. Scan(longer) = Iter(longer)[DOMAIN longer] /\ Scan(records) = Iter(records)[DOMAIN records]
  BY ScanIsIter
<1> QED
  BY <1>1, <1>2, <1>3, <1>4 DEF longer

LEMMA ScanNothing == Scan(<<>>) = Unscanned
<1>1. DOMAIN <<>> = 1..0
  OBVIOUS
<1>2. Iter(<<>>)[1..0] = Unscanned
  BY <1>1, PrefixStep
<1> QED
  BY <1>1, <1>2, ScanIsIter

\* A scan has the three parts and no other, so nothing is left of one that is
\* closed.
Parts == {"pending", "awaiting", "open"}

LEMMA ScannedParts ==
  ASSUME NEW s, DOMAIN s = Parts, s = [k \in Parts |-> s[k]], NEW r
  PROVE  DOMAIN ScannedRecord(s, r) = Parts
         /\ ScannedRecord(s, r) = [k \in Parts |-> ScannedRecord(s, r)[k]]
  BY DEF ScannedRecord, Parts, Unscanned

LEMMA ClosedIsUnscanned ==
  ASSUME NEW s, DOMAIN s = Parts, s = [k \in Parts |-> s[k]], Closed(s)
  PROVE  s = Unscanned
  BY DEF Closed, Parts, Unscanned

LEMMA SubSeqAppend ==
  ASSUME NEW h, IsSeq(h), NEW p \in Nat, NEW q \in Nat, p <= q, q + 1 <= Len(h)
  PROVE  SubSeq(h, p + 1, q + 1) = Append(SubSeq(h, p + 1, q), h[q + 1])
<1> DEFINE s == SubSeq(h, p + 1, q)
           r == h[q + 1]
<1>1. PICK m \in Nat : m = q + 1
  OBVIOUS
<1>2. Len(h) \in Nat
  BY IsSeqLen
<1>3. p <= m /\ m <= Len(h) /\ q <= Len(h)
  BY <1>1, <1>2
<1>4. /\ IsSeq(SubSeq(h, p + 1, m)) /\ Len(SubSeq(h, p + 1, m)) = m - p
      /\ \A i \in 1..m - p : SubSeq(h, p + 1, m)[i] = h[p + i]
  BY <1>3, SubSeqSeq
<1>5. IsSeq(s) /\ Len(s) = q - p /\ \A i \in 1..q - p : s[i] = h[p + i]
  BY <1>3, SubSeqSeq
<1> HIDE DEF s, r
<1>6. /\ IsSeq(Append(s, r)) /\ Len(Append(s, r)) = q - p + 1
      /\ \A i \in 1..q - p : Append(s, r)[i] = s[i]
      /\ Append(s, r)[q - p + 1] = r
  BY <1>5, AppendSeq
<1>7. ASSUME NEW i \in 1..m - p PROVE SubSeq(h, p + 1, m)[i] = Append(s, r)[i]
  <2>1. i \in 1..q - p \/ i = q - p + 1
    BY <1>1
  <2>2. CASE i \in 1..q - p
    BY <2>2, <1>4, <1>5, <1>6
  <2>3. CASE i = q - p + 1
    <3>1. p + i = q + 1
      BY <2>3
    <3>2. SubSeq(h, p + 1, m)[i] = h[q + 1]
      BY <3>1, <1>4
    <3> QED
      BY <3>2, <2>3, <1>6 DEF r
  <2> QED
    BY <2>1, <2>2, <2>3
<1>8. Len(Append(s, r)) = m - p
  BY <1>1, <1>6
<1>9. SubSeq(h, p + 1, m) = Append(s, r)
  BY <1>4, <1>6, <1>7, <1>8, SameSeq
<1> QED
  BY <1>1, <1>9 DEF s, r

\* A scan that starts over where nothing is open finds what one of everything
\* finds.
LEMMA ScanGoesOn ==
  ASSUME NEW h, IsSeq(h), NEW p \in Nat, NEW q \in Nat, p <= q, q <= Len(h),
         Scan(SubSeq(h, 1, p)) = Unscanned
  PROVE  /\ Scan(SubSeq(h, 1, q)) = Scan(SubSeq(h, p + 1, q))
         /\ DOMAIN Scan(SubSeq(h, p + 1, q)) = Parts
         /\ Scan(SubSeq(h, p + 1, q)) = [k \in Parts |-> Scan(SubSeq(h, p + 1, q))[k]]
<1> DEFINE Whole(m) == Scan(SubSeq(h, 1, m))
           Rest(m) == Scan(SubSeq(h, p + 1, m))
           Good(m) == /\ Whole(m) = Rest(m) /\ DOMAIN Rest(m) = Parts
                      /\ Rest(m) = [k \in Parts |-> Rest(m)[k]]
           S == {n \in Nat : p + n <= Len(h) => Good(p + n)}
<1>0. Len(h) \in Nat
  BY IsSeqLen
<1>1. Good(p)
  <2>1. SubSeq(h, p + 1, p) = <<>>
    BY SubSeqEmpty
  <2>2. Rest(p) = Unscanned
    BY <2>1, ScanNothing
  <2>3. DOMAIN Unscanned = Parts /\ Unscanned = [k \in Parts |-> Unscanned[k]]
    BY DEF Unscanned, Parts
  <2> QED
    BY <2>2, <2>3
<1>2. ASSUME NEW m \in Nat, p <= m, m + 1 <= Len(h), Good(m) PROVE Good(m + 1)
  <2>1. SubSeq(h, 1, m + 1) = Append(SubSeq(h, 1, m), h[m + 1])
    <3>1. PICK z \in Nat : z = 0
      OBVIOUS
    <3>2. z <= m /\ m + 1 <= Len(h)
      BY <1>2, <3>1
    <3>3. SubSeq(h, z + 1, m + 1) = Append(SubSeq(h, z + 1, m), h[m + 1])
      BY <3>2, SubSeqAppend
    <3> QED
      BY <3>1, <3>3
  <2>2. SubSeq(h, p + 1, m + 1) = Append(SubSeq(h, p + 1, m), h[m + 1])
    BY <1>2, SubSeqAppend
  <2>3. IsSeq(SubSeq(h, 1, m)) /\ IsSeq(SubSeq(h, p + 1, m))
    <3>1. m <= Len(h)
      BY <1>2, <1>0
    <3>2. PICK z \in Nat : z = 0
      OBVIOUS
    <3>3. IsSeq(SubSeq(h, z + 1, m))
      BY <3>1, <3>2, SubSeqSeq
    <3>4. IsSeq(SubSeq(h, p + 1, m))
      BY <1>2, <3>1, SubSeqSeq
    <3> QED
      BY <3>2, <3>3, <3>4
  <2>4. Whole(m + 1) = ScannedRecord(Whole(m), h[m + 1])
    BY <2>1, <2>3, ScanAppend
  <2>5. Rest(m + 1) = ScannedRecord(Rest(m), h[m + 1])
    BY <2>2, <2>3, ScanAppend
  <2>6. Whole(m) = Rest(m) /\ DOMAIN Rest(m) = Parts /\ Rest(m) = [k \in Parts |-> Rest(m)[k]]
    BY <1>2
  <2> HIDE DEF Whole, Rest
  <2>7. /\ DOMAIN ScannedRecord(Rest(m), h[m + 1]) = Parts
        /\ ScannedRecord(Rest(m), h[m + 1]) = [k \in Parts |-> ScannedRecord(Rest(m), h[m + 1])[k]]
    BY <2>6, ScannedParts
  <2> QED
    BY <2>4, <2>5, <2>6, <2>7
<1> HIDE DEF Good
<1>3. Nat \subseteq S
  <2>1. 0 \in S
    BY <1>1
  <2>2. ASSUME NEW n \in Nat, n \in S PROVE n + 1 \in S
    <3>1. ASSUME p + (n + 1) <= Len(h) PROVE Good(p + (n + 1))
      <4>1. PICK m \in Nat : m = p + n
        OBVIOUS
      <4>2. p <= m /\ m + 1 <= Len(h) /\ p + n <= Len(h) /\ p + (n + 1) = m + 1
        BY <3>1, <4>1, <1>0
      <4>3. Good(m)
        BY <2>2, <4>1, <4>2
      <4>4. Good(m + 1)
        BY <1>2, <4>2, <4>3
      <4> QED
        BY <4>2, <4>4
    <3> QED
      BY <3>1
  <2> HIDE DEF S
  <2> QED
    BY <2>1, <2>2, NatSetInduction
<1>4. PICK n \in Nat : q = p + n
  <2>1. q - p \in Nat /\ q = p + (q - p)
    OBVIOUS
  <2> QED
    BY <2>1
<1>5. n \in S
  BY <1>3
<1>6. Good(q)
  BY <1>4, <1>5
<1> QED
  BY <1>6 DEF Good

LEMMA SubSeqGrows ==
  ASSUME NEW h, IsSeq(h), NEW r, NEW p \in Nat, NEW q \in Nat, p <= q, q <= Len(h)
  PROVE  SubSeq(Append(h, r), p + 1, q) = SubSeq(h, p + 1, q)
<1> DEFINE g == Append(h, r)
<1>1. /\ IsSeq(g) /\ Len(g) = Len(h) + 1 /\ Len(h) \in Nat
      /\ \A i \in 1..Len(h) : g[i] = h[i]
  BY AppendSeq, IsSeqLen
<1> HIDE DEF g
<1>2. /\ IsSeq(SubSeq(g, p + 1, q)) /\ Len(SubSeq(g, p + 1, q)) = q - p
      /\ \A i \in 1..q - p : SubSeq(g, p + 1, q)[i] = g[p + i]
  <2>1. q <= Len(g)
    BY <1>1
  <2> QED
    BY <2>1, <1>1, SubSeqSeq, SMTT(30)
<1>3. /\ IsSeq(SubSeq(h, p + 1, q)) /\ Len(SubSeq(h, p + 1, q)) = q - p
      /\ \A i \in 1..q - p : SubSeq(h, p + 1, q)[i] = h[p + i]
  BY SubSeqSeq
<1>4. \A i \in 1..q - p : p + i \in 1..Len(h)
  BY <1>1
<1>5. \A i \in 1..q - p : SubSeq(g, p + 1, q)[i] = SubSeq(h, p + 1, q)[i]
  BY <1>1, <1>2, <1>3, <1>4
<1>6. SubSeq(g, p + 1, q) = SubSeq(h, p + 1, q)
  BY <1>2, <1>3, <1>5, SameSeq
<1> QED
  BY <1>6 DEF g

-----------------------------------------------------------------------------
(* The archives: spans that follow one another.                            *)

\* Where an archive ends; the first begins at p.
End(archives, p, i) == IF i = 0 THEN p ELSE Name(archives[i])

Chain(h, archives, p) ==
  \A i \in 1..Len(archives) :
    /\ End(archives, p, i) \in 1..Len(h) /\ End(archives, p, i - 1) < End(archives, p, i)
    /\ archives[i] = Span(h, End(archives, p, i - 1), End(archives, p, i))

Ends(archives, p) == [i \in 0..Len(archives) |-> End(archives, p, i)]

\* Where the archives end: in order, after p, each at its name.
LEMMA ChainEnds ==
  ASSUME NEW h, NEW A, NEW p \in Nat, IsSeq(h), IsSeq(A), Chain(h, A, p)
  PROVE  /\ Ends(A, p) \in [0..Len(A) -> Nat]
         /\ \A i \in 0..Len(A) : End(A, p, i) \in Nat /\ p <= End(A, p, i)
         /\ \A i \in 0..Len(A) : \A j \in 0..Len(A) : i < j => End(A, p, i) < End(A, p, j)
         /\ \A i \in 1..Len(A) : /\ End(A, p, i) = Name(A[i]) /\ Name(A[i]) <= Len(h)
                                 /\ Last(A[i]).hash = Name(A[i])
<1> DEFINE e == Ends(A, p)
           n == Len(A)
<1>1. n \in Nat /\ Len(h) \in Nat
  BY IsSeqLen
<1>2. End(A, p, 0) = p /\ \A i \in 1..n : End(A, p, i) = Name(A[i])
  BY <1>1 DEF End
<1>3. \A i \in 1..n : End(A, p, i) \in Nat /\ End(A, p, i) <= Len(h)
  BY <1>1 DEF Chain
<1>4. \A i \in 0..n : e[i] = End(A, p, i) /\ e[i] \in Nat
  <2>1. \A i \in 0..n : End(A, p, i) \in Nat
    <3>1. \A i \in 0..n : i = 0 \/ i \in 1..n
      BY <1>1
    <3> QED
      BY <1>2, <1>3, <3>1
  <2> QED
    BY <2>1 DEF Ends
<1>5. e \in [0..n -> Nat]
  BY <1>4 DEF Ends
<1>6. \A i \in 1..n : e[i - 1] + 1 <= e[i]
  <2>1. ASSUME NEW i \in 1..n PROVE e[i - 1] + 1 <= e[i]
    <3>1. End(A, p, i - 1) < End(A, p, i)
      BY DEF Chain
    <3>2. i - 1 \in 0..n /\ i \in 0..n
      BY <1>1
    <3>3. e[i - 1] = End(A, p, i - 1) /\ e[i - 1] \in Nat /\ e[i] = End(A, p, i) /\ e[i] \in Nat
      BY <3>2, <1>4
    <3> HIDE DEF e
    <3> QED
      BY <3>1, <3>3
  <2> QED
    BY <2>1
<1>7. \A i \in 0..n : \A j \in 0..n : i < j => e[i] + 1 <= e[j]
  <2>1. PICK d \in Nat : d = 1
    OBVIOUS
  <2>2. \A i \in 1..n : e[i - 1] + d <= e[i]
    BY <1>6, <2>1
  <2> HIDE DEF e, n
  <2>3. \A i \in 0..n : \A j \in 0..n : i < j => e[i] + d <= e[j]
    BY <1>1, <1>5, <2>2, Monotone
  <2> QED
    BY <2>1, <2>3
<1>8. ASSUME NEW i \in 0..n, NEW j \in 0..n, i < j PROVE End(A, p, i) < End(A, p, j)
  <2>1. /\ e[i] + 1 <= e[j] /\ e[i] = End(A, p, i) /\ e[i] \in Nat
        /\ e[j] = End(A, p, j) /\ e[j] \in Nat
    BY <1>4, <1>7, <1>8
  <2> HIDE DEF e
  <2> QED
    BY <2>1
<1>9. ASSUME NEW i \in 0..n PROVE End(A, p, i) \in Nat /\ p <= End(A, p, i)
  <2>1. End(A, p, i) \in Nat
    BY <1>4
  <2>2. CASE i = 0
    BY <1>2, <2>2
  <2>3. CASE i # 0
    <3>1. 0 \in 0..n /\ 0 < i
      BY <1>1, <2>3
    <3>2. p < End(A, p, i)
      BY <1>2, <1>8, <3>1
    <3> QED
      BY <2>1, <3>2
  <2> QED
    BY <2>1, <2>2, <2>3
<1>10. ASSUME NEW i \in 1..n PROVE Last(A[i]).hash = Name(A[i])
  <2>1. PICK a \in Nat, b \in Nat : a = End(A, p, i - 1) /\ b = End(A, p, i)
    <3>1. i - 1 \in 0..n /\ i \in 0..n
      BY <1>1
    <3> QED
      BY <3>1, <1>9
  <2>2. a < b /\ A[i] = Span(h, a, b)
    BY <2>1 DEF Chain
  <2>3. Last(Span(h, a, b)).hash = b /\ Name(Span(h, a, b)) = b
    BY <2>2, SpanName
  <2> QED
    BY <2>2, <2>3
<1> QED
  BY <1>2, <1>3, <1>5, <1>8, <1>9, <1>10

\* What the first n archives hold.
LEMMA ChainPrefix ==
  ASSUME NEW h, NEW A, NEW p \in Nat, IsSeq(h), IsSeq(A), Chain(h, A, p), NEW n \in 1..Len(A)
  PROVE  Prefix(A, n) = Span(h, p, End(A, p, n))
<1> DEFINE ss == SubSeq(A, 1, n)
           e == [i \in 0..n |-> End(A, p, i)]
<1>1. Len(A) \in Nat /\ n \in Nat \ {0} /\ n <= Len(A)
  BY IsSeqLen
<1>2. Len(ss) = n /\ \A i \in 1..n : ss[i] = A[i]
  <2>1. PICK z \in Nat : z = 0
    OBVIOUS
  <2>2. z <= n /\ n \in Nat
    BY <1>1, <2>1
  <2>3. Len(SubSeq(A, z + 1, n)) = n - z /\ \A i \in 1..n - z : SubSeq(A, z + 1, n)[i] = A[z + i]
    BY <1>1, <2>2, SubSeqSeq
  <2> QED
    BY <2>1, <2>3, <1>1
<1>3. \A i \in 0..n : End(A, p, i) \in Nat
  BY <1>1, ChainEnds
<1>4. e \in [0..n -> Nat]
  BY <1>3
<1>5. ASSUME NEW i \in 1..n PROVE e[i - 1] <= e[i] /\ ss[i] = Span(h, e[i - 1], e[i])
  <2>1. i \in 1..Len(A) /\ i - 1 \in 0..n /\ i \in 0..n
    BY <1>1
  <2>2. e[i - 1] = End(A, p, i - 1) /\ e[i] = End(A, p, i)
    BY <2>1
  <2>3. End(A, p, i - 1) < End(A, p, i) /\ A[i] = Span(h, End(A, p, i - 1), End(A, p, i))
    BY <2>1 DEF Chain
  <2>4. End(A, p, i - 1) \in Nat /\ End(A, p, i) \in Nat
    BY <2>1, <1>3
  <2> HIDE DEF e, ss
  <2> QED
    BY <2>2, <2>3, <2>4, <1>2
<1>6. e[0] = p /\ e[n] = End(A, p, n)
  BY <1>1 DEF End
<1> HIDE DEF e, ss
<1>7. FlattenSeq(ss) = Span(h, e[0], e[n])
  BY <1>1, <1>2, <1>4, <1>5, JoinedSpans, ZenonT(60)
<1> QED
  BY <1>6, <1>7 DEF Prefix, ss

\* What the archives and the active file hold.
LEMMA ChainJoined ==
  ASSUME NEW h, NEW A, NEW p \in Nat, IsSeq(h), IsSeq(A), Chain(h, A, p),
         NEW q \in Nat, End(A, p, Len(A)) <= q
  PROVE  FlattenSeq(Append(A, Span(h, End(A, p, Len(A)), q))) = Span(h, p, q) /\ p <= q
<1> DEFINE n == Len(A)
           top == End(A, p, n)
           ss == Append(A, Span(h, top, q))
<1>0. n \in Nat
  BY IsSeqLen
<1>1. PICK m \in Nat \ {0} : m = n + 1
  BY <1>0
<1> DEFINE e == [i \in 0..m |-> IF i = m THEN q ELSE End(A, p, i)]
<1>2. \A i \in 0..n : End(A, p, i) \in Nat /\ p <= End(A, p, i)
  BY ChainEnds
<1>3. Len(ss) = m /\ ss[m] = Span(h, top, q) /\ \A i \in 1..n : ss[i] = A[i]
  BY <1>1, AppendSeq
<1>4. e \in [0..m -> Nat]
  <2>1. \A i \in 0..m : i # m => i \in 0..n
    BY <1>0, <1>1
  <2> QED
    BY <2>1, <1>2
<1>5. e[m] = q /\ \A i \in 0..n : e[i] = End(A, p, i)
  <2>1. m \in 0..m /\ \A i \in 0..n : i \in 0..m /\ i # m
    BY <1>0, <1>1
  <2> QED
    BY <2>1
<1>6. ASSUME NEW i \in 1..m PROVE e[i - 1] <= e[i] /\ ss[i] = Span(h, e[i - 1], e[i])
  <2>1. CASE i \in 1..n
    <3>1. i - 1 \in 0..n /\ i \in 0..n
      BY <1>0, <2>1
    <3>2. e[i - 1] = End(A, p, i - 1) /\ e[i] = End(A, p, i)
      BY <3>1, <1>5
    <3>3. End(A, p, i - 1) < End(A, p, i) /\ A[i] = Span(h, End(A, p, i - 1), End(A, p, i))
      BY <2>1 DEF Chain
    <3>4. End(A, p, i - 1) \in Nat /\ End(A, p, i) \in Nat
      BY <3>1, <1>2
    <3>5. ss[i] = A[i]
      BY <2>1, <1>3
    <3> HIDE DEF e, ss
    <3> QED
      BY <3>2, <3>3, <3>4, <3>5
  <2>2. CASE i = m
    <3>1. i - 1 = n /\ n \in 0..n
      BY <1>0, <1>1, <2>2
    <3>2. e[i - 1] = top /\ e[i] = q
      BY <3>1, <2>2, <1>5
    <3>3. ss[i] = Span(h, top, q)
      BY <2>2, <1>3
    <3>4. top <= q
      OBVIOUS
    <3> HIDE DEF e, ss, top
    <3> QED
      BY <3>2, <3>3, <3>4
  <2>3. i \in 1..n \/ i = m
    BY <1>0, <1>1
  <2> QED
    BY <2>1, <2>2, <2>3
<1>7. e[0] = p
  <2>1. 0 \in 0..n
    BY <1>0
  <2> QED
    BY <2>1, <1>5 DEF End
<1>8. p <= q
  <2>1. p <= top /\ top \in Nat
    BY <1>0, <1>2
  <2> HIDE DEF top
  <2>2. top <= q
    BY DEF top
  <2> QED
    BY <2>1, <2>2
<1> HIDE DEF e, ss
<1>9. FlattenSeq(ss) = Span(h, e[0], e[m])
  BY <1>3, <1>4, <1>6, JoinedSpans, ZenonT(60)
<1> QED
  BY <1>5, <1>7, <1>8, <1>9 DEF ss

\* A file that is rotated.
LEMMA ChainAppend ==
  ASSUME NEW h, NEW A, NEW p \in Nat, IsSeq(h), IsSeq(A), Chain(h, A, p),
         NEW q \in Nat, End(A, p, Len(A)) < q, q <= Len(h)
  PROVE  LET B == Append(A, Span(h, End(A, p, Len(A)), q))
         IN  Chain(h, B, p) /\ End(B, p, Len(B)) = q /\ B # <<>> /\ IsSeq(B)
<1> DEFINE n == Len(A)
           top == End(A, p, n)
           B == Append(A, Span(h, top, q))
<1>0. n \in Nat /\ Len(h) \in Nat
  BY IsSeqLen
<1>1. IsSeq(B) /\ Len(B) = n + 1 /\ B[n + 1] = Span(h, top, q) /\ \A i \in 1..n : B[i] = A[i]
  BY AppendSeq
<1>2. top \in Nat /\ top < q
  BY <1>0, ChainEnds
<1>3. Name(Span(h, top, q)) = q
  <2> HIDE DEF top
  <2> QED
    BY <1>2, SpanName
<1> HIDE DEF B
<1>4. \A i \in 0..n : End(B, p, i) = End(A, p, i)
  <2>1. \A i \in 0..n : i = 0 \/ i \in 1..n
    BY <1>0
  <2> QED
    BY <2>1, <1>1 DEF End
<1>5. End(B, p, n + 1) = q
  <2>1. n + 1 # 0
    BY <1>0
  <2> QED
    BY <2>1, <1>1, <1>3 DEF End
<1>6. ASSUME NEW i \in 1..Len(B)
      PROVE  /\ End(B, p, i) \in 1..Len(h) /\ End(B, p, i - 1) < End(B, p, i)
             /\ B[i] = Span(h, End(B, p, i - 1), End(B, p, i))
  <2>1. CASE i \in 1..n
    <3>1. i - 1 \in 0..n /\ i \in 0..n
      BY <1>0, <2>1
    <3>2. End(B, p, i) = End(A, p, i) /\ End(B, p, i - 1) = End(A, p, i - 1) /\ B[i] = A[i]
      BY <3>1, <2>1, <1>1, <1>4
    <3> QED
      BY <3>2, <2>1 DEF Chain
  <2>2. CASE i = n + 1
    <3>1. i - 1 = n /\ n \in 0..n
      BY <1>0, <2>2
    <3>2. End(B, p, i) = q /\ End(B, p, i - 1) = top /\ B[i] = Span(h, top, q)
      BY <3>1, <2>2, <1>1, <1>4, <1>5
    <3>3. q \in 1..Len(h)
      BY <1>0, <1>2
    <3> HIDE DEF top
    <3> QED
      BY <3>2, <3>3, <1>2
  <2>3. i \in 1..n \/ i = n + 1
    BY <1>0, <1>1
  <2> QED
    BY <2>1, <2>2, <2>3
<1>7. B # <<>>
  BY <1>0, <1>1
<1> QED
  BY <1>1, <1>5, <1>6, <1>7 DEF Chain, B

\* The oldest archive is retired.
LEMMA ChainTail ==
  ASSUME NEW h, NEW A, NEW p \in Nat, IsSeq(h), IsSeq(A), Chain(h, A, p), A # <<>>
  PROVE  LET B == Tail(A)
             q == Name(Head(A))
         IN  /\ Chain(h, B, q) /\ IsSeq(B) /\ End(B, q, Len(B)) = End(A, p, Len(A))
             /\ q \in 1..Len(h) /\ p < q /\ q <= End(A, p, Len(A)) /\ Head(A) = A[1]
             /\ Len(B) = Len(A) - 1 /\ \A i \in 1..Len(B) : B[i] = A[i + 1] /\ i + 1 \in 1..Len(A)
<1> DEFINE n == Len(A)
           B == Tail(A)
           q == Name(Head(A))
<1>1. IsSeq(B) /\ Len(B) = n - 1 /\ n \in Nat \ {0} /\ \A i \in 1..n - 1 : B[i] = A[i + 1]
  BY TailSeq
<1>2. Head(A) = A[1]
  BY DEF IsSeq
<1> HIDE DEF B
<1>3. q = End(A, p, 1)
  BY <1>2 DEF End
<1>4. ASSUME NEW j \in 0..n - 1, NEW i \in 1..n, i = j + 1 PROVE End(B, q, j) = End(A, p, i)
  <2>1. CASE j = 0
    <3>1. i = 1
      BY <2>1, <1>4
    <3> QED
      BY <3>1, <2>1, <1>3 DEF End
  <2>2. CASE j # 0
    <3>1. j \in 1..n - 1 /\ i # 0
      BY <2>2, <1>1
    <3>2. B[j] = A[i]
      BY <3>1, <1>1, <1>4
    <3> QED
      BY <3>1, <3>2, <2>2 DEF End
  <2> QED
    BY <2>1, <2>2
<1>5. ASSUME NEW j \in 1..Len(B)
      PROVE  /\ End(B, q, j) \in 1..Len(h) /\ End(B, q, j - 1) < End(B, q, j)
             /\ B[j] = Span(h, End(B, q, j - 1), End(B, q, j))
  <2>1. PICK i \in 1..n : i = j + 1
    <3>1. j + 1 \in 1..n
      BY <1>1
    <3> QED
      BY <3>1
  <2>2. /\ i - 1 = j /\ j \in 1..n - 1 /\ j \in 0..n - 1 /\ j \in 1..n
        /\ j - 1 \in 0..n - 1 /\ j = (j - 1) + 1
    BY <2>1, <1>1
  <2>3. End(B, q, j) = End(A, p, i)
    BY <2>1, <2>2, <1>4
  <2>4. End(B, q, j - 1) = End(A, p, j)
    BY <2>2, <1>4
  <2>5. B[j] = A[i]
    BY <2>1, <2>2, <1>1
  <2>6. /\ End(A, p, i) \in 1..Len(h) /\ End(A, p, i - 1) < End(A, p, i)
        /\ A[i] = Span(h, End(A, p, i - 1), End(A, p, i))
    BY DEF Chain
  <2>7. End(A, p, i - 1) = End(A, p, j)
    BY <2>2
  <2> QED
    BY <2>3, <2>4, <2>5, <2>6, <2>7
<1>6. End(B, q, Len(B)) = End(A, p, Len(A))
  <2>1. n - 1 \in 0..n - 1 /\ n \in 1..n /\ n = (n - 1) + 1
    BY <1>1
  <2>2. End(B, q, n - 1) = End(A, p, n)
    BY <2>1, <1>4
  <2> QED
    BY <2>2, <1>1
<1>7. q \in 1..Len(h) /\ p < q
  <2>1. 1 \in 1..n /\ 1 - 1 = 0
    BY <1>1
  <2>2. End(A, p, 1) \in 1..Len(h) /\ End(A, p, 1 - 1) < End(A, p, 1)
    BY <2>1 DEF Chain
  <2> QED
    BY <2>1, <2>2, <1>3 DEF End
<1>8. q <= End(A, p, Len(A))
  <2>1. CASE n = 1
    <3>1. q = End(A, p, n) /\ Len(h) \in Nat
      BY <2>1, <1>3, IsSeqLen
    <3> QED
      BY <3>1, <1>7
  <2>2. CASE n # 1
    <3>1. 1 \in 0..n /\ n \in 0..n /\ 1 < n
      BY <2>2, <1>1
    <3>2. End(A, p, 1) < End(A, p, n) /\ End(A, p, 1) \in Nat /\ End(A, p, n) \in Nat
      BY <3>1, ChainEnds
    <3> QED
      BY <3>2, <1>3
  <2> QED
    BY <2>1, <2>2
<1>9. \A i \in 1..Len(B) : B[i] = A[i + 1] /\ i + 1 \in 1..Len(A)
  BY <1>1
<1> QED
  BY <1>1, <1>2, <1>5, <1>6, <1>7, <1>8, <1>9 DEF Chain, B

\* A record more changes no archive.
LEMMA ChainGrows ==
  ASSUME NEW h, NEW A, NEW p \in Nat, IsSeq(h), IsSeq(A), Chain(h, A, p), NEW r
  PROVE  Chain(Append(h, r), A, p)
<1> DEFINE g == Append(h, r)
<1>1. IsSeq(g) /\ Len(g) = Len(h) + 1 /\ Len(h) \in Nat /\ Len(A) \in Nat
  BY AppendSeq, IsSeqLen
<1>2. ASSUME NEW i \in 1..Len(A)
      PROVE  /\ End(A, p, i) \in 1..Len(g) /\ End(A, p, i - 1) < End(A, p, i)
             /\ A[i] = Span(g, End(A, p, i - 1), End(A, p, i))
  <2>1. /\ End(A, p, i) \in 1..Len(h) /\ End(A, p, i - 1) < End(A, p, i)
        /\ A[i] = Span(h, End(A, p, i - 1), End(A, p, i))
    BY DEF Chain
  <2>2. PICK a \in Nat, b \in Nat : a = End(A, p, i - 1) /\ b = End(A, p, i)
    <3>1. i - 1 \in 0..Len(A) /\ i \in 0..Len(A)
      BY <1>1
    <3> QED
      BY <3>1, ChainEnds
  <2>3. b <= Len(h)
    BY <2>1, <2>2, <1>1
  <2>4. Span(g, a, b) = Span(h, a, b)
    BY <2>3, SpanGrows
  <2>5. End(A, p, i) \in 1..Len(g)
    BY <2>1, <1>1
  <2> QED
    BY <2>1, <2>2, <2>4, <2>5
<1> QED
  BY <1>2 DEF Chain

-----------------------------------------------------------------------------
(* What a compaction picks.                                                *)

\* The greatest of some numbers up to n.
LEMMA MaxIn ==
  ASSUME NEW n \in Nat, NEW S \in SUBSET (0..n), S # {}
  PROVE  Max(S) \in S /\ \A y \in S : Max(S) >= y
<1> DEFINE Has(T) == \E x \in T : \A y \in T : x >= y
           N == {m \in Nat : \A T \in SUBSET (0..m) : T # {} => Has(T)}
<1>1. 0 \in N
  <2>1. ASSUME NEW T \in SUBSET (0..0), T # {} PROVE Has(T)
    <3>1. \A y \in T : y \in Nat /\ y = 0
      OBVIOUS
    <3>2. PICK x \in T : TRUE
      BY <2>1
    <3>3. \A y \in T : x >= y
      BY <3>1
    <3> QED
      BY <3>3
  <2> QED
    BY <2>1
<1>2. ASSUME NEW m \in Nat, m \in N PROVE m + 1 \in N
  <2>1. ASSUME NEW T \in SUBSET (0..m + 1), T # {} PROVE Has(T)
    <3>0. \A y \in T : y \in Nat /\ y <= m + 1
      OBVIOUS
    <3>1. CASE m + 1 \in T
      BY <3>0, <3>1
    <3>2. CASE m + 1 \notin T
      <4>1. \A y \in T : y \in 0..m
        <5>1. \A y \in T : y # m + 1
          BY <3>2
        <5> QED
          BY <3>0, <5>1
      <4>2. T \in SUBSET (0..m)
        BY <4>1
      <4> HIDE DEF Has
      <4> QED
        BY <4>2, <2>1, <1>2
    <3> QED
      BY <3>1, <3>2
  <2> HIDE DEF Has
  <2> QED
    BY <2>1
<1>3. n \in N
  <2> HIDE DEF N
  <2>1. Nat \subseteq N
    BY <1>1, <1>2, NatSetInduction
  <2> QED
    BY <2>1
<1>4. Has(S)
  <2> HIDE DEF Has
  <2> QED
    BY <1>3
<1> QED
  BY <1>4 DEF Max

\* Nothing is open at the end of the archives a compaction may replace.
LEMMA CompactablePrefix ==
  ASSUME NEW h, NEW A, NEW p \in Nat, IsSeq(h), IsSeq(A), Chain(h, A, p), p <= Len(h),
         Scan(SubSeq(h, 1, p)) = Unscanned
  PROVE  /\ Compactable(A) \in 0..Len(A)
         /\ Compactable(A) > 0 => Scan(SubSeq(h, 1, End(A, p, Compactable(A)))) = Unscanned
<1> DEFINE Can(n) == Closed(FoldLeft(ScannedRecord, Unscanned, Records(Prefix(A, n))))
           M == {0} \cup {n \in DOMAIN A : Can(n)}
           c == Compactable(A)
<1>1. DOMAIN A = 1..Len(A) /\ Len(A) \in Nat /\ Len(h) \in Nat
  BY IsSeqLen
<1>2. c \in M /\ M \in SUBSET (0..Len(A))
  <2>1. M \in SUBSET (0..Len(A)) /\ M # {}
    <3> HIDE DEF Can
    <3> QED
      BY <1>1
  <2>2. c = Max(M)
    BY DEF Compactable
  <2> HIDE DEF M, c
  <2>3. Max(M) \in M
    BY <1>1, <2>1, MaxIn
  <2> QED
    BY <2>1, <2>2, <2>3
<1>3. ASSUME c > 0 PROVE Scan(SubSeq(h, 1, End(A, p, c))) = Unscanned
  <2>1. c \in 1..Len(A) /\ Can(c)
    <3> HIDE DEF Can, c
    <3> QED
      BY <1>1, <1>2, <1>3
  <2> HIDE DEF c
  <2>2. PICK q \in Nat : q = End(A, p, c) /\ p <= q /\ q <= Len(h)
    <3>1. c \in 0..Len(A)
      BY <2>1
    <3>2. End(A, p, c) \in Nat /\ p <= End(A, p, c) /\ End(A, p, c) <= Len(h)
      BY <2>1, <3>1, ChainEnds
    <3> QED
      BY <3>2
  <2>3. Records(Prefix(A, c)) = SubSeq(h, p + 1, q)
    <3>1. Prefix(A, c) = Span(h, p, End(A, p, c))
      BY <2>1, ChainPrefix
    <3>2. Prefix(A, c) = Span(h, p, q)
      BY <2>2, <3>1
    <3>3. Records(Span(h, p, q)) = SubSeq(h, p + 1, q)
      BY <2>2, SpanRecords
    <3> QED
      BY <3>2, <3>3
  <2>4. Closed(Scan(SubSeq(h, p + 1, q)))
    BY <2>1, <2>3 DEF Scan
  <2>5. /\ Scan(SubSeq(h, 1, q)) = Scan(SubSeq(h, p + 1, q))
        /\ DOMAIN Scan(SubSeq(h, p + 1, q)) = Parts
        /\ Scan(SubSeq(h, p + 1, q)) = [k \in Parts |-> Scan(SubSeq(h, p + 1, q))[k]]
    BY <2>2, ScanGoesOn
  <2>6. Scan(SubSeq(h, p + 1, q)) = Unscanned
    BY <2>4, <2>5, ClosedIsUnscanned
  <2> QED
    BY <2>2, <2>5, <2>6
<1> QED
  BY <1>2, <1>3

\* Its sources are the archives up to the last of them.
LEMMA SourcesUpTo ==
  ASSUME NEW h, NEW A, NEW p \in Nat, IsSeq(h), IsSeq(A), Chain(h, A, p), NEW n \in 1..Len(A)
  PROVE  LET S == {Name(a) : a \in ToSet(SubSeq(A, 1, n))}
         IN  /\ Max(S) = End(A, p, n)
             /\ \A i \in 1..Len(A) : Name(A[i]) \in S <=> Name(A[i]) <= End(A, p, n)
<1> DEFINE S == {Name(a) : a \in ToSet(SubSeq(A, 1, n))}
<1>1. Len(A) \in Nat /\ n \in Nat /\ n <= Len(A)
  BY IsSeqLen
<1>2. /\ \A i \in 1..Len(A) : Name(A[i]) = End(A, p, i) /\ End(A, p, i) \in Nat
      /\ \A i \in 1..Len(A) : \A j \in 1..Len(A) : i < j => End(A, p, i) < End(A, p, j)
  <2>1. \A i \in 1..Len(A) : i \in 0..Len(A)
    OBVIOUS
  <2> QED
    BY <2>1, ChainEnds
<1>3. S = {Name(A[i]) : i \in 1..n}
  <2>1. PICK z \in Nat : z = 0
    OBVIOUS
  <2>2. z <= n
    BY <1>1, <2>1
  <2>3. /\ IsSeq(SubSeq(A, z + 1, n)) /\ Len(SubSeq(A, z + 1, n)) = n - z
        /\ \A i \in 1..n - z : SubSeq(A, z + 1, n)[i] = A[z + i]
    BY <1>1, <2>2, SubSeqSeq
  <2> DEFINE B == SubSeq(A, 1, n)
  <2>4. IsSeq(B) /\ Len(B) = n /\ \A i \in 1..n : B[i] = A[i]
    BY <1>1, <2>1, <2>3
  <2> HIDE DEF B
  <2>5. DOMAIN B = 1..n
    BY <2>4, IsSeqLen
  <2>6. ToSet(B) = {A[i] : i \in 1..n}
    BY <2>4, <2>5 DEF ToSet
  <2> QED
    BY <2>6 DEF B
<1>4. ASSUME NEW i \in 1..Len(A) PROVE Name(A[i]) \in S <=> Name(A[i]) <= End(A, p, n)
  <2> HIDE DEF S
  <2>1. ASSUME i <= n PROVE Name(A[i]) \in S /\ Name(A[i]) <= End(A, p, n)
    <3>1. i \in 1..n
      BY <2>1, <1>1
    <3>2. i = n \/ i < n
      BY <2>1, <1>1
    <3> QED
      BY <3>1, <3>2, <1>1, <1>2, <1>3
  <2>2. ASSUME ~(i <= n) PROVE Name(A[i]) \notin S /\ ~(Name(A[i]) <= End(A, p, n))
    <3>1. n < i
      BY <2>2, <1>1
    <3>2. ASSUME NEW j \in 1..n PROVE Name(A[j]) # Name(A[i])
      <4>1. j \in 1..Len(A) /\ j < i
        BY <3>1, <1>1
      <4> QED
        BY <4>1, <1>2
    <3>3. End(A, p, n) < End(A, p, i)
      BY <3>1, <1>2
    <3> QED
      BY <3>2, <3>3, <1>2, <1>3
  <2> QED
    BY <2>1, <2>2
<1>5. Max(S) = End(A, p, n)
  <2>1. \A x \in S : x \in Nat /\ x <= End(A, p, n)
    <3>1. ASSUME NEW j \in 1..n PROVE Name(A[j]) \in Nat /\ Name(A[j]) <= End(A, p, n)
      <4>1. j \in 1..Len(A) /\ (j = n \/ j < n)
        BY <1>1
      <4> QED
        BY <4>1, <1>2
    <3> QED
      BY <3>1, <1>3
  <2>2. End(A, p, n) \in S
    <3>1. n \in 1..n
      BY <1>1
    <3> QED
      BY <3>1, <1>2, <1>3
  <2> HIDE DEF S
  <2>3. Max(S) \in S /\ \A y \in S : Max(S) >= y
    BY <2>1, <2>2 DEF Max
  <2>4. Max(S) \in Nat /\ Max(S) <= End(A, p, n) /\ Max(S) >= End(A, p, n) /\ End(A, p, n) \in Nat
    BY <2>1, <2>2, <2>3
  <2>5. PICK x \in Nat : x = Max(S)
    BY <2>4
  <2> QED
    BY <2>4, <2>5
<1> QED
  BY <1>4, <1>5

-----------------------------------------------------------------------------
(* The inductive invariant.                                                *)

Count == Len(history)
Top(p) == End(disk.archives, p, Len(disk.archives))

\* Enough of a type: what the steps do to records and sequences is defined.
Shapes ==
  /\ DOMAIN disk = {"active", "rotating", "archives", "manifest", "marker", "checkpoints",
                    "catalog", "torn"}
  /\ DOMAIN disk.marker = {"phase", "checkpoint", "sources"}
  /\ DOMAIN run = {"status", "at", "seq", "hash", "built"}
  /\ IsSeq(history) /\ IsSeq(disk.archives) /\ IsSeq(disk.checkpoints)

\* The files hold the records after the first p, in order and each once, and
\* the manifest names the latest archive whenever something was written behind
\* it.
Tiled(p) ==
  /\ p \in 0..Count /\ (p < Count \/ Count = 0)
  /\ Chain(history, disk.archives, p) /\ Top(p) <= Count
  /\ \/ disk.rotating = <<>> /\ disk.active = Span(history, Top(p), Count)
     \/ disk.active = <<>> /\ disk.rotating = Span(history, Top(p), Count) /\ Top(p) < Count
  /\ disk.archives # <<>> /\ Top(p) < Count => disk.manifest = Top(p)

\* Nothing is open after the first q records.
Covered(q) == q \in 0..Count /\ Scan(SubSeq(history, 1, q)) = Unscanned

\* The sources that are left are the archives up to the checkpoint at k.
Marked(p, k) ==
  /\ k \in 1..Count
  /\ disk.active # <<>>
  /\ k = p \/ \E n \in 1..Len(disk.archives) : k = Name(disk.archives[n])
  /\ \A i \in 1..Len(disk.archives) :
       Name(disk.archives[i]) \in disk.marker.sources <=> Name(disk.archives[i]) <= k
  /\ Covered(k)

\* The archives follow the latest checkpoint, and the catalog has it.
Unpublished(p) == Latest(disk).last = p /\ (disk.checkpoints # <<>> => disk.catalog = p)
Prepared(p) ==
  disk.marker.phase = "prepared" /\ Unpublished(p) /\ p < disk.marker.checkpoint

Checkpointed(p) ==
  /\ Covered(Latest(disk).last)
  /\ \A i \in 1..Len(disk.checkpoints) :
       LET c == disk.checkpoints[i]
       IN  c.last \in Nat /\ c.hash = c.last /\ c.last <= Latest(disk).last
  /\ IF disk.marker = NoMarker THEN Unpublished(p)
     ELSE /\ Marked(p, disk.marker.checkpoint)
          /\ Prepared(p) \/ Latest(disk).last = disk.marker.checkpoint

\* A file is only rotated when there is room for its anchor and the record.
Limited(p) ==
  /\ Count - p <= MaxTotal + 1
  /\ disk.active = <<>> /\ Count > 0 => Count - p < MaxTotal

\* Where the process is in a rotation or a compaction.
Steady == disk.marker = NoMarker /\ disk.rotating = <<>> /\ (disk.active # <<>> \/ Count = 0)
Rotated == /\ disk.marker = NoMarker /\ disk.active = <<>> /\ disk.rotating = <<>>
           /\ disk.archives # <<>>
Compacting == disk.marker # NoMarker /\ Latest(disk).last = disk.marker.checkpoint
Built == run.built = [seq |-> Count + 1, prev |-> Count, hash |-> Count + 1,
                      record |-> run.built.record]

Located(p) ==
  /\ run.status = "up" => run.seq = Count /\ run.hash = Count
  /\ At("idle") => Steady
  /\ At("write") => Steady /\ Built /\ Count - p <= MaxTotal
  /\ At("rotate") => Steady /\ disk.active # <<>> /\ Count - p < MaxTotal
  /\ At("rotating") => disk.marker = NoMarker /\ disk.rotating # <<>>
  /\ At("archived") => Rotated
  /\ At("manifested") => Rotated /\ disk.manifest = Top(p)
  /\ At("compact") => Steady /\ Built /\ Compactable(disk.archives) > 0
  /\ At("prepared") => disk.marker # NoMarker /\ Prepared(p) /\ Built
  /\ At("checkpointed") \/ At("published") => Compacting /\ Built
  /\ At("cataloged") \/ At("retiring") \/ At("retired") =>
       Compacting /\ Built /\ disk.catalog = disk.marker.checkpoint
  /\ At("retired") => disk.marker.checkpoint = p
  /\ At("fold") => Steady /\ Built
  /\ Starting("anchor") => Rotated /\ disk.manifest = Top(p)
  /\ Starting("compaction") => disk.rotating = <<>> /\ (disk.active # <<>> \/ Count = 0)
  /\ Starting("sources") => Compacting /\ disk.catalog = disk.marker.checkpoint
  /\ Starting("load") => Steady
  /\ run.status = "unreadable" => disk.torn

ManifestNamed(p) == disk.archives # <<>> => disk.manifest = Top(p)

Good(p) == Tiled(p) /\ Checkpointed(p) /\ Limited(p) /\ Located(p)
JournalInv == Shapes /\ \E p \in 0..Count : Good(p)

\* What the files hold.
LEMMA Held ==
  ASSUME Shapes, NEW p, Tiled(p)
  PROVE  /\ p \in Nat /\ Count \in Nat /\ p <= Count /\ Top(p) \in Nat /\ p <= Top(p)
         /\ disk.rotating = <<>> => Lines(disk) = Span(history, p, Count)
         /\ Total(disk) = Count - p
         /\ disk.active = <<>> /\ disk.rotating = <<>> <=> Top(p) = Count
         /\ disk.archives = <<>> => Top(p) = p
<1>1. p \in Nat /\ Count \in Nat /\ p <= Count /\ Len(disk.archives) \in Nat
  BY IsSeqLen DEF Shapes, Tiled, Count
<1>2. IsSeq(history) /\ IsSeq(disk.archives) /\ Chain(history, disk.archives, p)
  BY DEF Shapes, Tiled
<1>3. Top(p) \in Nat /\ p <= Top(p)
  <2>1. Len(disk.archives) \in 0..Len(disk.archives)
    BY <1>1
  <2> QED
    BY <1>1, <1>2, <2>1, ChainEnds DEF Top
<1>4. ASSUME NEW q \in Nat, Top(p) <= q, disk.active = Span(history, Top(p), q)
      PROVE  Lines(disk) = Span(history, p, q) /\ Len(Lines(disk)) = q - p
  <2>1. Lines(disk) = FlattenSeq(Append(disk.archives, Span(history, Top(p), q)))
    BY <1>4 DEF Lines, Files
  <2>2. End(disk.archives, p, Len(disk.archives)) <= q
    BY <1>4 DEF Top
  <2>3. /\ FlattenSeq(Append(disk.archives, Span(history, Top(p), q))) = Span(history, p, q)
        /\ p <= q
    BY <1>1, <1>2, <2>2, ChainJoined DEF Top
  <2>4. Len(Span(history, p, q)) = q - p
    BY <1>1, <2>3, SpanSeq
  <2> QED
    BY <2>1, <2>3, <2>4
<1>5. Top(p) <= Count
  BY DEF Tiled
<1>6. /\ Span(history, Top(p), Top(p)) = <<>>
      /\ (Span(history, Top(p), Count) = <<>> <=> Top(p) = Count)
      /\ Len(Span(history, Top(p), Count)) = Count - Top(p)
  <2>1. PICK t \in Nat, n \in Nat : t = Top(p) /\ n = Count /\ t <= n
    BY <1>1, <1>3, <1>5
  <2>2. /\ Span(history, t, t) = <<>> /\ (Span(history, t, n) = <<>> <=> t = n)
        /\ Len(Span(history, t, n)) = n - t
    BY <2>1, SpanSeq
  <2> QED
    BY <2>1, <2>2
<1>7. CASE disk.rotating = <<>>
  <2>1. disk.active = Span(history, Top(p), Count)
    BY <1>6, <1>7 DEF Tiled
  <2>2. Lines(disk) = Span(history, p, Count) /\ Len(Lines(disk)) = Count - p
    BY <1>1, <1>4, <1>5, <2>1
  <2>3. Total(disk) = Count - p
    BY <1>1, <1>7, <2>2 DEF Total
  <2> QED
    BY <1>1, <1>3, <1>6, <1>7, <2>1, <2>2, <2>3 DEF Top, End
<1>8. CASE disk.rotating # <<>>
  <2>1. disk.active = <<>> /\ disk.rotating = Span(history, Top(p), Count) /\ Top(p) < Count
    BY <1>8 DEF Tiled
  <2>2. Len(Lines(disk)) = Top(p) - p
    BY <1>3, <1>4, <1>6, <2>1
  <2>3. Total(disk) = Count - p
    BY <1>1, <1>3, <1>6, <2>1, <2>2 DEF Total
  <2> QED
    BY <1>1, <1>3, <1>8, <2>1, <2>3 DEF Top, End
<1> QED
  BY <1>7, <1>8

\* An empty directory.
LEMMA InvInit == Init => JournalInv
<1> SUFFICES ASSUME Init PROVE JournalInv
  OBVIOUS
<1>1. IsSeq(<<>>) /\ Len(<<>>) = 0
  <2>1. <<>> \in Seq({})
    OBVIOUS
  <2> QED
    BY <2>1, SeqIsSeq
<1>2. /\ Count = 0 /\ history = <<>> /\ disk.archives = <<>> /\ disk.active = <<>>
      /\ disk.rotating = <<>>
      /\ disk.checkpoints = <<>> /\ disk.marker = NoMarker
  BY <1>1 DEF Init, Count
<1>3. Shapes
  BY <1>1 DEF Init, Shapes, NoMarker
<1>4. Top(0) = 0
  BY <1>1, <1>2 DEF Top, End
<1>5. Tiled(0)
  <2>1. Span(history, 0, 0) = <<>>
    <3>1. \A z \in Nat : Span(history, z, z) = <<>>
      BY SpanSeq
    <3> QED
      BY <3>1
  <2>2. Chain(history, disk.archives, 0)
    BY <1>1, <1>2 DEF Chain
  <2> QED
    BY <1>2, <1>4, <2>1, <2>2 DEF Tiled
<1>6. Covered(0)
  <2>1. SubSeq(history, 1, 0) = <<>>
    BY SubSeqEmpty
  <2>2. Scan(SubSeq(history, 1, 0)) = Unscanned
    BY <2>1, ScanNothing
  <2>3. 0 \in 0..Count
    BY <1>2
  <2> QED
    BY <2>2, <2>3 DEF Covered
<1>7. Latest(disk) = NoCheckpoint
  BY <1>2 DEF Latest
<1>8. Checkpointed(0)
  BY <1>1, <1>2, <1>6, <1>7 DEF Checkpointed, Unpublished, NoCheckpoint
<1>9. Limited(0)
  BY <1>2, JournalAssumption DEF Limited
<1>10. Located(0)
  BY DEF Init, Located, At, Starting
<1> QED
  BY <1>2, <1>3, <1>5, <1>8, <1>9, <1>10 DEF JournalInv, Good

-----------------------------------------------------------------------------
(* Steps that leave the files as they are.                                 *)

\* Nothing on the disk changes.
LEMMA FilesUntouched ==
  ASSUME NEW p, Good(p), disk' = disk, history' = history
  PROVE  Tiled(p)' /\ Checkpointed(p)' /\ Limited(p)' /\ Count' = Count
  BY DEF Good, Tiled, Top, Count, Checkpointed, Covered, Marked, Unpublished, Prepared, Latest,
         Limited

\* Then only the place of the process has to be looked at.
LEMMA Untouched ==
  ASSUME Shapes, NEW p \in 0..Count, Good(p), disk' = disk, history' = history,
         DOMAIN run' = DOMAIN run, Located(p)'
  PROVE  JournalInv'
<1>1. Tiled(p)' /\ Checkpointed(p)' /\ Limited(p)' /\ Count' = Count
  BY FilesUntouched
<1>2. Shapes'
  BY DEF Shapes
<1> QED
  BY <1>1, <1>2 DEF JournalInv, Good

\* What the room for a record leads to.
LEMMA RoomLocated ==
  ASSUME Shapes, NEW p, Good(p), Steady, disk' = disk, history' = history,
         NEW r, run' = Proceeds(r, disk), DOMAIN r = DOMAIN run, r.status = "up",
         r.seq = Count, r.hash = Count,
         r.built = [seq |-> Count + 1, prev |-> Count, hash |-> Count + 1,
                    record |-> r.built.record]
  PROVE  Located(p)' /\ DOMAIN run' = DOMAIN run
<1>1. Total(disk) = Count - p /\ p \in Nat /\ Count \in Nat /\ p <= Count
  BY Held DEF Good
<1>2. Count' = Count /\ (Steady => Steady')
  BY DEF Count, Steady
<1>3. DOMAIN run' = DOMAIN run
  BY DEF Proceeds, Shapes
<1>4. CASE Room(disk) = "refused"
  <2>1. run'.status = "unhealthy"
    BY <1>4 DEF Proceeds, Shapes
  <2> QED
    BY <1>3, <2>1 DEF Located, At, Starting
<1>5. CASE Room(disk) # "refused"
  <2>1. /\ run'.status = "up" /\ run'.at = Room(disk) /\ run'.seq = Count /\ run'.hash = Count
        /\ run'.built = r.built
    BY <1>5 DEF Proceeds, Shapes
  <2>2. Room(disk) \in {"write", "rotate"} /\ Count - p < MaxTotal
        /\ (Room(disk) = "rotate" => disk.active # <<>>)
    BY <1>1, <1>5, JournalAssumption DEF Room
  <2>3. Built'
    BY <2>1, <1>2 DEF Built
  <2>4. Steady' /\ (Room(disk) = "rotate" => disk'.active # <<>>) /\ Count' - p < MaxTotal
        /\ Count' - p <= MaxTotal
    BY <1>1, <1>2, <2>2, JournalAssumption
  <2> QED
    BY <1>2, <1>3, <2>1, <2>2, <2>3, <2>4 DEF Located, At, Starting
<1> QED
  BY <1>3, <1>4, <1>5

LEMMA InvBeginAppend == JournalInv /\ BeginAppend => JournalInv'
<1> SUFFICES ASSUME JournalInv, BeginAppend PROVE JournalInv'
  OBVIOUS
<1>1. Shapes
  BY DEF JournalInv
<1>2. PICK p \in 0..Count : Good(p)
  BY DEF JournalInv
<1>3. At("idle") /\ Steady /\ run.seq = Count /\ run.hash = Count /\ run.status = "up"
  BY <1>2 DEF BeginAppend, Good, Located, At
<1> DEFINE r == [run EXCEPT !.built = Line(run.seq + 1, run.hash, Head(caller.script))]
<1>4. disk' = disk /\ history' = history
  BY DEF BeginAppend, Keeps
<1>5. /\ DOMAIN r = DOMAIN run /\ r.status = "up" /\ r.seq = Count /\ r.hash = Count
      /\ r.built = [seq |-> Count + 1, prev |-> Count, hash |-> Count + 1,
                    record |-> Head(caller.script)]
  BY <1>1, <1>3 DEF Shapes, Line, Count
<1>6. CASE Total(disk) + 1 > MaxTotal /\ Compactable(disk.archives) > 0
  <2>1. run' = [r EXCEPT !.at = "compact"]
    BY <1>6 DEF BeginAppend
  <2> HIDE DEF r
  <2>2. /\ DOMAIN run' = DOMAIN run /\ run'.status = "up" /\ run'.at = "compact"
        /\ run'.seq = Count /\ run'.hash = Count /\ run'.built = r.built
    BY <1>1, <1>5, <2>1 DEF Shapes
  <2>3. Count' = Count /\ Steady' /\ Compactable(disk'.archives) > 0
    BY <1>3, <1>4, <1>6 DEF Count, Steady
  <2>4. Built'
    BY <1>5, <2>2, <2>3 DEF Built
  <2>5. Located(p)'
    BY <2>2, <2>3, <2>4 DEF Located, At, Starting
  <2> QED
    BY <1>1, <1>2, <1>4, <2>2, <2>5, Untouched
<1>7. CASE ~(Total(disk) + 1 > MaxTotal /\ Compactable(disk.archives) > 0)
  <2>1. run' = Proceeds(r, disk)
    BY <1>7 DEF BeginAppend
  <2> HIDE DEF r
  <2>2. Located(p)' /\ DOMAIN run' = DOMAIN run
    <3>1. r.built = [seq |-> Count + 1, prev |-> Count, hash |-> Count + 1,
                     record |-> r.built.record]
      BY <1>5
    <3> QED
      BY <1>1, <1>2, <1>3, <1>4, <1>5, <2>1, <3>1, RoomLocated
  <2> QED
    BY <1>1, <1>2, <1>4, <2>2, Untouched
<1> QED
  BY <1>6, <1>7

-----------------------------------------------------------------------------
(* What the steps have in common.                                          *)

LEMMA Goes ==
  ASSUME Shapes, NEW step, GoesTo(step)
  PROVE  /\ DOMAIN run' = DOMAIN run /\ run'.at = step /\ run'.status = run.status
         /\ run'.seq = run.seq /\ run'.hash = run.hash /\ run'.built = run.built
  BY DEF Shapes, GoesTo

LEMMA Together ==
  ASSUME NEW p, Shapes', Tiled(p)', Checkpointed(p)', Limited(p)', Located(p)'
  PROVE  JournalInv'
  BY DEF JournalInv, Good, Tiled

\* The files of lines are not touched.
LEMMA LinesKept ==
  ASSUME NEW p, Tiled(p), Limited(p), history' = history, disk'.active = disk.active,
         disk'.rotating = disk.rotating, disk'.archives = disk.archives,
         disk'.manifest = disk.manifest
  PROVE  Tiled(p)' /\ Limited(p)' /\ Count' = Count /\ Top(p)' = Top(p)
  BY DEF Tiled, Limited, Count, Top

LEMMA CoveredKept == ASSUME NEW q, Covered(q), history' = history PROVE Covered(q)'
  BY DEF Covered, Count

\* What was closed stays closed, whatever is written behind it.
LEMMA CoveredGrows ==
  ASSUME NEW q, Covered(q), IsSeq(history), NEW r, history' = Append(history, r)
  PROVE  Covered(q)' /\ Count' = Count + 1
<1>1. Count \in Nat /\ Count' = Count + 1
  BY IsSeqLen, AppendSeq DEF Count
<1>2. q \in Nat /\ q <= Count /\ q \in 0..Count'
  BY <1>1 DEF Covered
<1>3. SubSeq(history', 1, q) = SubSeq(history, 1, q)
  <2>1. PICK z \in Nat : z = 0
    OBVIOUS
  <2>2. z <= q
    BY <1>2, <2>1
  <2>3. SubSeq(history', z + 1, q) = SubSeq(history, z + 1, q)
    BY <1>2, <2>2, SubSeqGrows DEF Count
  <2>4. z + 1 = 1
    BY <2>1
  <2> QED
    BY <2>3, <2>4
<1> QED
  BY <1>1, <1>2, <1>3 DEF Covered

\* The latest archive.
LEMMA LatestArchive ==
  ASSUME Shapes, NEW p, Tiled(p), disk.archives # <<>>
  PROVE  /\ Name(Last(disk.archives)) = Top(p) /\ Last(Last(disk.archives)).seq = Top(p)
         /\ Last(Last(disk.archives)).hash = Top(p) /\ Top(p) \in 1..Count
<1> DEFINE A == disk.archives
<1>1. IsSeq(A) /\ IsSeq(history) /\ p \in Nat /\ Chain(history, A, p)
  BY IsSeqLen DEF Shapes, Tiled, Count
<1>2. Len(A) \in Nat /\ Len(A) # 0 /\ Len(A) \in 1..Len(A)
  BY <1>1, IsSeqLen
<1>3. End(A, p, Len(A)) = Name(A[Len(A)]) /\ Last(A[Len(A)]).hash = Name(A[Len(A)])
  BY <1>1, <1>2, ChainEnds
<1>4. End(A, p, Len(A)) \in 1..Len(history)
  BY <1>1, <1>2 DEF Chain
<1> QED
  BY <1>3, <1>4 DEF Last, Name, Top, Count

\* A line is written: a record, or the anchor of a new file.
LEMMA Written ==
  ASSUME Shapes, NEW p, Tiled(p), Checkpointed(p), Limited(p), disk.marker = NoMarker,
         disk.rotating = <<>>, disk.archives # <<>> => disk.manifest = Top(p),
         Count - p <= MaxTotal, NEW r,
         disk' = [disk EXCEPT !.active = Append(@, LineAt(history', Count + 1))],
         history' = Append(history, r)
  PROVE  /\ Tiled(p)' /\ Checkpointed(p)' /\ Limited(p)' /\ Count' = Count + 1 /\ Steady'
         /\ disk'.active # <<>> /\ DOMAIN disk' = DOMAIN disk /\ IsSeq(history')
         /\ disk'.marker = disk.marker /\ disk'.archives = disk.archives
         /\ disk'.checkpoints = disk.checkpoints
<1>1. /\ p \in Nat /\ Count \in Nat /\ p <= Count
      /\ Top(p) \in Nat /\ p <= Top(p) /\ Top(p) <= Count
      /\ IsSeq(history) /\ IsSeq(disk.archives) /\ Chain(history, disk.archives, p)
  BY Held DEF Tiled, Shapes
<1>2. /\ disk'.rotating = <<>> /\ disk'.archives = disk.archives /\ disk'.manifest = disk.manifest
      /\ disk'.marker = NoMarker /\ disk'.checkpoints = disk.checkpoints
      /\ disk'.catalog = disk.catalog /\ DOMAIN disk' = DOMAIN disk
      /\ disk'.active = Append(disk.active, LineAt(history', Count + 1))
  BY DEF Shapes
<1>3. Count' = Count + 1 /\ IsSeq(history')
  BY <1>1, AppendSeq DEF Count
<1>4. disk.active = Span(history, Top(p), Count)
  <2>1. PICK t \in Nat, n \in Nat : t = Top(p) /\ n = Count /\ t <= n
    BY <1>1
  <2>2. t <= n
    BY <2>1
  <2>3. Span(history, t, n) = <<>> <=> t = n
    BY <2>2, SpanSeq
  <2> QED
    BY <2>1, <2>3 DEF Tiled
<1>5. disk'.active = Span(history', Top(p), Count')
  <2>1. PICK t \in Nat : t = Top(p) /\ t <= Count
    BY <1>1
  <2>2. Append(Span(history, t, Len(history)), LineAt(Append(history, r), Len(history) + 1))
          = Span(Append(history, r), t, Len(history) + 1)
    BY <1>1, <2>1, SpanAppend DEF Count
  <2> QED
    BY <1>2, <1>3, <1>4, <2>1, <2>2 DEF Count
<1>6. disk'.active # <<>>
  <2>1. PICK t \in Nat, n \in Nat : t = Top(p) /\ n = Count' /\ t < n
    BY <1>1, <1>3
  <2>2. Span(history', t, n) = <<>> <=> t = n
    BY <2>1, SpanSeq
  <2> QED
    BY <1>5, <2>1, <2>2
<1>7. Top(p)' = Top(p)
  BY <1>2 DEF Top
<1>8. Chain(history', disk'.archives, p)
  BY <1>1, <1>2, ChainGrows
<1>9. Tiled(p)'
  <2>1. p \in 0..Count' /\ p < Count' /\ Top(p)' <= Count'
    BY <1>1, <1>3, <1>7
  <2> QED
    BY <1>2, <1>5, <1>7, <1>8, <2>1 DEF Tiled
<1>10. Covered(Latest(disk).last)'
  <2>1. Covered(Latest(disk).last)
    BY DEF Checkpointed
  <2>2. Latest(disk') = Latest(disk)
    BY <1>2 DEF Latest
  <2>3. PICK q : q = Latest(disk).last
    OBVIOUS
  <2>4. Covered(q)'
    BY <1>1, <2>1, <2>3, CoveredGrows
  <2> QED
    BY <2>2, <2>3, <2>4 DEF Covered
<1>11. Checkpointed(p)'
  <2>1. Latest(disk') = Latest(disk)
    BY <1>2 DEF Latest
  <2>2. Unpublished(p)'
    BY <1>2, <2>1 DEF Checkpointed, Unpublished
  <2>3. \A i \in 1..Len(disk'.checkpoints) :
          LET c == disk'.checkpoints[i]
          IN  c.last \in Nat /\ c.hash = c.last /\ c.last <= Latest(disk').last
    BY <1>2, <2>1 DEF Checkpointed
  <2> QED
    BY <1>2, <1>10, <2>2, <2>3 DEF Checkpointed, NoMarker
<1>12. Limited(p)'
  <2>1. p \in Nat /\ Count \in Nat /\ MaxTotal \in Nat /\ Count - p <= MaxTotal
    BY <1>1, JournalAssumption
  <2>2. Count' - p <= MaxTotal + 1
    BY <1>3, <2>1
  <2> QED
    BY <1>6, <2>2 DEF Limited
<1>13. Steady'
  BY <1>2, <1>6 DEF Steady, NoMarker
<1> QED
  BY <1>2, <1>3, <1>6, <1>9, <1>11, <1>12, <1>13

\* Between rotations the active file has something, unless there is nothing at all.
LEMMA SteadyFiles ==
  ASSUME Shapes, NEW p, Tiled(p), Steady
  PROVE  ManifestNamed(p) /\ (disk.active # <<>> => Top(p) < Count)
         /\ (disk.archives # <<>> => disk.active # <<>>)
<1>1. Top(p) \in Nat /\ Count \in Nat /\ Top(p) <= Count /\ (disk.active = <<>> <=> Top(p) = Count)
  BY Held DEF Steady, Tiled
<1>2. disk.archives # <<>> => Top(p) \in 1..Count
  BY LatestArchive
<1>3. disk.active # <<>> => Top(p) < Count
  BY <1>1
<1>4. disk.archives # <<>> => disk.active # <<>>
  BY <1>2 DEF Steady
<1> QED
  BY <1>3, <1>4 DEF Tiled, ManifestNamed

\* The record of a process that is up to date is the line that follows.
LEMMA BuiltLine ==
  ASSUME Shapes, Built, history' = Append(history, run.built.record)
  PROVE  run.built = LineAt(history', Count + 1)
<1>1. history'[Count + 1] = run.built.record /\ Count \in Nat
  BY AppendSeq, IsSeqLen DEF Shapes, Count
<1>2. Count + 1 - 1 = Count
  BY <1>1
<1> QED
  BY <1>1, <1>2 DEF Built, LineAt

-----------------------------------------------------------------------------
(* One lemma for each step.                                                *)

\* A record is written.
LEMMA InvWriteRecord == JournalInv /\ WriteRecord => JournalInv'
<1> SUFFICES ASSUME JournalInv, WriteRecord PROVE JournalInv'
  OBVIOUS
<1>1. PICK p \in 0..Count : Good(p)
  BY DEF JournalInv
<1>2. Shapes /\ Steady /\ Built /\ Count - p <= MaxTotal /\ run.seq = Count /\ run.status = "up"
  BY <1>1 DEF JournalInv, Good, Located, WriteRecord, At
<1>3. ManifestNamed(p) /\ disk.marker = NoMarker /\ disk.rotating = <<>>
  BY <1>1, <1>2, SteadyFiles DEF Good, Steady
<1>4. /\ history' = Append(history, run.built.record)
      /\ disk' = [disk EXCEPT !.active = Append(@, LineAt(history', Count + 1))]
  BY <1>2, BuiltLine DEF WriteRecord
<1>5. /\ Tiled(p)' /\ Checkpointed(p)' /\ Limited(p)' /\ Count' = Count + 1 /\ Steady'
      /\ DOMAIN disk' = DOMAIN disk /\ IsSeq(history') /\ disk'.marker = disk.marker
      /\ disk'.archives = disk.archives /\ disk'.checkpoints = disk.checkpoints
  BY <1>1, <1>2, <1>3, <1>4, Written DEF Good, ManifestNamed
<1>6. /\ DOMAIN run' = DOMAIN run /\ run'.status = "up" /\ run'.at = "idle"
      /\ run'.seq = Count + 1 /\ run'.hash = Count + 1
  BY <1>2 DEF WriteRecord, Shapes, Built
<1>7. Shapes'
  BY <1>2, <1>5, <1>6 DEF Shapes
<1>8. Located(p)'
  BY <1>5, <1>6 DEF Located, At, Starting
<1> QED
  BY <1>5, <1>7, <1>8, Together

\* The active file is renamed, while there is room for its anchor and a record.
LEMMA InvRotateActive == JournalInv /\ RotateActive => JournalInv'
<1> SUFFICES ASSUME JournalInv, RotateActive PROVE JournalInv'
  OBVIOUS
<1>1. PICK p \in 0..Count : Good(p)
  BY DEF JournalInv
<1>2. /\ Shapes /\ Steady /\ disk.active # <<>> /\ Count - p < MaxTotal
      /\ run.seq = Count /\ run.hash = Count /\ run.status = "up"
  BY <1>1 DEF JournalInv, Good, Located, RotateActive, At
<1>3. /\ disk'.active = <<>> /\ disk'.rotating = disk.active /\ disk'.archives = disk.archives
      /\ disk'.manifest = disk.manifest /\ disk'.marker = disk.marker
      /\ disk'.checkpoints = disk.checkpoints /\ disk'.catalog = disk.catalog
      /\ DOMAIN disk' = DOMAIN disk /\ history' = history
  BY <1>2 DEF RotateActive, Keeps, Shapes
<1>4. /\ DOMAIN run' = DOMAIN run /\ run'.status = "up" /\ run'.at = "rotating"
      /\ run'.seq = Count /\ run'.hash = Count
  BY <1>2, Goes DEF RotateActive
<1>5. Shapes' /\ Count' = Count /\ Top(p)' = Top(p) /\ Latest(disk') = Latest(disk)
  BY <1>2, <1>3, <1>4 DEF Shapes, Count, Top, Latest
<1>6. Tiled(p)'
  <2>1. Tiled(p) /\ Top(p) < Count /\ disk.rotating = <<>>
    BY <1>1, <1>2, SteadyFiles DEF Good, Steady
  <2>2. disk.active = Span(history, Top(p), Count)
    BY <2>1, <1>2 DEF Tiled
  <2> QED
    BY <1>3, <1>5, <2>1, <2>2 DEF Tiled
<1>7. Checkpointed(p)'
  BY <1>1, <1>2, <1>3, <1>5 DEF Good, Checkpointed, Covered, Unpublished, Steady
<1>8. Limited(p)'
  BY <1>1, <1>2, <1>5 DEF Good, Limited
<1>9. Located(p)'
  BY <1>2, <1>3, <1>4, <1>5 DEF Located, At, Starting, Steady
<1> QED
  BY <1>5, <1>6, <1>7, <1>8, <1>9, Together

\* The renamed file becomes the latest archive.
LEMMA InvRotateArchive == JournalInv /\ RotateArchive => JournalInv'
<1> SUFFICES ASSUME JournalInv, RotateArchive PROVE JournalInv'
  OBVIOUS
<1>1. PICK p \in 0..Count : Good(p)
  BY DEF JournalInv
<1>2. /\ Shapes /\ disk.marker = NoMarker /\ disk.rotating # <<>>
      /\ run.seq = Count /\ run.hash = Count /\ run.status = "up"
  BY <1>1 DEF JournalInv, Good, Located, RotateArchive, At
<1>3. /\ disk'.active = disk.active /\ disk'.rotating = <<>>
      /\ disk'.archives = Append(disk.archives, disk.rotating)
      /\ disk'.manifest = disk.manifest /\ disk'.marker = disk.marker
      /\ disk'.checkpoints = disk.checkpoints /\ disk'.catalog = disk.catalog
      /\ DOMAIN disk' = DOMAIN disk /\ history' = history
  BY <1>2 DEF RotateArchive, Keeps, Shapes
<1>4. /\ DOMAIN run' = DOMAIN run /\ run'.status = "up" /\ run'.at = "archived"
      /\ run'.seq = Count /\ run'.hash = Count
  BY <1>2, Goes DEF RotateArchive
<1>5. /\ p \in Nat /\ Count \in Nat /\ Top(p) \in Nat /\ Top(p) < Count /\ disk.active = <<>>
      /\ disk.rotating = Span(history, Top(p), Count) /\ Chain(history, disk.archives, p)
      /\ p \in 0..Count /\ p < Count
  BY <1>1, <1>2, Held DEF Good, Tiled
<1>6. /\ Chain(history, disk'.archives, p) /\ End(disk'.archives, p, Len(disk'.archives)) = Count
      /\ disk'.archives # <<>> /\ IsSeq(disk'.archives)
  <2>1. IsSeq(history) /\ IsSeq(disk.archives) /\ End(disk.archives, p, Len(disk.archives)) < Count
        /\ Count <= Len(history)
    BY <1>2, <1>5 DEF Shapes, Top, Count
  <2> QED
    BY <1>3, <1>5, <2>1, ChainAppend DEF Top
<1>7. Shapes' /\ Count' = Count /\ Top(p)' = Count /\ Latest(disk') = Latest(disk)
  BY <1>2, <1>3, <1>4, <1>6 DEF Shapes, Count, Top, Latest
<1>8. Tiled(p)'
  <2>1. disk'.active = Span(history, Count, Count)
    <3>1. Span(history, Count, Count) = <<>>
      <4>1. Count <= Count
        BY <1>5
      <4> QED
        BY <1>5, <4>1, SpanSeq
    <3> QED
      BY <1>3, <1>5, <3>1
  <2> QED
    BY <1>3, <1>5, <1>6, <1>7, <2>1 DEF Tiled
<1>9. Checkpointed(p)'
  BY <1>1, <1>2, <1>3, <1>7 DEF Good, Checkpointed, Covered, Unpublished
<1>10. Limited(p)'
  BY <1>1, <1>3, <1>7 DEF Good, Limited
<1>11. Located(p)'
  BY <1>2, <1>3, <1>4, <1>5, <1>6, <1>7 DEF Located, At, Starting, Rotated
<1> QED
  BY <1>7, <1>8, <1>9, <1>10, <1>11, Together

\* The manifest is published by the rotation, and by the start after one that
\* was interrupted.
LEMMA Manifested ==
  ASSUME Shapes, NEW p, Tiled(p), Checkpointed(p), Limited(p), Rotated, history' = history,
         disk' = [disk EXCEPT !.manifest = Name(Last(disk.archives))]
  PROVE  /\ Tiled(p)' /\ Checkpointed(p)' /\ Limited(p)' /\ Rotated' /\ disk'.manifest = Top(p)'
         /\ Count' = Count /\ DOMAIN disk' = DOMAIN disk
         /\ disk'.marker = disk.marker /\ disk'.archives = disk.archives
         /\ disk'.checkpoints = disk.checkpoints
<1>1. /\ disk'.active = disk.active /\ disk'.rotating = disk.rotating
      /\ disk'.archives = disk.archives /\ disk'.marker = disk.marker
      /\ disk'.checkpoints = disk.checkpoints /\ disk'.catalog = disk.catalog
      /\ DOMAIN disk' = DOMAIN disk /\ disk'.manifest = Top(p)
  BY LatestArchive DEF Rotated, Shapes
<1>2. Count' = Count /\ Top(p)' = Top(p) /\ Latest(disk') = Latest(disk) /\ Rotated'
  BY <1>1 DEF Count, Top, Latest, Rotated
<1>3. Tiled(p)'
  BY <1>1, <1>2 DEF Tiled
<1>4. Checkpointed(p)'
  BY <1>1, <1>2 DEF Checkpointed, Covered, Unpublished, Rotated
<1>5. Limited(p)'
  BY <1>1, <1>2 DEF Limited
<1> QED
  BY <1>1, <1>2, <1>3, <1>4, <1>5

LEMMA InvPublishManifest == JournalInv /\ PublishManifest => JournalInv'
<1> SUFFICES ASSUME JournalInv, PublishManifest PROVE JournalInv'
  OBVIOUS
<1>1. PICK p \in 0..Count : Good(p)
  BY DEF JournalInv
<1>2. Shapes /\ Rotated /\ run.seq = Count /\ run.hash = Count /\ run.status = "up"
  BY <1>1 DEF JournalInv, Good, Located, PublishManifest, At
<1>3. history' = history /\ disk' = [disk EXCEPT !.manifest = Name(Last(disk.archives))]
  BY DEF PublishManifest, Keeps
<1>4. /\ Tiled(p)' /\ Checkpointed(p)' /\ Limited(p)' /\ Rotated' /\ disk'.manifest = Top(p)'
      /\ Count' = Count /\ DOMAIN disk' = DOMAIN disk /\ disk'.marker = disk.marker
      /\ disk'.archives = disk.archives /\ disk'.checkpoints = disk.checkpoints
  BY <1>1, <1>2, <1>3, Manifested DEF Good
<1>5. /\ DOMAIN run' = DOMAIN run /\ run'.status = "up" /\ run'.at = "manifested"
      /\ run'.seq = Count /\ run'.hash = Count
  BY <1>2, Goes DEF PublishManifest
<1>6. Shapes'
  BY <1>2, <1>3, <1>4, <1>5 DEF Shapes
<1>7. Located(p)'
  BY <1>4, <1>5 DEF Located, At, Starting
<1> QED
  BY <1>4, <1>6, <1>7, Together

\* The anchor is the first line of a file that was rotated.
LEMMA Anchored ==
  ASSUME Shapes, NEW p, Tiled(p), Checkpointed(p), Limited(p), Rotated, disk.manifest = Top(p),
         history' = Append(history, Anchor),
         disk' = [disk EXCEPT !.active = <<Line(Count + 1, Count, Anchor)>>]
  PROVE  /\ Tiled(p)' /\ Checkpointed(p)' /\ Limited(p)' /\ Count' = Count + 1 /\ Steady'
         /\ disk'.active # <<>> /\ DOMAIN disk' = DOMAIN disk /\ IsSeq(history')
         /\ disk'.marker = disk.marker /\ disk'.archives = disk.archives
         /\ disk'.checkpoints = disk.checkpoints /\ Count' - p <= MaxTotal
<1>1. Count \in Nat /\ p \in Nat /\ MaxTotal \in Nat /\ Top(p) \in 1..Count /\ Top(p) <= Count
  BY Held, LatestArchive, JournalAssumption DEF Rotated, Tiled
<1>2. Count - p < MaxTotal /\ Count - p <= MaxTotal
  BY <1>1 DEF Limited, Rotated
<1>3. Line(Count + 1, Count, Anchor) = LineAt(history', Count + 1)
  <2>1. history'[Count + 1] = Anchor
    BY AppendSeq DEF Shapes, Count
  <2>2. Count + 1 - 1 = Count
    BY <1>1
  <2> QED
    BY <2>1, <2>2 DEF Line, LineAt, Count
<1>4. disk' = [disk EXCEPT !.active = Append(@, LineAt(history', Count + 1))]
  <2>1. disk.active = <<>>
    BY DEF Rotated
  <2>2. \A x : Append(<<>>, x) = <<x>>
    OBVIOUS
  <2> QED
    BY <1>3, <2>1, <2>2
<1>5. /\ Tiled(p)' /\ Checkpointed(p)' /\ Limited(p)' /\ Count' = Count + 1 /\ Steady'
      /\ disk'.active # <<>> /\ DOMAIN disk' = DOMAIN disk /\ IsSeq(history')
      /\ disk'.marker = disk.marker /\ disk'.archives = disk.archives
      /\ disk'.checkpoints = disk.checkpoints
  BY <1>2, <1>4, Written DEF Rotated
<1>6. Count' - p <= MaxTotal
  BY <1>1, <1>2, <1>5
<1> QED
  BY <1>5, <1>6

\* The anchor is numbered behind what the process wrote last.
LEMMA InvWriteAnchor == JournalInv /\ WriteAnchor => JournalInv'
<1> SUFFICES ASSUME JournalInv, WriteAnchor PROVE JournalInv'
  OBVIOUS
<1>1. PICK p \in 0..Count : Good(p)
  BY DEF JournalInv
<1>2. /\ Shapes /\ Rotated /\ disk.manifest = Top(p) /\ run.seq = Count /\ run.hash = Count
      /\ run.status = "up"
  BY <1>1 DEF JournalInv, Good, Located, WriteAnchor, At
<1>3. /\ history' = Append(history, Anchor)
      /\ disk' = [disk EXCEPT !.active = <<Line(Count + 1, Count, Anchor)>>]
  BY <1>2 DEF WriteAnchor
<1>4. /\ Tiled(p)' /\ Checkpointed(p)' /\ Limited(p)' /\ Count' = Count + 1 /\ Steady'
      /\ DOMAIN disk' = DOMAIN disk /\ IsSeq(history') /\ disk'.marker = disk.marker
      /\ disk'.archives = disk.archives /\ disk'.checkpoints = disk.checkpoints
      /\ Count' - p <= MaxTotal
  BY <1>1, <1>2, <1>3, Anchored DEF Good
<1>5. /\ Line(Count + 1, Count, Anchor).seq = Count + 1
      /\ Line(Count + 1, Count, Anchor).hash = Count + 1
  BY DEF Line, Count
<1>6. /\ DOMAIN run' = DOMAIN run /\ run'.status = "up" /\ run'.at = "write"
      /\ run'.seq = Count' /\ run'.hash = Count'
      /\ run'.built = [seq |-> Count' + 1, prev |-> Count', hash |-> Count' + 1,
                       record |-> run.built.record]
  BY <1>2, <1>4, <1>5 DEF WriteAnchor, Shapes
<1>7. Shapes' /\ Built'
  BY <1>2, <1>4, <1>6 DEF Shapes, Built
<1>8. Located(p)'
  BY <1>4, <1>6, <1>7 DEF Located, At, Starting
<1> QED
  BY <1>4, <1>7, <1>8, Together

\* The anchor of a start is numbered behind the latest archive.
LEMMA InvRecoverAnchor == JournalInv /\ RecoverAnchor => JournalInv'
<1> SUFFICES ASSUME JournalInv, RecoverAnchor PROVE JournalInv'
  OBVIOUS
<1>1. PICK p \in 0..Count : Good(p)
  BY DEF JournalInv
<1>2. Shapes /\ Rotated /\ disk.manifest = Top(p) /\ run.status = "starting" /\ Tiled(p)
  BY <1>1 DEF JournalInv, Good, Located, RecoverAnchor, Starting
<1>3. Top(p) = Count
  BY <1>2, Held DEF Rotated
<1>4. Last(Last(disk.archives)).seq = Count /\ Last(Last(disk.archives)).hash = Count
  BY <1>2, <1>3, LatestArchive DEF Rotated
<1>5. /\ history' = Append(history, Anchor)
      /\ disk' = [disk EXCEPT !.active = <<Line(Count + 1, Count, Anchor)>>]
  BY <1>4 DEF RecoverAnchor
<1>6. /\ Tiled(p)' /\ Checkpointed(p)' /\ Limited(p)' /\ Steady'
      /\ DOMAIN disk' = DOMAIN disk /\ IsSeq(history') /\ disk'.marker = disk.marker
      /\ disk'.archives = disk.archives /\ disk'.checkpoints = disk.checkpoints
  BY <1>1, <1>2, <1>5, Anchored DEF Good
<1>7. DOMAIN run' = DOMAIN run /\ run'.status = "starting" /\ run'.at = "compaction"
  BY <1>2, Goes DEF RecoverAnchor
<1>8. Shapes'
  BY <1>2, <1>6, <1>7 DEF Shapes
<1>9. Located(p)'
  BY <1>6, <1>7 DEF Located, At, Starting, Steady
<1> QED
  BY <1>6, <1>8, <1>9, Together

\* The process stops: what was being written is on the disk, in part, or not.
LEMMA InvCrash == JournalInv /\ Crash => JournalInv'
<1> SUFFICES ASSUME JournalInv, Crash PROVE JournalInv'
  OBVIOUS
<1>1. PICK p \in 0..Count : Good(p)
  BY DEF JournalInv
<1>2. Shapes /\ DOMAIN run' = DOMAIN run /\ run'.status = "down"
  BY DEF JournalInv, Shapes, Crash
<1>3. Located(p)'
  BY <1>2 DEF Located, At, Starting
<1>4. CASE UNCHANGED <<disk, history>>
  BY <1>1, <1>2, <1>3, <1>4, Untouched
<1>5. CASE disk' = [disk EXCEPT !.torn = TRUE] /\ UNCHANGED history
  <2>1. /\ disk'.active = disk.active /\ disk'.rotating = disk.rotating
        /\ disk'.archives = disk.archives /\ disk'.manifest = disk.manifest
        /\ disk'.marker = disk.marker /\ disk'.checkpoints = disk.checkpoints
        /\ disk'.catalog = disk.catalog /\ DOMAIN disk' = DOMAIN disk
    BY <1>2, <1>5 DEF Shapes
  <2>2. Tiled(p)' /\ Limited(p)' /\ Count' = Count
    BY <1>1, <1>5, <2>1, LinesKept DEF Good
  <2>3. Latest(disk') = Latest(disk)
    BY <2>1 DEF Latest
  <2>4. Checkpointed(p)'
    BY <1>1, <1>5, <2>1, <2>2, <2>3
       DEF Good, Checkpointed, Covered, Unpublished, Prepared, Marked
  <2>5. Shapes'
    BY <1>2, <1>5, <2>1 DEF Shapes
  <2> QED
    BY <1>3, <2>2, <2>4, <2>5, Together
<1>6. CASE /\ At("write") /\ disk' = [disk EXCEPT !.active = Append(@, run.built)]
           /\ history' = Append(history, run.built.record)
  <2>1. Steady /\ Built /\ Count - p <= MaxTotal
    BY <1>1, <1>6 DEF Good, Located
  <2>2. ManifestNamed(p) /\ disk.marker = NoMarker /\ disk.rotating = <<>>
    BY <1>1, <1>2, <2>1, SteadyFiles DEF Good, Steady
  <2>3. disk' = [disk EXCEPT !.active = Append(@, LineAt(history', Count + 1))]
    BY <1>2, <1>6, <2>1, BuiltLine
  <2>4. /\ Tiled(p)' /\ Checkpointed(p)' /\ Limited(p)'
        /\ DOMAIN disk' = DOMAIN disk /\ IsSeq(history') /\ disk'.marker = disk.marker
        /\ disk'.archives = disk.archives /\ disk'.checkpoints = disk.checkpoints
    BY <1>1, <1>2, <1>6, <2>1, <2>2, <2>3, Written DEF Good, ManifestNamed
  <2>5. Shapes'
    BY <1>2, <2>4 DEF Shapes
  <2> QED
    BY <1>3, <2>4, <2>5, Together
<1> QED
  BY <1>4, <1>5, <1>6 DEF Crash

LEMMA InvStart == JournalInv /\ Start => JournalInv'
<1> SUFFICES ASSUME JournalInv, Start PROVE JournalInv'
  OBVIOUS
<1>1. PICK p \in 0..Count : Good(p)
  BY DEF JournalInv
<1>2. Shapes /\ DOMAIN run' = DOMAIN run /\ run'.status = "starting" /\ run'.at = "rotation"
  BY DEF JournalInv, Shapes, Start
<1>3. Located(p)'
  BY <1>2 DEF Located, At, Starting
<1> QED
  BY <1>1, <1>2, <1>3, Untouched DEF Start, Keeps

LEMMA SameState ==
  ASSUME JournalInv, disk' = disk, run' = run, history' = history
  PROVE  JournalInv'
  BY DEF JournalInv, Shapes, Good, Tiled, Top, Count, Checkpointed, Covered, Marked, Unpublished,
         Prepared, Latest, Limited, Located, At, Starting, Steady, Rotated, Compacting, Built

LEMMA InvAsks == JournalInv /\ (Request \/ Cleanup \/ Observe) => JournalInv'
<1> SUFFICES ASSUME JournalInv, Request \/ Cleanup \/ Observe PROVE JournalInv'
  OBVIOUS
<1>1. disk' = disk /\ run' = run /\ history' = history
  BY DEF Request, Cleanup, Observe, Asks
<1> QED
  BY <1>1, SameState

\* The marker names archives behind which nothing is open.
LEMMA InvPrepareCompaction == JournalInv /\ PrepareCompaction => JournalInv'
<1> SUFFICES ASSUME JournalInv, PrepareCompaction PROVE JournalInv'
  OBVIOUS
<1>1. PICK p \in 0..Count : Good(p)
  BY DEF JournalInv
<1>2. /\ Shapes /\ Steady /\ Built /\ Compactable(disk.archives) > 0
      /\ run.seq = Count /\ run.hash = Count /\ run.status = "up" /\ Tiled(p) /\ Checkpointed(p)
  BY <1>1 DEF JournalInv, Good, Located, PrepareCompaction, At
<1> DEFINE A == disk.archives
           n == Compactable(A)
           e == End(A, p, n)
<1>3. /\ p \in Nat /\ Count \in Nat /\ p <= Count /\ IsSeq(history) /\ IsSeq(A)
      /\ Chain(history, A, p)
  BY <1>2, Held DEF Shapes, Tiled
<1>4. disk.marker = NoMarker /\ Unpublished(p) /\ Covered(p)
  BY <1>2 DEF Steady, Checkpointed, Unpublished
<1>5. n \in 1..Len(A) /\ Scan(SubSeq(history, 1, e)) = Unscanned
  <2>1. p <= Len(history) /\ Scan(SubSeq(history, 1, p)) = Unscanned
    BY <1>3, <1>4 DEF Covered, Count
  <2>2. /\ Compactable(A) \in 0..Len(A)
        /\ Compactable(A) > 0 => Scan(SubSeq(history, 1, End(A, p, Compactable(A)))) = Unscanned
    BY <1>3, <2>1, CompactablePrefix
  <2> QED
    BY <1>2, <2>2
<1>6. Max(Sources) = e /\ \A i \in 1..Len(A) : Name(A[i]) \in Sources <=> Name(A[i]) <= e
  <2> HIDE DEF n
  <2>1. LET S == {Name(a) : a \in ToSet(SubSeq(A, 1, n))}
        IN  Max(S) = e /\ \A i \in 1..Len(A) : Name(A[i]) \in S <=> Name(A[i]) <= e
    BY <1>3, <1>5, SourcesUpTo
  <2> QED
    BY <2>1 DEF Sources, n
<1> HIDE DEF n
<1>7. e \in 1..Count /\ p < e /\ e = Name(A[n])
  <2>1. n \in 0..Len(A) /\ 0 \in 0..Len(A) /\ 0 < n
    BY <1>5
  <2>2. End(A, p, 0) = p
    BY DEF End
  <2>3. End(A, p, 0) < End(A, p, n) /\ End(A, p, n) = Name(A[n])
    BY <1>3, <1>5, <2>1, ChainEnds
  <2>4. e \in 1..Count
    BY <1>3, <1>5 DEF Chain, Count
  <2> QED
    BY <2>2, <2>3, <2>4
<1>8. PICK k \in 1..Count :
         /\ p < k /\ k = Name(A[n]) /\ Scan(SubSeq(history, 1, k)) = Unscanned
         /\ Max(Sources) = k /\ \A i \in 1..Len(A) : Name(A[i]) \in Sources <=> Name(A[i]) <= k
  BY <1>5, <1>6, <1>7
<1> HIDE DEF e
<1>9. /\ disk'.active = disk.active /\ disk'.rotating = disk.rotating
      /\ disk'.archives = A /\ disk'.manifest = disk.manifest
      /\ disk'.marker = [phase |-> "prepared", checkpoint |-> k, sources |-> Sources]
      /\ disk'.checkpoints = disk.checkpoints /\ disk'.catalog = disk.catalog
      /\ DOMAIN disk' = DOMAIN disk /\ history' = history
  BY <1>2, <1>8 DEF PrepareCompaction, Keeps, Shapes
<1>10. /\ DOMAIN run' = DOMAIN run /\ run'.status = "up" /\ run'.at = "prepared"
      /\ run'.seq = Count /\ run'.hash = Count /\ run'.built = run.built
  BY <1>2, Goes DEF PrepareCompaction
<1>11. Tiled(p)' /\ Limited(p)' /\ Count' = Count
  BY <1>1, <1>9, LinesKept DEF Good
<1>12. Shapes' /\ Latest(disk') = Latest(disk)
  BY <1>2, <1>9, <1>10 DEF Shapes, Latest
<1>13. Covered(k)' /\ Marked(p, k)'
  <2>1. Covered(k)
    BY <1>3, <1>8 DEF Covered
  <2>2. Covered(k)'
    BY <1>9, <2>1, CoveredKept
  <2>3. disk.active # <<>>
    <3>1. A # <<>>
      BY <1>3, <1>5, IsSeqLen
    <3> QED
      BY <1>2, <3>1, SteadyFiles
  <2> QED
    BY <1>5, <1>8, <1>9, <1>11, <2>2, <2>3 DEF Marked
<1>14. disk'.marker # NoMarker /\ disk'.marker.checkpoint = k /\ disk'.marker.phase = "prepared"
  BY <1>9 DEF NoMarker
<1>15. Prepared(p)'
  BY <1>4, <1>8, <1>9, <1>12, <1>14 DEF Prepared, Unpublished
<1>16. Checkpointed(p)'
  <2>1. Covered(Latest(disk).last)'
    BY <1>2, <1>9, <1>11, <1>12 DEF Checkpointed, Covered
  <2> QED
    BY <1>2, <1>9, <1>12, <1>13, <1>14, <1>15, <2>1 DEF Checkpointed
<1>17. Built' /\ Located(p)'
  BY <1>2, <1>10, <1>11, <1>14, <1>15 DEF Located, At, Starting, Built
<1> QED
  BY <1>11, <1>12, <1>16, <1>17, Together

\* The source of the checkpoint exists, and its last line has its number as hash.
LEMMA InvWriteCheckpoint == JournalInv /\ WriteCheckpoint => JournalInv'
<1> SUFFICES ASSUME JournalInv, WriteCheckpoint PROVE JournalInv'
  OBVIOUS
<1>1. PICK p \in 0..Count : Good(p)
  BY DEF JournalInv
<1>2. /\ Shapes /\ disk.marker # NoMarker /\ Prepared(p) /\ Built
      /\ run.seq = Count /\ run.hash = Count /\ run.status = "up" /\ Tiled(p) /\ Checkpointed(p)
  BY <1>1 DEF JournalInv, Good, Located, WriteCheckpoint, At
<1> DEFINE A == disk.archives
           source == CHOOSE a \in ToSet(A) : Name(a) = disk.marker.checkpoint
           new == [last |-> Name(source), hash |-> Last(source).hash]
<1>3. /\ p \in Nat /\ Count \in Nat /\ IsSeq(history) /\ IsSeq(A) /\ Chain(history, A, p)
  BY <1>2, Held DEF Shapes, Tiled
<1>4. PICK k \in 1..Count :
        Marked(p, k) /\ Latest(disk).last = p /\ p < k /\ k = disk.marker.checkpoint
  BY <1>2 DEF Checkpointed, Prepared, Unpublished, Marked
<1>5. \A a \in ToSet(A) : Last(a).hash = Name(a)
  <2>1. \A i \in 1..Len(A) : Last(A[i]).hash = Name(A[i])
    BY <1>3, ChainEnds
  <2>2. DOMAIN A = 1..Len(A)
    BY <1>3, IsSeqLen
  <2> QED
    BY <2>1, <2>2 DEF ToSet
<1>6. \E a \in ToSet(A) : Name(a) = k
  <2>1. PICK n \in 1..Len(A) : k = Name(A[n])
    BY <1>3, <1>4 DEF Marked
  <2>2. DOMAIN A = 1..Len(A)
    BY <1>3, IsSeqLen
  <2> QED
    BY <2>1, <2>2 DEF ToSet
<1>7. new = [last |-> k, hash |-> k]
  <2>1. source \in ToSet(A) /\ Name(source) = k
    BY <1>4, <1>6
  <2> HIDE DEF source
  <2> QED
    BY <1>5, <2>1
<1>8. disk' = [disk EXCEPT !.checkpoints = Append(@, [last |-> k, hash |-> k])]
  BY <1>7 DEF WriteCheckpoint
<1> HIDE DEF source, new
<1>9. /\ disk'.active = disk.active /\ disk'.rotating = disk.rotating
      /\ disk'.archives = A /\ disk'.manifest = disk.manifest /\ disk'.marker = disk.marker
      /\ disk'.checkpoints = Append(disk.checkpoints, [last |-> k, hash |-> k])
      /\ DOMAIN disk' = DOMAIN disk /\ history' = history
  BY <1>2, <1>8 DEF WriteCheckpoint, Keeps, Shapes
<1>10. /\ DOMAIN run' = DOMAIN run /\ run'.status = "up" /\ run'.at = "checkpointed"
       /\ run'.seq = Count /\ run'.hash = Count /\ run'.built = run.built
  BY <1>2, Goes DEF WriteCheckpoint
<1>11. Tiled(p)' /\ Limited(p)' /\ Count' = Count
  BY <1>1, <1>9, LinesKept DEF Good
<1> DEFINE C == disk.checkpoints
           D == disk'.checkpoints
<1>12. /\ IsSeq(D) /\ Len(D) = Len(C) + 1 /\ Len(C) \in Nat /\ \A i \in 1..Len(C) : D[i] = C[i]
       /\ D[Len(C) + 1] = [last |-> k, hash |-> k]
  BY <1>2, <1>9, AppendSeq, IsSeqLen DEF Shapes
<1> HIDE DEF D
<1>13. Latest(disk') = [last |-> k, hash |-> k]
  <2>1. D # <<>>
    BY <1>12, IsSeqLen
  <2>2. Last(D) = [last |-> k, hash |-> k]
    BY <1>12 DEF Last
  <2> QED
    BY <2>1, <2>2 DEF Latest, D
<1>14. Shapes'
  BY <1>2, <1>9, <1>10, <1>12 DEF Shapes, D
<1>15. Covered(k)' /\ Marked(p, k)' /\ k \in Nat
  <2>1. Covered(k) /\ k \in 1..Count
    BY <1>4 DEF Marked
  <2>2. Covered(k)'
    BY <1>9, <2>1, CoveredKept
  <2> QED
    BY <1>3, <1>4, <1>9, <1>11, <2>1, <2>2 DEF Marked
<1>16. \A i \in 1..Len(D) : D[i].last \in Nat /\ D[i].hash = D[i].last /\ D[i].last <= k
  <2>1. ASSUME NEW i \in 1..Len(D)
        PROVE  D[i].last \in Nat /\ D[i].hash = D[i].last /\ D[i].last <= k
    <3>1. CASE i \in 1..Len(C)
      <4>1. C[i].last \in Nat /\ C[i].hash = C[i].last /\ C[i].last <= p
        BY <1>2, <1>4, <3>1 DEF Checkpointed
      <4> QED
        BY <1>3, <1>4, <1>12, <1>15, <3>1, <4>1
    <3>2. CASE i = Len(C) + 1
      BY <1>12, <1>15, <3>2
    <3>3. i \in 1..Len(C) \/ i = Len(C) + 1
      BY <1>12
    <3> QED
      BY <3>1, <3>2, <3>3
  <2> QED
    BY <2>1
<1>17. disk'.marker # NoMarker /\ disk'.marker.checkpoint = k /\ Latest(disk').last = k
  BY <1>2, <1>4, <1>9, <1>13
<1>18. Checkpointed(p)'
  BY <1>15, <1>16, <1>17 DEF Checkpointed, D
<1>19. Located(p)'
  BY <1>2, <1>10, <1>11, <1>17 DEF Located, At, Starting, Built, Compacting
<1> QED
  BY <1>11, <1>14, <1>18, <1>19, Together

\* A compaction that has its checkpoint goes on: only the phase or the catalog
\* changes.
LEMMA Continued ==
  ASSUME Shapes, NEW p, Tiled(p), Checkpointed(p), Limited(p), Compacting, history' = history,
         disk'.active = disk.active, disk'.rotating = disk.rotating,
         disk'.archives = disk.archives, disk'.manifest = disk.manifest,
         disk'.checkpoints = disk.checkpoints, disk'.marker # NoMarker,
         disk'.marker.checkpoint = disk.marker.checkpoint,
         disk'.marker.sources = disk.marker.sources
  PROVE  Tiled(p)' /\ Checkpointed(p)' /\ Limited(p)' /\ Compacting' /\ Count' = Count
<1>1. Tiled(p)' /\ Limited(p)' /\ Count' = Count
  BY LinesKept
<1>2. Latest(disk') = Latest(disk) /\ Compacting'
  BY DEF Latest, Compacting
<1>3. PICK k : k = disk.marker.checkpoint /\ Marked(p, k)
  BY DEF Checkpointed, Compacting
<1>4. Marked(p, k)'
  <2>1. Covered(k)'
    BY <1>3, CoveredKept DEF Marked
  <2> QED
    BY <1>1, <1>3, <2>1 DEF Marked
<1>5. Checkpointed(p)'
  <2>1. Covered(Latest(disk).last)'
    BY <1>1, <1>2 DEF Checkpointed, Covered
  <2>2. disk'.marker.checkpoint = k /\ Latest(disk').last = k
    BY <1>2, <1>3 DEF Compacting
  <2>3. \A i \in 1..Len(disk'.checkpoints) :
          LET c == disk'.checkpoints[i]
          IN  c.last \in Nat /\ c.hash = c.last /\ c.last <= Latest(disk').last
    BY <1>2 DEF Checkpointed
  <2> QED
    BY <1>4, <2>1, <2>2, <2>3 DEF Checkpointed
<1> QED
  BY <1>1, <1>2, <1>5

\* The marker is removed, of a compaction that is complete or that goes back.
LEMMA Unmarked ==
  ASSUME Shapes, NEW p, Tiled(p), Checkpointed(p), Limited(p), Unpublished(p), history' = history,
         disk.marker # NoMarker, disk' = [disk EXCEPT !.marker = NoMarker]
  PROVE  /\ Tiled(p)' /\ Checkpointed(p)' /\ Limited(p)' /\ Steady' /\ Count' = Count
         /\ DOMAIN disk' = DOMAIN disk /\ DOMAIN disk'.marker = DOMAIN disk.marker
         /\ disk'.archives = disk.archives /\ disk'.checkpoints = disk.checkpoints
<1>1. /\ disk'.active = disk.active /\ disk'.rotating = disk.rotating
      /\ disk'.archives = disk.archives /\ disk'.manifest = disk.manifest
      /\ disk'.marker = NoMarker /\ disk'.checkpoints = disk.checkpoints
      /\ disk'.catalog = disk.catalog /\ DOMAIN disk' = DOMAIN disk
      /\ DOMAIN disk'.marker = DOMAIN disk.marker
  BY DEF Shapes, NoMarker
<1>2. Tiled(p)' /\ Limited(p)' /\ Count' = Count
  BY <1>1, LinesKept
<1>3. Latest(disk') = Latest(disk)
  BY <1>1 DEF Latest
<1>4. Checkpointed(p)'
  <2>1. Covered(Latest(disk).last)'
    BY <1>2, <1>3 DEF Checkpointed, Covered
  <2>2. Unpublished(p)'
    BY <1>1, <1>3 DEF Unpublished
  <2>3. \A i \in 1..Len(disk'.checkpoints) :
          LET c == disk'.checkpoints[i]
          IN  c.last \in Nat /\ c.hash = c.last /\ c.last <= Latest(disk').last
    BY <1>1, <1>3 DEF Checkpointed
  <2> QED
    BY <1>1, <2>1, <2>2, <2>3 DEF Checkpointed, NoMarker
<1>5. Steady'
  <2>1. disk.active # <<>>
    BY DEF Checkpointed, Marked
  <2> QED
    BY <1>1, <2>1 DEF Steady, Tiled, NoMarker
<1> QED
  BY <1>1, <1>2, <1>4, <1>5

LEMMA InvMarkCheckpoint == JournalInv /\ MarkCheckpoint => JournalInv'
<1> SUFFICES ASSUME JournalInv, MarkCheckpoint PROVE JournalInv'
  OBVIOUS
<1>1. PICK p \in 0..Count : Good(p)
  BY DEF JournalInv
<1>2. /\ Shapes /\ Compacting /\ Built /\ run.seq = Count /\ run.hash = Count
      /\ run.status = "up"
  BY <1>1 DEF JournalInv, Good, Located, MarkCheckpoint, At
<1>3. /\ disk'.active = disk.active /\ disk'.rotating = disk.rotating
      /\ disk'.archives = disk.archives /\ disk'.manifest = disk.manifest
      /\ disk'.checkpoints = disk.checkpoints /\ disk'.marker # NoMarker
      /\ disk'.marker.checkpoint = disk.marker.checkpoint
      /\ disk'.marker.sources = disk.marker.sources
      /\ DOMAIN disk' = DOMAIN disk /\ DOMAIN disk'.marker = DOMAIN disk.marker
      /\ history' = history
  BY <1>2 DEF MarkCheckpoint, Marks, Keeps, Shapes, NoMarker
<1>4. Tiled(p)' /\ Checkpointed(p)' /\ Limited(p)' /\ Compacting' /\ Count' = Count
  BY <1>1, <1>2, <1>3, Continued DEF Good
<1>5. /\ DOMAIN run' = DOMAIN run /\ run'.status = "up" /\ run'.at = "published"
      /\ run'.seq = Count /\ run'.hash = Count /\ run'.built = run.built
  BY <1>2, Goes DEF MarkCheckpoint
<1>6. Shapes'
  BY <1>2, <1>3, <1>5 DEF Shapes
<1>7. Located(p)'
  BY <1>2, <1>4, <1>5 DEF Located, At, Starting, Built
<1> QED
  BY <1>4, <1>6, <1>7, Together

LEMMA InvPublishCatalog == JournalInv /\ PublishCatalog => JournalInv'
<1> SUFFICES ASSUME JournalInv, PublishCatalog PROVE JournalInv'
  OBVIOUS
<1>1. PICK p \in 0..Count : Good(p)
  BY DEF JournalInv
<1>2. /\ Shapes /\ Compacting /\ Built /\ run.seq = Count /\ run.hash = Count
      /\ run.status = "up"
  BY <1>1 DEF JournalInv, Good, Located, PublishCatalog, At
<1>3. /\ disk'.active = disk.active /\ disk'.rotating = disk.rotating
      /\ disk'.archives = disk.archives /\ disk'.manifest = disk.manifest
      /\ disk'.checkpoints = disk.checkpoints /\ disk'.marker = disk.marker
      /\ disk'.catalog = disk'.marker.checkpoint
      /\ DOMAIN disk' = DOMAIN disk /\ history' = history
  BY <1>2 DEF PublishCatalog, Keeps, Shapes
<1>4. Tiled(p)' /\ Checkpointed(p)' /\ Limited(p)' /\ Compacting' /\ Count' = Count
  <2>1. disk'.marker # NoMarker
    BY <1>2, <1>3 DEF Compacting
  <2> QED
    BY <1>1, <1>2, <1>3, <2>1, Continued DEF Good
<1>5. /\ DOMAIN run' = DOMAIN run /\ run'.status = "up" /\ run'.at = "cataloged"
      /\ run'.seq = Count /\ run'.hash = Count /\ run'.built = run.built
  BY <1>2, Goes DEF PublishCatalog
<1>6. Shapes'
  BY <1>2, <1>3, <1>5 DEF Shapes
<1>7. Located(p)'
  BY <1>2, <1>3, <1>4, <1>5 DEF Located, At, Starting, Built
<1> QED
  BY <1>4, <1>6, <1>7, Together

LEMMA InvMarkManifest == JournalInv /\ MarkManifest => JournalInv'
<1> SUFFICES ASSUME JournalInv, MarkManifest PROVE JournalInv'
  OBVIOUS
<1>1. PICK p \in 0..Count : Good(p)
  BY DEF JournalInv
<1>2. /\ Shapes /\ Compacting /\ Built /\ run.seq = Count /\ run.hash = Count
      /\ run.status = "up" /\ disk.catalog = disk.marker.checkpoint
  BY <1>1 DEF JournalInv, Good, Located, MarkManifest, At
<1>3. /\ disk'.active = disk.active /\ disk'.rotating = disk.rotating
      /\ disk'.archives = disk.archives /\ disk'.manifest = disk.manifest
      /\ disk'.checkpoints = disk.checkpoints /\ disk'.marker # NoMarker
      /\ disk'.marker.checkpoint = disk.marker.checkpoint
      /\ disk'.marker.sources = disk.marker.sources /\ disk'.catalog = disk.catalog
      /\ DOMAIN disk' = DOMAIN disk /\ DOMAIN disk'.marker = DOMAIN disk.marker
      /\ history' = history
  BY <1>2 DEF MarkManifest, Marks, Keeps, Shapes, NoMarker
<1>4. Tiled(p)' /\ Checkpointed(p)' /\ Limited(p)' /\ Compacting' /\ Count' = Count
  BY <1>1, <1>2, <1>3, Continued DEF Good
<1>5. /\ DOMAIN run' = DOMAIN run /\ run'.status = "up" /\ run'.at = "retiring"
      /\ run'.seq = Count /\ run'.hash = Count /\ run'.built = run.built
  BY <1>2, Goes DEF MarkManifest
<1>6. Shapes'
  BY <1>2, <1>3, <1>5 DEF Shapes
<1>7. Located(p)'
  BY <1>2, <1>3, <1>4, <1>5 DEF Located, At, Starting, Built
<1> QED
  BY <1>4, <1>6, <1>7, Together

\* A complete compaction leaves archives that follow its checkpoint.
LEMMA InvFinishCompaction == JournalInv /\ FinishCompaction => JournalInv'
<1> SUFFICES ASSUME JournalInv, FinishCompaction PROVE JournalInv'
  OBVIOUS
<1>1. PICK p \in 0..Count : Good(p)
  BY DEF JournalInv
<1>2. /\ Shapes /\ Compacting /\ Built /\ run.seq = Count /\ run.hash = Count
      /\ run.status = "up" /\ disk.catalog = disk.marker.checkpoint
      /\ disk.marker.checkpoint = p
  BY <1>1 DEF JournalInv, Good, Located, FinishCompaction, At
<1>3. Unpublished(p) /\ disk.marker # NoMarker
  BY <1>2 DEF Unpublished, Compacting
<1>4. /\ Tiled(p)' /\ Checkpointed(p)' /\ Limited(p)' /\ Steady' /\ Count' = Count
      /\ DOMAIN disk' = DOMAIN disk /\ DOMAIN disk'.marker = DOMAIN disk.marker
      /\ disk'.archives = disk.archives /\ disk'.checkpoints = disk.checkpoints
      /\ history' = history
  BY <1>1, <1>2, <1>3, Unmarked DEF Good, FinishCompaction, Keeps
<1>5. /\ DOMAIN run' = DOMAIN run /\ run'.status = "up" /\ run'.at = "fold"
      /\ run'.seq = Count /\ run'.hash = Count /\ run'.built = run.built
  BY <1>2, Goes DEF FinishCompaction
<1>6. Shapes'
  BY <1>2, <1>4, <1>5 DEF Shapes
<1>7. Located(p)'
  BY <1>2, <1>4, <1>5 DEF Located, At, Starting, Built
<1> QED
  BY <1>4, <1>6, <1>7, Together

\* The oldest checkpoint is dropped, never the latest.
LEMMA InvFoldCheckpoint == JournalInv /\ FoldCheckpoint => JournalInv'
<1> SUFFICES ASSUME JournalInv, FoldCheckpoint PROVE JournalInv'
  OBVIOUS
<1>1. PICK p \in 0..Count : Good(p)
  BY DEF JournalInv
<1>2. /\ Shapes /\ Steady /\ Built /\ run.seq = Count /\ run.hash = Count
      /\ run.status = "up" /\ run.at = "fold" /\ history' = history
  BY <1>1 DEF JournalInv, Good, Located, FoldCheckpoint, At, Keeps
<1>3. CASE /\ Len(disk.checkpoints) > 1 /\ run' = run
           /\ disk' = [disk EXCEPT !.checkpoints = Tail(@)]
  <2> DEFINE C == disk.checkpoints
             D == disk'.checkpoints
  <2>1. /\ disk'.active = disk.active /\ disk'.rotating = disk.rotating
        /\ disk'.archives = disk.archives /\ disk'.manifest = disk.manifest
        /\ disk'.marker = disk.marker /\ D = Tail(C)
        /\ disk'.catalog = disk.catalog /\ DOMAIN disk' = DOMAIN disk
    BY <1>2, <1>3 DEF Shapes
  <2>2. /\ IsSeq(D) /\ Len(D) = Len(C) - 1 /\ Len(C) \in Nat /\ C # <<>>
        /\ \A i \in 1..Len(C) - 1 : D[i] = C[i + 1]
    BY <1>2, <1>3, <2>1, TailSeq, IsSeqLen DEF Shapes
  <2> HIDE DEF D
  <2>3. D # <<>> /\ Len(D) \in 1..Len(C) - 1
    BY <1>3, <2>2, IsSeqLen
  <2>4. Last(D) = Last(C)
    <3>1. Len(C) - 1 \in 1..Len(C) - 1 /\ Len(C) - 1 + 1 = Len(C)
      BY <1>3, <2>2
    <3> QED
      BY <2>2, <3>1 DEF Last
  <2>5. Latest(disk') = Latest(disk)
    BY <2>2, <2>3, <2>4 DEF Latest, D
  <2>6. Tiled(p)' /\ Limited(p)' /\ Count' = Count
    BY <1>1, <1>2, <2>1, LinesKept DEF Good
  <2>7. \A i \in 1..Len(D) : /\ D[i].last \in Nat /\ D[i].hash = D[i].last
                             /\ D[i].last <= Latest(disk').last
    <3>1. ASSUME NEW i \in 1..Len(D) PROVE D[i] = C[i + 1] /\ i + 1 \in 1..Len(C)
      BY <2>2, <2>3
    <3>2. \A j \in 1..Len(C) : /\ C[j].last \in Nat /\ C[j].hash = C[j].last
                               /\ C[j].last <= Latest(disk').last
      BY <1>1, <2>5 DEF Good, Checkpointed
    <3> QED
      BY <3>1, <3>2
  <2>8. Checkpointed(p)'
    <3>1. Covered(Latest(disk).last)'
      BY <1>1, <1>2, <2>5, <2>6 DEF Good, Checkpointed, Covered
    <3>2. Unpublished(p)' /\ disk'.marker = NoMarker
      BY <1>1, <1>2, <2>1, <2>2, <2>5 DEF Good, Checkpointed, Unpublished, Steady
    <3> QED
      BY <2>7, <3>1, <3>2 DEF Checkpointed, NoMarker, D
  <2>9. Shapes'
    BY <1>2, <1>3, <2>1, <2>2 DEF Shapes, D
  <2>10. Located(p)'
    BY <1>2, <1>3, <2>1, <2>6 DEF Located, At, Starting, Steady, Built
  <2> QED
    BY <2>6, <2>8, <2>9, <2>10, Together
<1>4. CASE disk' = disk /\ run' = Proceeds(run, disk)
  <2>1. Located(p)' /\ DOMAIN run' = DOMAIN run
    <3>1. run.built = [seq |-> Count + 1, prev |-> Count, hash |-> Count + 1,
                       record |-> run.built.record]
      BY <1>2 DEF Built
    <3> QED
      BY <1>1, <1>2, <1>4, <3>1, RoomLocated
  <2> QED
    BY <1>1, <1>2, <1>4, <2>1, Untouched
<1> QED
  BY <1>3, <1>4 DEF FoldCheckpoint

\* What of a compaction that has its checkpoint is left on the disk.
LEMMA Remains ==
  ASSUME Shapes, NEW p, Tiled(p), Checkpointed(p), Compacting
  PROVE  \E k \in 1..Count :
           /\ k = disk.marker.checkpoint /\ Latest(disk).last = k /\ Marked(p, k)
           /\ disk.rotating = <<>> /\ disk.active = Span(history, Top(p), Count)
           /\ Top(p) < Count /\ p \in Nat /\ Count \in Nat
           /\ Chain(history, disk.archives, p) /\ IsSeq(history) /\ IsSeq(disk.archives)
<1>1. PICK k \in 1..Count : k = disk.marker.checkpoint /\ Latest(disk).last = k /\ Marked(p, k)
  BY DEF Checkpointed, Compacting, Marked
<1>2. disk.rotating = <<>> /\ disk.active = Span(history, Top(p), Count)
  BY <1>1 DEF Marked, Tiled
<1>3. Top(p) < Count /\ p \in Nat /\ Count \in Nat
  <2>1. Top(p) # Count /\ Top(p) <= Count /\ Top(p) \in Nat /\ Count \in Nat /\ p \in Nat
    BY <1>1, <1>2, Held DEF Marked, Tiled
  <2> QED
    BY <2>1
<1> QED
  BY <1>1, <1>2, <1>3 DEF Tiled, Shapes

\* The oldest source goes: what the files hold begins behind it.
LEMMA Retires ==
  ASSUME Shapes, NEW p, Tiled(p), Checkpointed(p), Limited(p), Compacting, IsSource(disk),
         history' = history, disk' = Retired(disk)
  PROVE  /\ \E q : Tiled(q)' /\ Checkpointed(q)' /\ Limited(q)'
         /\ Compacting' /\ Count' = Count /\ DOMAIN disk' = DOMAIN disk
         /\ disk'.marker = disk.marker /\ disk'.catalog = disk.catalog
         /\ IsSeq(disk'.archives) /\ disk'.checkpoints = disk.checkpoints
<1> DEFINE A == disk.archives
           B == disk'.archives
<1>1. PICK k \in 1..Count :
        /\ k = disk.marker.checkpoint /\ Latest(disk).last = k /\ Marked(p, k)
        /\ disk.rotating = <<>> /\ disk.active = Span(history, Top(p), Count)
        /\ Top(p) < Count /\ p \in Nat /\ Count \in Nat
        /\ Chain(history, A, p) /\ IsSeq(history) /\ IsSeq(A)
  BY Remains
<1>2. /\ disk'.active = disk.active /\ disk'.rotating = <<>> /\ B = Tail(A)
      /\ disk'.manifest = disk.manifest /\ disk'.marker = disk.marker
      /\ disk'.checkpoints = disk.checkpoints /\ disk'.catalog = disk.catalog
      /\ DOMAIN disk' = DOMAIN disk
  BY <1>1 DEF Shapes, Retired
<1>3. A # <<>> /\ Name(Head(A)) \in disk.marker.sources
  BY DEF IsSource
<1>4. PICK q \in 1..Count :
        /\ q = Name(Head(A)) /\ Chain(history, B, q) /\ IsSeq(B) /\ End(B, q, Len(B)) = Top(p)
        /\ p < q /\ q <= Top(p) /\ Head(A) = A[1] /\ Len(B) = Len(A) - 1
        /\ \A i \in 1..Len(B) : B[i] = A[i + 1] /\ i + 1 \in 1..Len(A)
  BY <1>1, <1>2, <1>3, ChainTail DEF Top, Count
<1> HIDE DEF B
<1>5. Count' = Count /\ Top(q)' = Top(p) /\ Latest(disk') = Latest(disk) /\ Compacting'
  BY <1>2, <1>4 DEF Count, Top, Latest, Compacting, B
<1>6. Len(A) \in Nat \ {0} /\ Len(B) \in Nat
  BY <1>1, <1>3, <1>4, IsSeqLen
<1>7. Tiled(q)'
  <2>1. Top(p) \in Nat /\ q <= Count /\ q < Count /\ Top(p) <= Count
    <3>1. Top(p) \in Nat
      BY Held
    <3> QED
      BY <1>1, <1>4, <3>1
  <2>2. disk.manifest = Top(p)
    BY <1>1, <1>3 DEF Tiled
  <2> QED
    BY <1>1, <1>2, <1>4, <1>5, <2>1, <2>2 DEF Tiled, B
<1>8. Marked(q, k)'
  <2>1. q <= k
    <3>1. 1 \in 1..Len(A) /\ q = Name(A[1]) /\ Name(A[1]) \in disk.marker.sources
      BY <1>3, <1>4, <1>6
    <3> QED
      BY <1>1, <3>1 DEF Marked
  <2>2. k = q \/ \E n \in 1..Len(B) : k = Name(B[n])
    <3>1. PICK n \in 1..Len(A) : k = Name(A[n])
      BY <1>1, <1>4, <2>1 DEF Marked
    <3>2. CASE n = 1
      BY <1>4, <3>1, <3>2
    <3>3. CASE n # 1
      <4>1. PICK m \in 1..Len(B) : n = m + 1
        BY <1>4, <1>6, <3>3
      <4>2. B[m] = A[n]
        BY <1>4, <4>1
      <4> QED
        BY <3>1, <4>2
    <3> QED
      BY <3>2, <3>3
  <2>3. \A i \in 1..Len(B) : Name(B[i]) \in disk.marker.sources <=> Name(B[i]) <= k
    <3>1. \A i \in 1..Len(A) : Name(A[i]) \in disk.marker.sources <=> Name(A[i]) <= k
      BY <1>1 DEF Marked
    <3> QED
      BY <1>4, <3>1
  <2>4. Covered(k)'
    BY <1>1, CoveredKept DEF Marked
  <2> QED
    BY <1>1, <1>2, <1>5, <2>2, <2>3, <2>4 DEF Marked, B
<1>9. Checkpointed(q)'
  <2>1. Covered(k)'
    BY <1>8 DEF Marked
  <2>2. \A i \in 1..Len(disk'.checkpoints) :
          LET c == disk'.checkpoints[i]
          IN  c.last \in Nat /\ c.hash = c.last /\ c.last <= Latest(disk').last
    BY <1>2, <1>5 DEF Checkpointed
  <2>3. disk'.marker.checkpoint = k /\ Latest(disk').last = k /\ disk'.marker # NoMarker
    BY <1>1, <1>2, <1>5 DEF Compacting
  <2> QED
    BY <1>8, <2>1, <2>2, <2>3 DEF Checkpointed
<1>10. Limited(q)'
  <2>1. disk'.active # <<>>
    BY <1>1, <1>2 DEF Marked
  <2>2. Count - p <= MaxTotal + 1 /\ MaxTotal \in Nat
    BY JournalAssumption DEF Limited
  <2>3. Count' - q <= MaxTotal + 1
    BY <1>1, <1>4, <1>5, <2>2
  <2> QED
    BY <2>1, <2>3 DEF Limited
<1> QED
  BY <1>2, <1>4, <1>5, <1>7, <1>9, <1>10 DEF B

\* When no source is left, the files begin behind the checkpoint.
LEMMA RetiredAll ==
  ASSUME Shapes, NEW p, Tiled(p), Checkpointed(p), Compacting, ~IsSource(disk)
  PROVE  disk.marker.checkpoint = p /\ Latest(disk).last = p
<1> DEFINE A == disk.archives
<1>1. PICK k \in 1..Count :
        /\ k = disk.marker.checkpoint /\ Latest(disk).last = k /\ Marked(p, k)
        /\ disk.rotating = <<>> /\ disk.active = Span(history, Top(p), Count)
        /\ Top(p) < Count /\ p \in Nat /\ Count \in Nat
        /\ Chain(history, A, p) /\ IsSeq(history) /\ IsSeq(A)
  BY Remains
<1>2. ASSUME k # p PROVE FALSE
  <2>1. PICK n \in 1..Len(A) : k = Name(A[n])
    BY <1>1, <1>2 DEF Marked
  <2>2. Len(A) \in Nat /\ A # <<>> /\ 1 \in 1..Len(A) /\ Head(A) = A[1]
    BY <1>1, <2>1, IsSeqLen
  <2>3. Name(A[1]) <= Name(A[n])
    <3>1. CASE n = 1
      <4>1. Name(A[1]) \in Nat
        BY <2>1, <3>1
      <4> QED
        BY <3>1, <4>1
    <3>2. CASE n # 1
      <4>1. 1 \in 0..Len(A) /\ n \in 0..Len(A) /\ 1 < n
        BY <2>2, <3>2
      <4>2. p \in Nat /\ IsSeq(history) /\ IsSeq(A) /\ Chain(history, A, p)
        BY <1>1
      <4>3. /\ End(A, p, 1) < End(A, p, n) /\ End(A, p, 1) \in Nat /\ End(A, p, n) \in Nat
            /\ \A i \in 1..Len(A) : End(A, p, i) = Name(A[i])
        BY <4>1, <4>2, ChainEnds
      <4> QED
        BY <2>2, <4>3
    <3> QED
      BY <3>1, <3>2
  <2>4. Name(A[1]) \in disk.marker.sources
    BY <1>1, <2>1, <2>2, <2>3 DEF Marked
  <2> QED
    BY <2>2, <2>4 DEF IsSource
<1> QED
  BY <1>1, <1>2

LEMMA InvRetireSource == JournalInv /\ RetireSource => JournalInv'
<1> SUFFICES ASSUME JournalInv, RetireSource PROVE JournalInv'
  OBVIOUS
<1>1. PICK p \in 0..Count : Good(p)
  BY DEF JournalInv
<1>2. /\ Shapes /\ Compacting /\ Built /\ run.seq = Count /\ run.hash = Count
      /\ run.status = "up" /\ run.at = "retiring" /\ disk.catalog = disk.marker.checkpoint
      /\ history' = history
  BY <1>1 DEF JournalInv, Good, Located, RetireSource, At, Keeps
<1>3. CASE IsSource(disk)
  <2>1. run' = run /\ disk' = Retired(disk)
    BY <1>3 DEF RetireSource
  <2>2. /\ Compacting' /\ Count' = Count /\ DOMAIN disk' = DOMAIN disk
        /\ disk'.marker = disk.marker /\ disk'.catalog = disk.catalog
        /\ IsSeq(disk'.archives) /\ disk'.checkpoints = disk.checkpoints
        /\ \E q : Tiled(q)' /\ Checkpointed(q)' /\ Limited(q)'
    BY <1>1, <1>2, <1>3, <2>1, Retires DEF Good
  <2>3. PICK q : Tiled(q)' /\ Checkpointed(q)' /\ Limited(q)'
    BY <2>2
  <2>4. Shapes'
    BY <1>2, <2>1, <2>2 DEF Shapes
  <2>5. Located(q)'
    BY <1>2, <2>1, <2>2 DEF Located, At, Starting, Built
  <2> QED
    BY <2>3, <2>4, <2>5, Together
<1>4. CASE ~IsSource(disk)
  <2>1. disk.marker.checkpoint = p
    BY <1>1, <1>2, <1>4, RetiredAll DEF Good
  <2>2. /\ disk'.active = disk.active /\ disk'.rotating = disk.rotating
        /\ disk'.archives = disk.archives /\ disk'.manifest = disk.manifest
        /\ disk'.checkpoints = disk.checkpoints /\ disk'.marker # NoMarker
        /\ disk'.marker.checkpoint = disk.marker.checkpoint
        /\ disk'.marker.sources = disk.marker.sources /\ disk'.catalog = disk.catalog
        /\ DOMAIN disk' = DOMAIN disk /\ DOMAIN disk'.marker = DOMAIN disk.marker
    BY <1>2, <1>4 DEF RetireSource, Marks, Shapes, NoMarker
  <2>3. Tiled(p)' /\ Checkpointed(p)' /\ Limited(p)' /\ Compacting' /\ Count' = Count
    BY <1>1, <1>2, <2>2, Continued DEF Good
  <2>4. /\ DOMAIN run' = DOMAIN run /\ run'.status = "up" /\ run'.at = "retired"
        /\ run'.seq = Count /\ run'.hash = Count /\ run'.built = run.built
    BY <1>2, <1>4, Goes DEF RetireSource
  <2>5. Shapes'
    BY <1>2, <2>2, <2>4 DEF Shapes
  <2>6. Located(p)'
    BY <1>2, <2>1, <2>2, <2>3, <2>4 DEF Located, At, Starting, Built
  <2> QED
    BY <2>3, <2>5, <2>6, Together
<1> QED
  BY <1>3, <1>4

LEMMA InvRecoverSources == JournalInv /\ RecoverSources => JournalInv'
<1> SUFFICES ASSUME JournalInv, RecoverSources PROVE JournalInv'
  OBVIOUS
<1>1. PICK p \in 0..Count : Good(p)
  BY DEF JournalInv
<1>2. /\ Shapes /\ Compacting /\ run.status = "starting" /\ run.at = "sources"
      /\ disk.catalog = disk.marker.checkpoint /\ history' = history
  BY <1>1 DEF JournalInv, Good, Located, RecoverSources, Starting, Keeps
<1>3. CASE IsSource(disk)
  <2>1. run' = run /\ disk' = Retired(disk)
    BY <1>3 DEF RecoverSources
  <2>2. /\ Compacting' /\ Count' = Count /\ DOMAIN disk' = DOMAIN disk
        /\ disk'.marker = disk.marker /\ disk'.catalog = disk.catalog
        /\ IsSeq(disk'.archives) /\ disk'.checkpoints = disk.checkpoints
        /\ \E q : Tiled(q)' /\ Checkpointed(q)' /\ Limited(q)'
    BY <1>1, <1>2, <1>3, <2>1, Retires DEF Good
  <2>3. PICK q : Tiled(q)' /\ Checkpointed(q)' /\ Limited(q)'
    BY <2>2
  <2>4. Shapes'
    BY <1>2, <2>1, <2>2 DEF Shapes
  <2>5. Located(q)'
    BY <1>2, <2>1, <2>2 DEF Located, At, Starting
  <2> QED
    BY <2>3, <2>4, <2>5, Together
<1>4. CASE ~IsSource(disk)
  <2>1. disk.marker.checkpoint = p /\ Latest(disk).last = p
    BY <1>1, <1>2, <1>4, RetiredAll DEF Good
  <2>2. Unpublished(p) /\ disk.marker # NoMarker /\ disk' = [disk EXCEPT !.marker = NoMarker]
    BY <1>2, <1>4, <2>1 DEF Unpublished, Compacting, RecoverSources
  <2>3. /\ Tiled(p)' /\ Checkpointed(p)' /\ Limited(p)' /\ Steady'
        /\ DOMAIN disk' = DOMAIN disk /\ DOMAIN disk'.marker = DOMAIN disk.marker
        /\ disk'.archives = disk.archives /\ disk'.checkpoints = disk.checkpoints
    BY <1>1, <1>2, <2>2, Unmarked DEF Good
  <2>4. DOMAIN run' = DOMAIN run /\ run'.status = "starting" /\ run'.at = "load"
    BY <1>2, <1>4, Goes DEF RecoverSources
  <2>5. Shapes'
    BY <1>2, <2>3, <2>4 DEF Shapes
  <2>6. Located(p)'
    BY <2>3, <2>4 DEF Located, At, Starting
  <2> QED
    BY <2>3, <2>5, <2>6, Together
<1> QED
  BY <1>3, <1>4

\* A rotation that was interrupted goes back, or is completed but for the anchor.
LEMMA InvRecoverRotation == JournalInv /\ RecoverRotation => JournalInv'
<1> SUFFICES ASSUME JournalInv, RecoverRotation PROVE JournalInv'
  OBVIOUS
<1>1. PICK p \in 0..Count : Good(p)
  BY DEF JournalInv
<1>2. /\ Shapes /\ run.status = "starting" /\ run.at = "rotation" /\ history' = history
      /\ Tiled(p) /\ Checkpointed(p) /\ Limited(p)
  BY <1>1 DEF JournalInv, Good, RecoverRotation, Starting, Keeps
<1>3. ~(disk.rotating # <<>> /\ disk.active # <<>>)
  BY <1>2 DEF Tiled
<1>4. CASE disk.rotating # <<>> /\ disk.active = <<>>
  <2>1. disk' = [disk EXCEPT !.active = disk.rotating, !.rotating = <<>>] /\ GoesTo("compaction")
    BY <1>4 DEF RecoverRotation
  <2>2. /\ disk'.active = disk.rotating /\ disk'.rotating = <<>>
        /\ disk'.archives = disk.archives /\ disk'.manifest = disk.manifest
        /\ disk'.marker = disk.marker /\ disk'.checkpoints = disk.checkpoints
        /\ disk'.catalog = disk.catalog /\ DOMAIN disk' = DOMAIN disk
    BY <1>2, <2>1 DEF Shapes
  <2>3. DOMAIN run' = DOMAIN run /\ run'.status = "starting" /\ run'.at = "compaction"
    BY <1>2, <2>1, Goes
  <2>4. Shapes' /\ Count' = Count /\ Top(p)' = Top(p) /\ Latest(disk') = Latest(disk)
    BY <1>2, <2>2, <2>3 DEF Shapes, Count, Top, Latest
  <2>5. Tiled(p)'
    BY <1>2, <1>4, <2>2, <2>4 DEF Tiled
  <2>6. Checkpointed(p)'
    <3>1. disk.marker = NoMarker
      BY <1>2, <1>4 DEF Checkpointed, Marked
    <3> QED
      BY <1>2, <2>2, <2>4, <3>1 DEF Checkpointed, Covered, Unpublished
  <2>7. Limited(p)'
    BY <1>2, <1>4, <2>2, <2>4 DEF Limited
  <2>8. Located(p)'
    BY <1>4, <2>2, <2>3 DEF Located, At, Starting
  <2> QED
    BY <2>4, <2>5, <2>6, <2>7, <2>8, Together
<1>5. CASE disk.rotating = <<>> /\ (disk.active # <<>> \/ disk.archives = <<>>)
  <2>1. disk' = disk /\ GoesTo("compaction")
    BY <1>5 DEF RecoverRotation
  <2>2. DOMAIN run' = DOMAIN run /\ run'.status = "starting" /\ run'.at = "compaction"
    BY <1>2, <2>1, Goes
  <2>3. disk.active # <<>> \/ Count = 0
    <3>1. disk.active = <<>> => Top(p) = Count
      BY <1>2, <1>5, Held
    <3>2. disk.archives = <<>> => Top(p) = p
      BY <1>2, Held
    <3>3. p \in Nat /\ Count \in Nat
      BY <1>2, Held
    <3> QED
      BY <1>2, <1>5, <3>1, <3>2, <3>3 DEF Tiled
  <2>4. Located(p)'
    BY <1>2, <1>5, <2>1, <2>2, <2>3 DEF Located, At, Starting, Count
  <2> QED
    BY <1>1, <1>2, <2>1, <2>2, <2>4, Untouched
<1>6. CASE disk.rotating = <<>> /\ disk.active = <<>> /\ disk.archives # <<>>
  <2>1. disk' = [disk EXCEPT !.manifest = Name(Last(disk.archives))] /\ GoesTo("anchor")
    BY <1>6 DEF RecoverRotation
  <2>2. Rotated
    BY <1>2, <1>6 DEF Rotated, Checkpointed, Marked
  <2>3. /\ Tiled(p)' /\ Checkpointed(p)' /\ Limited(p)' /\ Rotated' /\ disk'.manifest = Top(p)'
        /\ DOMAIN disk' = DOMAIN disk /\ disk'.marker = disk.marker
        /\ disk'.archives = disk.archives /\ disk'.checkpoints = disk.checkpoints
    BY <1>2, <2>1, <2>2, Manifested
  <2>4. DOMAIN run' = DOMAIN run /\ run'.status = "starting" /\ run'.at = "anchor"
    BY <1>2, <2>1, Goes
  <2>5. Shapes'
    BY <1>2, <2>3, <2>4 DEF Shapes
  <2>6. Located(p)'
    BY <2>3, <2>4 DEF Located, At, Starting
  <2> QED
    BY <2>3, <2>5, <2>6, Together
<1> QED
  BY <1>3, <1>4, <1>5, <1>6

\* A checkpoint is there exactly when the compaction is past it.
LEMMA CheckpointThere ==
  ASSUME Shapes, NEW p, Tiled(p), Checkpointed(p), disk.marker # NoMarker
  PROVE  /\ HasCheckpoint(disk) => Compacting
         /\ ~HasCheckpoint(disk) => GoesBack(disk) /\ Unpublished(p)
<1> DEFINE C == disk.checkpoints
<1>1. Len(C) \in Nat /\ DOMAIN C = 1..Len(C) /\ (C = <<>> <=> Len(C) = 0)
  BY IsSeqLen DEF Shapes
<1>2. PICK k \in 1..Count :
        k = disk.marker.checkpoint /\ (Prepared(p) \/ Latest(disk).last = k)
  BY DEF Checkpointed, Marked
<1>3. k \in Nat \ {0} /\ p \in Nat
  BY <1>2, Held
<1>4. ASSUME Prepared(p) PROVE ~HasCheckpoint(disk)
  <2>1. p < k /\ Latest(disk).last = p
    BY <1>2, <1>4 DEF Prepared, Unpublished
  <2>2. \A i \in 1..Len(C) : C[i].last \in Nat /\ C[i].last <= p
    BY <2>1 DEF Checkpointed
  <2>3. \A i \in 1..Len(C) : C[i].last # k
    BY <1>3, <2>1, <2>2
  <2> QED
    BY <1>1, <1>2, <2>3 DEF HasCheckpoint, ToSet
<1>5. ASSUME Latest(disk).last = k PROVE HasCheckpoint(disk)
  <2>1. C # <<>>
    BY <1>3, <1>5 DEF Latest, NoCheckpoint
  <2>2. Last(C) \in ToSet(C)
    <3>1. Len(C) \in 1..Len(C)
      BY <1>1, <2>1
    <3> QED
      BY <1>1, <3>1 DEF Last, ToSet
  <2>3. Last(C).last = k
    BY <1>5, <2>1 DEF Latest
  <2> QED
    BY <1>2, <2>2, <2>3 DEF HasCheckpoint
<1>6. HasCheckpoint(disk) => Compacting
  BY <1>2, <1>4 DEF Compacting
<1>7. ~HasCheckpoint(disk) => GoesBack(disk) /\ Unpublished(p)
  BY <1>2, <1>5 DEF GoesBack, Prepared
<1> QED
  BY <1>6, <1>7

\* A compaction goes back without its checkpoint, and forward with it; the start
\* cannot be left without a way.
LEMMA InvRecoverCompaction == JournalInv /\ RecoverCompaction => JournalInv'
<1> SUFFICES ASSUME JournalInv, RecoverCompaction PROVE JournalInv'
  OBVIOUS
<1>1. PICK p \in 0..Count : Good(p)
  BY DEF JournalInv
<1>2. /\ Shapes /\ run.status = "starting" /\ run.at = "compaction" /\ history' = history
      /\ Tiled(p) /\ Checkpointed(p) /\ Limited(p)
      /\ disk.rotating = <<>> /\ (disk.active # <<>> \/ Count = 0)
  BY <1>1 DEF JournalInv, Good, Located, RecoverCompaction, Starting, Keeps
<1>3. CASE disk.marker = NoMarker
  <2>1. disk' = disk /\ GoesTo("load")
    BY <1>3 DEF RecoverCompaction
  <2>2. DOMAIN run' = DOMAIN run /\ run'.status = "starting" /\ run'.at = "load"
    BY <1>2, <2>1, Goes
  <2>3. Steady'
    BY <1>2, <1>3, <2>1 DEF Steady, Count, NoMarker
  <2>4. Located(p)'
    BY <2>2, <2>3 DEF Located, At, Starting
  <2> QED
    BY <1>1, <1>2, <2>1, <2>2, <2>4, Untouched
<1>4. CASE disk.marker # NoMarker /\ ~HasCheckpoint(disk)
  <2>1. GoesBack(disk) /\ Unpublished(p)
    BY <1>2, <1>4, CheckpointThere
  <2>2. disk' = [disk EXCEPT !.marker = NoMarker] /\ GoesTo("load")
    BY <1>4, <2>1 DEF RecoverCompaction
  <2>3. /\ Tiled(p)' /\ Checkpointed(p)' /\ Limited(p)' /\ Steady'
        /\ DOMAIN disk' = DOMAIN disk /\ DOMAIN disk'.marker = DOMAIN disk.marker
        /\ disk'.archives = disk.archives /\ disk'.checkpoints = disk.checkpoints
    BY <1>2, <1>4, <2>1, <2>2, Unmarked
  <2>4. DOMAIN run' = DOMAIN run /\ run'.status = "starting" /\ run'.at = "load"
    BY <1>2, <2>2, Goes
  <2>5. Shapes'
    BY <1>2, <2>3, <2>4 DEF Shapes
  <2>6. Located(p)'
    BY <2>3, <2>4 DEF Located, At, Starting
  <2> QED
    BY <2>3, <2>5, <2>6, Together
<1>5. CASE disk.marker # NoMarker /\ HasCheckpoint(disk)
  <2>1. Compacting /\ ~GoesBack(disk)
    BY <1>2, <1>5, CheckpointThere DEF GoesBack
  <2>2. disk' = [disk EXCEPT !.catalog = disk.marker.checkpoint] /\ GoesTo("sources")
    BY <1>5, <2>1 DEF RecoverCompaction
  <2>3. /\ disk'.active = disk.active /\ disk'.rotating = disk.rotating
        /\ disk'.archives = disk.archives /\ disk'.manifest = disk.manifest
        /\ disk'.checkpoints = disk.checkpoints /\ disk'.marker = disk.marker
        /\ disk'.catalog = disk'.marker.checkpoint /\ DOMAIN disk' = DOMAIN disk
    BY <1>2, <2>2 DEF Shapes
  <2>4. Tiled(p)' /\ Checkpointed(p)' /\ Limited(p)' /\ Compacting'
    <3>1. disk'.marker # NoMarker
      BY <1>5, <2>3
    <3> QED
      BY <1>2, <2>1, <2>3, <3>1, Continued
  <2>5. DOMAIN run' = DOMAIN run /\ run'.status = "starting" /\ run'.at = "sources"
    BY <1>2, <2>2, Goes
  <2>6. Shapes'
    BY <1>2, <2>3, <2>5 DEF Shapes
  <2>7. Located(p)'
    BY <2>3, <2>4, <2>5 DEF Located, At, Starting
  <2> QED
    BY <2>4, <2>6, <2>7, Together
<1> QED
  BY <1>3, <1>4, <1>5

\* The journal of a start that got as far as reading it is in order.
LEMMA InOrder ==
  ASSUME Shapes, NEW p, Tiled(p), Checkpointed(p), Steady
  PROVE  /\ Verified(disk) /\ Chained(disk) /\ Lines(disk) = Span(history, p, Count)
         /\ Latest(disk).last = p /\ p \in Nat /\ Count \in Nat /\ p <= Count
<1>1. /\ p \in Nat /\ Count \in Nat /\ p <= Count /\ Lines(disk) = Span(history, p, Count)
      /\ Unpublished(p) /\ Latest(disk).last = p
  BY Held DEF Steady, Checkpointed, Unpublished
<1>2. Verified(disk)
  <2>1. disk.archives # <<>> => disk.manifest = Name(Last(disk.archives))
    BY SteadyFiles, LatestArchive DEF ManifestNamed
  <2> QED
    BY <1>1, <2>1 DEF Verified, Unpublished
<1>3. Latest(disk).hash = p
  <2>1. CASE disk.checkpoints = <<>>
    BY <1>1, <2>1 DEF Latest, NoCheckpoint
  <2>2. CASE disk.checkpoints # <<>>
    <3>1. Len(disk.checkpoints) \in 1..Len(disk.checkpoints)
      BY <2>2, IsSeqLen DEF Shapes
    <3>2. Last(disk.checkpoints).hash = Last(disk.checkpoints).last
      BY <3>1 DEF Checkpointed, Last
    <3> QED
      BY <1>1, <2>2, <3>2 DEF Latest
  <2> QED
    BY <2>1, <2>2
<1> DEFINE L == Lines(disk)
<1>4. /\ DOMAIN L = 1..Count - p
      /\ \A i \in 1..Count - p : L[i] = LineAt(history, p + i)
  <2>1. /\ IsSeq(Span(history, p, Count)) /\ Len(Span(history, p, Count)) = Count - p
        /\ \A i \in 1..Count - p : Span(history, p, Count)[i] = LineAt(history, p + i)
    BY <1>1, SpanSeq
  <2> QED
    BY <1>1, <2>1, IsSeqLen
<1>5. Chained(disk)
  <2> HIDE DEF L
  <2>1. ASSUME NEW i \in DOMAIN L
        PROVE  /\ L[i].seq = p + i
               /\ L[i].prev = (IF i = 1 THEN p ELSE L[i - 1].hash)
    <3>1. i \in 1..Count - p /\ L[i].seq = p + i /\ L[i].prev = p + i - 1
      <4>1. i \in 1..Count - p
        BY <1>4
      <4>2. PICK m \in Nat : m = p + i
        BY <1>1, <4>1
      <4>3. L[i] = LineAt(history, m)
        BY <1>4, <4>1, <4>2
      <4>4. L[i].seq = m /\ L[i].prev = m - 1
        BY <4>3, LineAtFields
      <4> QED
        BY <1>1, <4>1, <4>2, <4>4
    <3>2. CASE i = 1
      <4>1. p + i - 1 = p
        BY <1>1, <3>2
      <4> QED
        BY <3>1, <3>2, <4>1
    <3>3. CASE i # 1
      <4>1. i - 1 \in 1..Count - p /\ p + (i - 1) = p + i - 1
        BY <1>1, <3>1, <3>3
      <4>2. L[i - 1].hash = p + (i - 1)
        BY <1>4, <4>1 DEF LineAt
      <4> QED
        BY <3>1, <3>3, <4>1, <4>2
    <3> QED
      BY <3>2, <3>3
  <2> QED
    BY <1>1, <1>3, <2>1 DEF Chained, L
<1> QED
  BY <1>1, <1>2, <1>5

\* A start that reads the journal finds it in order, unless a line is torn.
LEMMA InvLoad == JournalInv /\ Load => JournalInv'
<1> SUFFICES ASSUME JournalInv, Load PROVE JournalInv'
  OBVIOUS
<1>1. PICK p \in 0..Count : Good(p)
  BY DEF JournalInv
<1>2. /\ Shapes /\ Steady /\ history' = history /\ disk' = disk /\ Tiled(p) /\ Checkpointed(p)
  BY <1>1 DEF JournalInv, Good, Located, Load
<1>3. Steady' /\ Count' = Count
  BY <1>2 DEF Steady, Count
<1>4. /\ Verified(disk) /\ Chained(disk) /\ Lines(disk) = Span(history, p, Count)
      /\ p \in Nat /\ Count \in Nat /\ p <= Count
  BY <1>2, InOrder
<1>5. CASE disk.torn
  <2>1. DOMAIN run' = DOMAIN run /\ run'.status = "unreadable"
    BY <1>2, <1>5 DEF Load, Shapes
  <2>2. Located(p)'
    BY <1>2, <1>5, <2>1 DEF Located, At, Starting
  <2> QED
    BY <1>1, <1>2, <2>1, <2>2, Untouched
<1>6. CASE ~disk.torn
  <2> DEFINE tail == IF Lines(disk) = <<>> THEN [seq |-> 0, hash |-> 0] ELSE Last(Lines(disk))
  <2>1. run' = [run EXCEPT !.status = "up", !.at = "idle", !.seq = tail.seq, !.hash = tail.hash]
    BY <1>4, <1>6 DEF Load
  <2>2. tail.seq = Count /\ tail.hash = Count
    <3>1. CASE p = Count
      <4>1. Count = 0 /\ Lines(disk) = <<>>
        BY <1>2, <1>4, <3>1, SpanSeq DEF Tiled
      <4> QED
        BY <4>1
    <3>2. CASE p # Count
      <4>1. p < Count
        BY <1>4, <3>2
      <4>2. Lines(disk) # <<>>
        BY <1>4, <4>1, SpanSeq
      <4>3. Last(Lines(disk)).seq = Count /\ Last(Lines(disk)).hash = Count
        BY <1>4, <4>1, SpanName
      <4> QED
        BY <4>2, <4>3
    <3> QED
      BY <3>1, <3>2
  <2> HIDE DEF tail
  <2>3. /\ DOMAIN run' = DOMAIN run /\ run'.status = "up" /\ run'.at = "idle"
        /\ run'.seq = Count /\ run'.hash = Count
    BY <1>2, <2>1, <2>2 DEF Shapes
  <2>4. Located(p)'
    BY <1>3, <2>3 DEF Located, At, Starting
  <2> QED
    BY <1>1, <1>2, <2>3, <2>4, Untouched
<1> QED
  BY <1>5, <1>6

-----------------------------------------------------------------------------
(* The theorems.                                                           *)

\* The invariant holds: whatever was interrupted, the files hold the records
\* after some number p, in order and each once.
THEOREM JournalInductive == Spec => []JournalInv
<1>1. JournalInv /\ [Next]_vars => JournalInv'
  <2> SUFFICES ASSUME JournalInv, [Next]_vars PROVE JournalInv'
    OBVIOUS
  <2>1. CASE UNCHANGED vars
    BY <2>1, SameState DEF vars
  <2>2. CASE Next
    BY <2>2, InvBeginAppend, InvWriteRecord, InvRotateActive, InvRotateArchive,
       InvPublishManifest, InvWriteAnchor, InvPrepareCompaction, InvWriteCheckpoint,
       InvMarkCheckpoint, InvPublishCatalog, InvMarkManifest, InvRetireSource,
       InvFinishCompaction, InvFoldCheckpoint, InvRecoverRotation, InvRecoverAnchor,
       InvRecoverCompaction, InvRecoverSources, InvLoad, InvAsks, InvCrash, InvStart
       DEF Next
  <2> QED
    BY <2>1, <2>2
<1> QED
  BY InvInit, <1>1, PTL DEF Spec

\* A start reads the journal back whatever it finds of a rotation or a
\* compaction; only a torn line stops it.
THEOREM AlwaysReadsBack == Spec => []ReadsBack
<1>1. JournalInv => ReadsBack
  BY DEF JournalInv, Good, Located, ReadsBack
<1> QED
  BY <1>1, JournalInductive, PTL

\* No record is lost but those that a checkpoint covers, and after those
\* nothing was open.
THEOREM RestIsKept == Spec => []KeepsTheRest
<1>1. JournalInv => KeepsTheRest
  <2> SUFFICES ASSUME JournalInv, At("idle") PROVE KeepsTheRest
    BY DEF KeepsTheRest
  <2>1. PICK p \in 0..Count : Good(p)
    BY DEF JournalInv
  <2>2. /\ Shapes /\ Steady /\ Tiled(p) /\ Checkpointed(p)
        /\ run.seq = Len(history) /\ run.hash = Len(history)
    BY <2>1 DEF JournalInv, Good, Located, At, Count
  <2>3. /\ Lines(disk) = Span(history, p, Count) /\ Latest(disk).last = p
        /\ p \in Nat /\ Count \in Nat /\ p <= Count
    BY <2>2, InOrder
  <2>4. Records(Lines(disk)) = SubSeq(history, Latest(disk).last + 1, Len(history))
    <3>1. IsSeq(history) /\ Count <= Len(history)
      BY <2>2, <2>3 DEF Shapes, Count
    <3>2. Records(Span(history, p, Count)) = SubSeq(history, p + 1, Count)
      BY <2>3, <3>1, SpanRecords
    <3> QED
      BY <2>3, <3>2 DEF Count
  <2>5. Closed(FoldLeft(ScannedRecord, Unscanned, SubSeq(history, 1, Latest(disk).last)))
    <3>1. Scan(SubSeq(history, 1, Latest(disk).last)) = Unscanned
      BY <2>2 DEF Checkpointed, Covered
    <3> QED
      BY <3>1 DEF Scan, Closed, Unscanned
  <2> QED
    BY <2>2, <2>4, <2>5 DEF KeepsTheRest
<1> QED
  BY <1>1, JournalInductive, PTL

\* The files stay within the limit, but for the anchor of the last rotation.
THEOREM StaysWithinLimit == Spec => []WithinLimit
<1>1. JournalInv => WithinLimit
  <2> SUFFICES ASSUME JournalInv PROVE WithinLimit
    OBVIOUS
  <2>1. PICK p \in 0..Count : Good(p)
    BY DEF JournalInv
  <2>2. Total(disk) = Count - p /\ Count - p <= MaxTotal + 1
    BY <2>1, Held DEF JournalInv, Good, Limited
  <2> QED
    BY <2>2 DEF WithinLimit
<1> QED
  BY <1>1, JournalInductive, PTL
=============================================================================
