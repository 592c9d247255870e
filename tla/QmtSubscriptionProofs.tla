------------------------ MODULE QmtSubscriptionProofs ------------------------
(***************************************************************************)
(* Proofs about QmtSubscription, for any set of symbols and any bounds.    *)
(*                                                                         *)
(* The replay of a journal is a fold, which the provers cannot unfold: the *)
(* first part gives it as a recursion over the length of the journal, and  *)
(* shows that one record more is one step more (AfterAppend).  What it     *)
(* says does not depend on the confirmations ahead, but for the number of  *)
(* unknown calls (ReadableAppend), so the proofs follow one replay, Base.  *)
(*                                                                         *)
(* Types and calls: a command of the bridge or a reply under way is that   *)
(* of the slot, if it has its callSequence under the lease in force        *)
(* (CallInv).  A step is a course, the controller after it with the        *)
(* records it writes, and each is followed to its end, or to the record at *)
(* which the journal fails (Follows, Stopped).                             *)
(*                                                                         *)
(* The registry: every prefix of what a course writes reads back to a      *)
(* sound state (Prefixed), and the whole of it to the registry the course  *)
(* leaves (Lands).  That needs ids that are given out once: an id the      *)
(* journal knows was told before, and a reply under way has a new one.     *)
(***************************************************************************)
EXTENDS QmtSubscription, TLAPS, FiniteSetTheorems, WellFoundedInduction

-----------------------------------------------------------------------------
(* The replay as a recursion over the length of the journal.               *)

\* Induction, with the property as a set: what remains outside would have a
\* least element.
LEMMA NatSetInduction ==
  ASSUME NEW S, 0 \in S, \A n \in Nat : n \in S => n + 1 \in S
  PROVE  Nat \subseteq S
<1> DEFINE T == Nat \ S
           R == OpToRel(<, Nat)
<1>1. SUFFICES ASSUME T # {} PROVE FALSE
  OBVIOUS
<1>2. PICK x \in T : \A y \in T : <<y, x>> \notin R
  <2> HIDE DEF R, T
  <2>1. IsWellFoundedOn(R, Nat)
    BY NatLessThanWellFounded DEF R
  <2>2. T \subseteq Nat
    BY DEF T
  <2> QED
    BY <2>1, <2>2, <1>1, WFMin
<1>3. x - 1 \in T
  OBVIOUS
<1>4. <<x - 1, x>> \in R
  BY <1>3 DEF OpToRel
<1> QED
  BY <1>2, <1>3, <1>4

\* The recursion behind the fold, and what it computes.
Folded(g, C, records, s) ==
  IF s = {} THEN Blank ELSE ReplayedRecord(g[s \ {Max(s)}], records[Max(s)], C)
Iter(C, records) == CHOOSE g : g = [s \in SUBSET DOMAIN records |-> Folded(g, C, records, s)]
After(C, records) == Iter(C, records)[DOMAIN records]

LEMMA ReplayIsAfter ==
  ASSUME NEW records
  PROVE  Replay(records) = Settled(After(Confirmed(records), records))
  BY DEF Replay, FoldLeft, MapThenFoldSet, After, Iter, Folded

LEMMA LastIsMax ==
  ASSUME NEW n \in Nat, NEW s \in SUBSET (1..n + 1), n + 1 \in s
  PROVE  Max(s) = n + 1 /\ s \ {Max(s)} \in SUBSET (1..n)
<1>1. \A x \in s : x \in Nat /\ x <= n + 1
  OBVIOUS
<1>2. \E x \in s : \A y \in s : x >= y
  BY <1>1
<1>3. Max(s) \in s /\ \A y \in s : Max(s) >= y
  BY <1>2 DEF Max
<1>4. Max(s) = n + 1
  <2> DEFINE x == Max(s)
  <2>1. x \in Nat /\ x <= n + 1 /\ x >= n + 1
    BY <1>1, <1>3
  <2> HIDE DEF x
  <2>2. x = n + 1
    BY <2>1
  <2> QED
    BY <2>2 DEF x
<1>5. \A x \in s \ {n + 1} : x \in 1..n
  OBVIOUS
<1> QED
  BY <1>4, <1>5

\* The recursion has a solution: one for n records gives one for n + 1.
LEMMA IterExists ==
  ASSUME NEW C, NEW records, NEW n \in Nat, DOMAIN records = 1..n
  PROVE  \E g : g = [s \in SUBSET DOMAIN records |-> Folded(g, C, records, s)]
<1> DEFINE Solves(g, m) == g = [s \in SUBSET (1..m) |-> Folded(g, C, records, s)]
           N == {m \in Nat : \E g : Solves(g, m)}
<1>1. 0 \in N
  <2> DEFINE g == [s \in SUBSET (1..0) |-> Blank]
  <2>1. \A s \in SUBSET (1..0) : Folded(g, C, records, s) = Blank
    BY DEF Folded
  <2>2. Solves(g, 0)
    BY <2>1
  <2> HIDE DEF g, Solves
  <2> QED
    BY <2>2
<1>2. ASSUME NEW m \in Nat, m \in N PROVE m + 1 \in N
  <2>1. PICK g : Solves(g, m)
    BY <1>2
  <2> DEFINE h == [s \in SUBSET (1..m + 1) |-> IF m + 1 \in s THEN Folded(g, C, records, s) ELSE g[s]]
  <2>2. ASSUME NEW s \in SUBSET (1..m + 1) PROVE h[s] = Folded(h, C, records, s)
    <3>1. CASE m + 1 \in s
      <4>1. h[s] = Folded(g, C, records, s)
        BY <3>1
      <4>2. h[s \ {Max(s)}] = g[s \ {Max(s)}]
        <5>1. s \ {Max(s)} \in SUBSET (1..m) /\ m + 1 \notin s \ {Max(s)}
          BY <3>1, LastIsMax
        <5>2. s \ {Max(s)} \in SUBSET (1..m + 1)
          OBVIOUS
        <5> QED
          BY <5>1, <5>2
      <4> QED
        BY <4>1, <4>2 DEF Folded
    <3>2. CASE m + 1 \notin s
      <4>0. s \in SUBSET (1..m)
        BY <3>2
      <4>1. h[s] = g[s] /\ g[s] = Folded(g, C, records, s)
        BY <3>2, <4>0, <2>1
      <4>2. h[s \ {Max(s)}] = g[s \ {Max(s)}]
        BY <3>2
      <4> QED
        BY <4>1, <4>2 DEF Folded
    <3> QED
      BY <3>1, <3>2
  <2>3. Solves(h, m + 1)
    <3>1. h = [s \in SUBSET (1..m + 1) |-> h[s]]
      OBVIOUS
    <3> HIDE DEF h
    <3> QED
      BY <3>1, <2>2
  <2> HIDE DEF h, Solves
  <2> QED
    BY <2>3
<1>3. Nat \subseteq N
  <2> HIDE DEF N
  <2> QED
    BY <1>1, <1>2, NatSetInduction
<1>4. n \in N
  BY <1>3
<1> QED
  BY <1>4

\* What the recursion says of a prefix depends on nothing else.
LEMMA PrefixStep ==
  ASSUME NEW C, NEW records, NEW n \in Nat, DOMAIN records = 1..n
  PROVE  /\ Iter(C, records)[1..0] = Blank
         /\ \A m \in Nat : m + 1 <= n =>
              Iter(C, records)[1..m + 1] = ReplayedRecord(Iter(C, records)[1..m], records[m + 1], C)
<1>1. Iter(C, records) = [s \in SUBSET (1..n) |-> Folded(Iter(C, records), C, records, s)]
  BY IterExists DEF Iter
<1>2. 1..0 = {} /\ 1..0 \in SUBSET (1..n)
  OBVIOUS
<1>3. Iter(C, records)[1..0] = Blank
  BY <1>1, <1>2 DEF Folded
<1>4. ASSUME NEW m \in Nat, m + 1 <= n
      PROVE  Iter(C, records)[1..m + 1] = ReplayedRecord(Iter(C, records)[1..m], records[m + 1], C)
  <2> DEFINE s == 1..m + 1
  <2>1. s \in SUBSET (1..n) /\ m + 1 \in s /\ s # {}
    <3>1. s \in SUBSET (1..n)
      BY <1>4
    <3>2. m + 1 \in s
      OBVIOUS
    <3> HIDE DEF s
    <3> QED
      BY <3>1, <3>2
  <2>2. Max(s) = m + 1
    <3> HIDE DEF s
    <3>1. s \in SUBSET (1..m + 1)
      BY DEF s
    <3> QED
      BY <2>1, <3>1, LastIsMax
  <2>3. s \ {m + 1} = 1..m
    OBVIOUS
  <2>4. Iter(C, records)[s] = Folded(Iter(C, records), C, records, s)
    BY <1>1, <2>1
  <2> QED
    BY <2>1, <2>2, <2>3, <2>4 DEF Folded
<1> QED
  BY <1>3, <1>4

Begins(r1, n1, r2, n2) ==
  /\ n1 \in Nat /\ n2 \in Nat /\ n1 <= n2
  /\ DOMAIN r1 = 1..n1 /\ DOMAIN r2 = 1..n2
  /\ \A i \in 1..n1 : r1[i] = r2[i]

LEMMA PrefixAgrees ==
  ASSUME NEW C, NEW r1, NEW r2, NEW n1, NEW n2, Begins(r1, n1, r2, n2)
  PROVE  Iter(C, r1)[1..n1] = Iter(C, r2)[1..n1]
<1> USE DEF Begins
<1> DEFINE N == {m \in Nat : m <= n1 => Iter(C, r1)[1..m] = Iter(C, r2)[1..m]}
<1>1. 0 \in N
  BY PrefixStep
<1>2. ASSUME NEW m \in Nat, m \in N PROVE m + 1 \in N
  <2>1. ASSUME m + 1 <= n1 PROVE Iter(C, r1)[1..m + 1] = Iter(C, r2)[1..m + 1]
    <3>1. Iter(C, r1)[1..m] = Iter(C, r2)[1..m] /\ r1[m + 1] = r2[m + 1] /\ m + 1 <= n2
      BY <1>2, <2>1
    <3>2. Iter(C, r1)[1..m + 1] = ReplayedRecord(Iter(C, r1)[1..m], r1[m + 1], C)
      BY <2>1, PrefixStep
    <3>3. Iter(C, r2)[1..m + 1] = ReplayedRecord(Iter(C, r2)[1..m], r2[m + 1], C)
      BY <3>1, PrefixStep
    <3> QED
      BY <3>1, <3>2, <3>3
  <2> QED
    BY <2>1
<1>3. Nat \subseteq N
  <2> HIDE DEF N
  <2> QED
    BY <1>1, <1>2, NatSetInduction
<1> QED
  BY <1>3

\* The replay of one record more is the replay of that record.
LEMMA AfterAppend ==
  ASSUME NEW C, NEW T, NEW records \in Seq(T), NEW r \in T
  PROVE  After(C, Append(records, r)) = ReplayedRecord(After(C, records), r, C)
<1> DEFINE longer == Append(records, r)
           n == Len(records)
<1>1. /\ n \in Nat /\ DOMAIN records = 1..n /\ DOMAIN longer = 1..n + 1 /\ longer[n + 1] = r
      /\ \A i \in 1..n : records[i] = longer[i]
  OBVIOUS
<1> HIDE DEF longer, n
<1>2. Iter(C, records)[1..n] = Iter(C, longer)[1..n]
  <2> DEFINE k == n + 1
  <2>1. k \in Nat /\ n <= k /\ DOMAIN longer = 1..k
    BY <1>1
  <2> HIDE DEF k
  <2>2. Begins(records, n, longer, k)
    BY <1>1, <2>1 DEF Begins
  <2> QED
    BY <2>2, PrefixAgrees
<1>3. Iter(C, longer)[1..n + 1] = ReplayedRecord(Iter(C, longer)[1..n], r, C)
  BY <1>1, PrefixStep
<1> QED
  BY <1>1, <1>2, <1>3 DEF After, longer

LEMMA AfterNothing == ASSUME NEW C PROVE After(C, <<>>) = Blank
<1>1. DOMAIN <<>> = 1..0
  OBVIOUS
<1> QED
  BY <1>1, PrefixStep DEF After

-----------------------------------------------------------------------------
(* Types of what is replayed.                                              *)

Methods == {"none", "cancel", "whole", "single"}
Says == {"none", "id", "true", "false", "other", "failure"}
Kinds == {"operator_observation", "native_intent", "native_result", "registry_transition",
          "retained_recovery", "recovery_intent", "recovery_result", "recovery_terminal"}
Whats == Methods \cup Says \cup {"unsubscribed", "confirmed", "unconfirmed"}
WholeType == [id : Nat, symbols : SUBSET Symbols]
HandleType == [id : Nat, about : SUBSET Symbols]
CandidateType == [id : Nat, about : SUBSET Symbols, tried : BOOLEAN]
KnownType == [whole : WholeType, singles : [Symbols -> Nat], retained : SUBSET HandleType,
              candidates : SUBSET CandidateType, unknown : Nat]
IntentType == [seq : Nat, method : Whats, id : Nat, about : SUBSET Symbols]
RecordType == [kind : Kinds, seq : Nat, what : Whats, id : Nat, about : SUBSET Symbols]
ReplayType == {s \in [known : KnownType, pending : SUBSET IntentType] : IsFiniteSet(s.pending)}

LEMMA TriedTyped ==
  ASSUME NEW cs \in SUBSET CandidateType, NEW ids
  PROVE  /\ Tried(cs, ids) \in SUBSET CandidateType
         /\ \A d \in Tried(cs, ids) : \E c \in cs :
              d.id = c.id /\ d.about = c.about /\ (d.tried <=> c.tried \/ c.id \in ids)
         /\ \A c \in cs : \E d \in Tried(cs, ids) :
              d.id = c.id /\ d.about = c.about /\ (d.tried <=> c.tried \/ c.id \in ids)
<1>1. ASSUME NEW c \in cs
      PROVE  LET d == [c EXCEPT !.tried = @ \/ c.id \in ids]
             IN  /\ d \in CandidateType /\ d.id = c.id /\ d.about = c.about
                 /\ d.tried <=> c.tried \/ c.id \in ids
  <2> DEFINE b == c.tried \/ c.id \in ids
             d == [c EXCEPT !.tried = b]
  <2>1. b \in BOOLEAN
    BY Zenon
  <2>2. c \in CandidateType
    OBVIOUS
  <2> HIDE DEF b
  <2>3. d \in CandidateType /\ d.id = c.id /\ d.about = c.about /\ d.tried = b
    BY <2>1, <2>2 DEF CandidateType
  <2> QED
    BY <2>3 DEF b
<1> DEFINE Mark(c) == [c EXCEPT !.tried = @ \/ c.id \in ids]
<1>2. Tried(cs, ids) = {Mark(c) : c \in cs}
  BY DEF Tried
<1>3. \A c \in cs : /\ Mark(c) \in CandidateType /\ Mark(c).id = c.id /\ Mark(c).about = c.about
                    /\ Mark(c).tried <=> c.tried \/ c.id \in ids
  BY <1>1
<1> HIDE DEF Mark
<1> QED
  BY <1>2, <1>3

LEMMA FoundTyped ==
  ASSUME NEW m \in KnownType, NEW id \in Nat, NEW about \in SUBSET Symbols
  PROVE  Found(m, id, about) \in KnownType
<1>1. Candidate(id, about, FALSE) \in CandidateType
  BY DEF Candidate, CandidateType
<1>2. WithoutId(m.candidates, id) \cup {Candidate(id, about, FALSE)} \in SUBSET CandidateType
  BY <1>1 DEF WithoutId, KnownType
<1> QED
  BY <1>2 DEF Found, KnownType

LEMMA UnknownTyped == ASSUME NEW m \in KnownType PROVE Unknown(m) \in KnownType
  BY DEF Unknown, KnownType

LEMMA ResolvedTyped ==
  ASSUME NEW m \in KnownType, NEW id \in Nat
  PROVE  Resolved(m, id) \in KnownType
<1> DEFINE c == CHOOSE x \in m.candidates : x.id = id
           w == IF c.about = {} /\ m.whole.id = id THEN NoWhole ELSE m.whole
           ss == [s \in Symbols |-> IF s \in c.about /\ m.singles[s] = id THEN 0 ELSE m.singles[s]]
<1>1. WithoutId(m.candidates, id) \in SUBSET CandidateType
  BY DEF WithoutId, KnownType
<1>2. w \in WholeType
  BY DEF NoWhole, WholeType, KnownType
<1>3. ss \in [Symbols -> Nat]
  BY DEF KnownType
<1>4. m.retained \ {Handle(id, c.about)} \in SUBSET HandleType
  BY DEF KnownType
<1>5. Resolved(m, id) = IF id \notin Ids(m.candidates) THEN m
                        ELSE [m EXCEPT !.candidates = WithoutId(m.candidates, id), !.whole = w,
                                       !.singles = ss, !.retained = m.retained \ {Handle(id, c.about)}]
  BY DEF Resolved, KnownType
<1> HIDE DEF c, w, ss
<1> QED
  BY <1>1, <1>2, <1>3, <1>4, <1>5 DEF KnownType

LEMMA BlankTyped == Blank \in ReplayType
  BY FS_EmptySet DEF Blank, Forgotten, NoWhole, ReplayType, KnownType, WholeType

LEMMA ReplayedTransitionTyped ==
  ASSUME NEW m \in KnownType, NEW r \in RecordType
  PROVE  ReplayedTransition(m, r) \in KnownType
<1>0. r.id \in Nat /\ r.about \in SUBSET Symbols
  BY DEF RecordType
<1>1. CASE r.what = "whole"
  <2> DEFINE n == [m EXCEPT !.whole = [id |-> r.id, symbols |-> r.about]]
  <2>1. n \in KnownType
    BY <1>0 DEF KnownType, WholeType
  <2> HIDE DEF n
  <2>2. Found(n, r.id, {}) \in KnownType
    BY <1>0, <2>1, FoundTyped
  <2> QED
    BY <1>1, <2>2 DEF ReplayedTransition, n
<1>2. CASE r.what = "single"
  <2> DEFINE ss == [s \in Symbols |-> IF s \in r.about THEN r.id ELSE m.singles[s]]
             n == [m EXCEPT !.singles = ss]
  <2>1. ss \in [Symbols -> Nat]
    BY <1>0 DEF KnownType
  <2> HIDE DEF ss
  <2>2. n \in KnownType
    BY <2>1 DEF KnownType
  <2>3. ReplayedTransition(m, r) = Found(n, r.id, r.about)
    BY <1>2 DEF ReplayedTransition, ss
  <2> HIDE DEF n
  <2> QED
    BY <1>0, <2>2, <2>3, FoundTyped
<1>3. CASE r.what \notin {"whole", "single"}
  BY <1>0, <1>3, ResolvedTyped DEF ReplayedTransition
<1> QED
  BY <1>1, <1>2, <1>3

LEMMA ReplayedResultTyped ==
  ASSUME NEW m \in KnownType, NEW p \in IntentType, NEW what, NEW id \in Nat
  PROVE  ReplayedResult(m, p, what, id) \in KnownType
<1>1. p.id \in Nat /\ p.about \in SUBSET Symbols
  BY DEF IntentType
<1>2. (IF p.method = "whole" THEN {} ELSE p.about) \in SUBSET Symbols
  BY <1>1
<1>3. CASE p.method = "cancel"
  BY <1>1, <1>3, ResolvedTyped DEF ReplayedResult
<1>4. CASE p.method # "cancel" /\ what = "id"
  BY <1>2, <1>4, FoundTyped DEF ReplayedResult
<1>5. CASE p.method # "cancel" /\ what # "id"
  BY <1>5, UnknownTyped DEF ReplayedResult
<1> QED
  BY <1>3, <1>4, <1>5

LEMMA ReplayedAttemptTyped ==
  ASSUME NEW m \in KnownType, NEW id \in Nat, NEW C
  PROVE  ReplayedAttempt(m, id, C) \in KnownType
<1>1. Tried(m.candidates, {id}) \in SUBSET CandidateType
  BY TriedTyped DEF KnownType
<1>2. [m EXCEPT !.candidates = Tried(m.candidates, {id})] \in KnownType
  BY <1>1 DEF KnownType
<1> QED
  BY <1>2, UnknownTyped DEF ReplayedAttempt

\* The intent a native_intent leaves, and the one a native_result is about.
Intent(r) == [seq |-> r.seq, method |-> r.what, id |-> r.id, about |-> r.about]
Intended(s, r) == {p \in s.pending : p.seq # r.seq} \cup {Intent(r)}
About(s, r) == CHOOSE p \in s.pending : p.seq = r.seq

LEMMA ReplayedTyped ==
  ASSUME NEW s \in ReplayType, NEW r \in RecordType, NEW C
  PROVE  ReplayedRecord(s, r, C) \in ReplayType
<1> DEFINE m == s.known
           with(k) == [s EXCEPT !.known = k]
<1>0. /\ m \in KnownType /\ s.pending \in SUBSET IntentType /\ IsFiniteSet(s.pending)
      /\ s = [known |-> m, pending |-> s.pending] /\ r.id \in Nat /\ r.about \in SUBSET Symbols
  BY DEF ReplayType, RecordType
<1>1. \A k \in KnownType : with(k) \in ReplayType
  BY DEF ReplayType
<1>2. CASE r.kind = "operator_observation"
  BY <1>2, BlankTyped DEF ReplayedRecord
<1>3. CASE r.kind = "native_intent"
  <2>1. Intent(r) \in IntentType
    BY DEF Intent, IntentType, RecordType
  <2>2. Intended(s, r) \in SUBSET IntentType
    BY <1>0, <2>1 DEF Intended
  <2>3. IsFiniteSet(Intended(s, r))
    <3>1. IsFiniteSet({p \in s.pending : p.seq # r.seq})
      BY <1>0, FS_Subset
    <3> QED
      BY <3>1, FS_AddElement DEF Intended
  <2>4. ReplayedRecord(s, r, C) = [s EXCEPT !.pending = Intended(s, r)]
    BY <1>0, <1>3 DEF ReplayedRecord, Intended, Intent
  <2>5. [s EXCEPT !.pending = Intended(s, r)] = [known |-> m, pending |-> Intended(s, r)]
    BY DEF ReplayType
  <2> QED
    BY <1>0, <2>2, <2>3, <2>4, <2>5 DEF ReplayType
<1>4. CASE r.kind = "native_result" /\ \E p \in s.pending : p.seq = r.seq
  <2>1. About(s, r) \in s.pending
    BY <1>4 DEF About
  <2>2. ReplayedResult(m, About(s, r), r.what, r.id) \in KnownType
    BY <1>0, <2>1, ReplayedResultTyped
  <2>3. IsFiniteSet(s.pending \ {About(s, r)})
    BY <1>0, FS_RemoveElement
  <2>4. ReplayedRecord(s, r, C) = [known |-> ReplayedResult(m, About(s, r), r.what, r.id),
                                   pending |-> s.pending \ {About(s, r)}]
    BY <1>4 DEF ReplayedRecord, About
  <2> QED
    BY <1>0, <2>2, <2>3, <2>4 DEF ReplayType
<1>5. CASE r.kind = "native_result" /\ ~\E p \in s.pending : p.seq = r.seq
  BY <1>0, <1>1, <1>5, UnknownTyped DEF ReplayedRecord
<1>6. CASE r.kind = "registry_transition"
  BY <1>0, <1>1, <1>6, ReplayedTransitionTyped DEF ReplayedRecord
<1>7. CASE r.kind = "retained_recovery"
  <2> DEFINE n == [m EXCEPT !.retained = m.retained \cup {Handle(r.id, r.about)}]
  <2>1. n \in KnownType
    <3>1. Handle(r.id, r.about) \in HandleType
      BY <1>0 DEF Handle, HandleType
    <3> QED
      BY <1>0, <3>1 DEF KnownType
  <2>2. ReplayedRecord(s, r, C) = with(Found(n, r.id, r.about))
    BY <1>7 DEF ReplayedRecord
  <2> HIDE DEF n
  <2>3. Found(n, r.id, r.about) \in KnownType
    BY <1>0, <2>1, FoundTyped
  <2> QED
    BY <1>1, <2>2, <2>3
<1>8. CASE r.kind = "recovery_intent"
  BY <1>0, <1>1, <1>8, ReplayedAttemptTyped DEF ReplayedRecord
<1>9. CASE r.kind = "recovery_terminal"
  BY <1>0, <1>1, <1>9, ResolvedTyped DEF ReplayedRecord
<1>10. CASE r.kind \notin {"operator_observation", "native_intent", "native_result",
               "registry_transition", "retained_recovery", "recovery_intent", "recovery_terminal"}
  BY <1>10 DEF ReplayedRecord
<1> QED
  BY <1>2, <1>3, <1>4, <1>5, <1>6, <1>7, <1>8, <1>9, <1>10

LEMMA SettledTyped ==
  ASSUME NEW s \in ReplayType
  PROVE  Settled(s) \in KnownType
<1> DEFINE cancels == {p.id : p \in {x \in s.pending : x.method = "cancel"}}
<1>1. s.known \in KnownType /\ IsFiniteSet(s.pending)
  BY DEF ReplayType
<1>2. Cardinality(s.pending) \in Nat
  BY <1>1, FS_CardinalityType
<1>3. Tried(s.known.candidates, cancels) \in SUBSET CandidateType
  BY <1>1, TriedTyped DEF KnownType
<1>4. Settled(s) = [s.known EXCEPT !.unknown = s.known.unknown + Cardinality(s.pending),
                                   !.candidates = Tried(s.known.candidates, cancels)]
  BY <1>1 DEF Settled, KnownType
<1> DEFINE tried == Tried(s.known.candidates, cancels)
           total == s.known.unknown + Cardinality(s.pending)
<1>5. total \in Nat
  BY <1>1, <1>2 DEF KnownType
<1> HIDE DEF cancels, tried, total
<1> QED
  BY <1>1, <1>3, <1>4, <1>5 DEF KnownType, tried, total

-----------------------------------------------------------------------------
(* The inductive invariant.                                                *)

\* What is replayed does not depend on the confirmations ahead, but for the
\* number of unknown calls.
Same(s, t) ==
  /\ s.pending = t.pending
  /\ s.known.whole = t.known.whole /\ s.known.singles = t.known.singles
  /\ s.known.retained = t.known.retained /\ s.known.candidates = t.known.candidates

Base(records) == After({}, records)
Readable(records) ==
  \A C : After(C, records) \in ReplayType /\ Same(After(C, records), Base(records))

Phases == {"not_started", "running", "degraded", "completed"}
TaskType == [kind : {"none", "subscribe", "unsubscribe", "sync", "startup"}, todo : SUBSET HandleType,
             desired : SUBSET Symbols, failed : BOOLEAN]
SlotType == [seq : Nat, method : Methods, id : Nat, about : SUBSET Symbols, exposed : BOOLEAN]
MemoryType ==
  [whole : WholeType, singles : [Symbols -> Nat], retained : SUBSET HandleType,
   candidates : SUBSET CandidateType, unknown : Nat, required : BOOLEAN, phase : Phases,
   seq : Nat, slot : SlotType, task : TaskType]
CommandType == [seq : Nat, method : Methods, id : Nat, about : SUBSET Symbols]
ReplyType == [call : CommandType, says : Says, id : Nat, lease : Nat]

\* The types, and what the positions and the counters of leases obey.
StateTypeOK ==
  /\ memory \in MemoryType
  /\ journal \in Seq(RecordType)
  /\ healthy \in BOOLEAN /\ intact \in BOOLEAN /\ (healthy => intact)
  /\ boot \in Nat \ {0} /\ owner \in Int
  /\ bridge \in [started : Nat, lease : Nat, command : CommandType] /\ bridge.lease <= boot
  /\ late \in ReplyType /\ late.lease <= boot
  /\ live \subseteq HandleType /\ nextId \in Nat \ {0}
  /\ granted \subseteq Nat

\* A call in the terminal, or whose reply is under way, is the one in the
\* slot if it has its callSequence and the lease in force.
CallKnown(command, lease) ==
  command # NoCommand /\ lease = boot =>
    /\ command.seq \in 1..memory.seq
    /\ memory.slot.seq = command.seq => Answering(command)
CallInv ==
  /\ memory.slot.seq \in {0, memory.seq}
  /\ memory.slot # NoSlot <=> memory.slot.seq # 0
  /\ memory.task.kind = "none" <=> memory.slot = NoSlot
  /\ memory.task.kind = "none" => memory.task = NoTask
  /\ memory.phase = "not_started" => memory.task = NoTask
  /\ CallKnown(bridge.command, bridge.lease)
  /\ late # NoReply => CallKnown(late.call, late.lease)
  /\ late # NoReply => late.call # NoCommand


-----------------------------------------------------------------------------
(* Types and calls.                                                        *)

TypeInv == StateTypeOK /\ Readable(journal) /\ CallInv

\* A course that may still be continued, and a course that is complete.
TypedCourse(c) ==
  /\ c.memory \in MemoryType /\ c.records \in Seq(RecordType)
  /\ c.records # <<>> => c.records[1].kind # "registry_transition"
Idle(c) ==
  /\ TypedCourse(c)
  /\ c.memory.slot = NoSlot /\ c.memory.seq = memory.seq
  /\ c.memory.task.kind # "none" /\ c.memory.phase # "not_started"
Follows(c) ==
  /\ TypedCourse(c)
  /\ \/ c.memory.slot = NoSlot /\ c.memory.task = NoTask /\ c.memory.seq = memory.seq
     \/ /\ c.memory.seq = memory.seq + 1 /\ c.memory.slot.seq = c.memory.seq
        /\ c.memory.task.kind # "none"
  /\ c.memory.phase # "not_started"

LEMMA AppendTyped ==
  ASSUME NEW T, NEW rs \in Seq(T), NEW r \in T
  PROVE  Append(rs, r) \in Seq(T) /\ Append(rs, r) # <<>>
         /\ Append(rs, r)[1] = IF rs = <<>> THEN r ELSE rs[1]
<1>1. Append(rs, r) \in Seq(T) /\ Append(rs, r) # <<>>
  <2>1. Len(Append(rs, r)) = Len(rs) + 1 /\ Len(rs) \in Nat
    OBVIOUS
  <2>2. Append(rs, r) \in Seq(T)
    OBVIOUS
  <2> QED
    BY <2>1, <2>2
<1>2. CASE rs = <<>>
  BY <1>2
<1>3. CASE rs # <<>>
  <2>1. 1 \in 1..Len(rs)
    BY <1>3
  <2> QED
    BY <1>3, <2>1
<1> QED
  BY <1>1, <1>2, <1>3

LEMMA ConstantsTyped ==
  /\ NoSlot \in SlotType /\ NoTask \in TaskType /\ NoWhole \in WholeType
  /\ NoSlot.seq = 0 /\ NoTask.kind = "none" /\ NoSlot.exposed = FALSE
  /\ NoCommand \in CommandType /\ NoReply \in ReplyType
  BY DEF NoSlot, NoTask, Task, NoWhole, NoCommand, NoReply, Reply, SlotType, TaskType, WholeType,
         CommandType, ReplyType, Methods, Says

LEMMA EndedTyped ==
  ASSUME NEW m \in MemoryType
  PROVE  /\ Ended(m) \in MemoryType /\ Ended(m).slot = NoSlot /\ Ended(m).task = NoTask
         /\ Ended(m) = [m EXCEPT !.slot = NoSlot, !.task = NoTask]
         /\ Ended(m).seq = m.seq /\ Ended(m).phase = m.phase /\ Ended(m).required = m.required
         /\ Ended(m).candidates = m.candidates /\ Ended(m).unknown = m.unknown
         /\ Ended(m).whole = m.whole /\ Ended(m).singles = m.singles
  BY ConstantsTyped DEF Ended, MemoryType

NewSlot(seq, method, id, about) ==
  [seq |-> seq, method |-> method, id |-> id, about |-> about, exposed |-> FALSE]

LEMMA CallingFollows ==
  ASSUME NEW c, Idle(c), memory \in MemoryType, NEW method \in Methods, NEW id \in Nat,
         NEW about \in SUBSET Symbols
  PROVE  /\ Follows(Calling(c, method, id, about))
         /\ Calling(c, method, id, about).records # <<>>
<1> DEFINE seq == c.memory.seq + 1
           slot == NewSlot(seq, method, id, about)
           r == Record("native_intent", seq, method, id, about)
           m == [c.memory EXCEPT !.seq = seq, !.slot = slot]
           d == Calling(c, method, id, about)
<1>0. c.memory \in MemoryType /\ c.memory.seq \in Nat /\ memory.seq \in Nat
  BY DEF Idle, TypedCourse, MemoryType
<1>1. seq \in Nat /\ slot \in SlotType /\ r \in RecordType /\ r.kind = "native_intent"
  BY <1>0 DEF SlotType, RecordType, Record, Kinds, Whats, NewSlot
<1>2. d.memory = m /\ d.records = Append(c.records, r)
  BY DEF Calling, Course, NewSlot
<1>3. slot.seq = seq
  BY DEF NewSlot
<1> HIDE DEF slot, r, d
<1>4. m \in MemoryType /\ m.seq = seq /\ m.slot = slot /\ m.task = c.memory.task /\ m.phase = c.memory.phase
  BY <1>0, <1>1 DEF MemoryType
<1>5. TypedCourse(d)
  BY <1>1, <1>2, <1>4, AppendTyped DEF Idle, TypedCourse
<1>6. Follows(d)
  BY <1>0, <1>2, <1>3, <1>4, <1>5, ConstantsTyped DEF Idle, Follows
<1>7. d.records # <<>>
  BY <1>1, <1>2, AppendTyped DEF Idle, TypedCourse
<1> QED
  BY <1>2, <1>6, <1>7 DEF slot, r, d

LEMMA EndedFollows ==
  ASSUME NEW c, Idle(c), memory \in MemoryType
  PROVE  Follows(Course(Ended(c.memory), c.records))
  BY EndedTyped DEF Idle, Follows, TypedCourse, Course

LEMMA FirstOf ==
  ASSUME NEW hs
  PROVE  First(hs) \subseteq hs
  BY DEF First

LEMMA NextOfRequestFollows ==
  ASSUME NEW c, Idle(c), memory \in MemoryType, NEW d \in NextOfRequest(c)
  PROVE  Follows(d) /\ (d.records = <<>> => d.memory = Ended(c.memory) /\ c.records = <<>>)
<1> DEFINE t == c.memory.task
<1>0. c.memory \in MemoryType /\ t \in TaskType /\ c.records \in Seq(RecordType)
  BY DEF Idle, TypedCourse, MemoryType
<1>1. CASE t.todo # {}
  <2>1. PICK h \in First(t.todo) :
          d = Calling(Course([c.memory EXCEPT !.task.todo = @ \ {h}], c.records), "cancel", h.id, h.about)
    BY <1>1 DEF NextOfRequest
  <2>2. h \in HandleType
    BY <1>0, FirstOf DEF TaskType
  <2> DEFINE u == [t EXCEPT !.todo = t.todo \ {h}]
             e == Course([c.memory EXCEPT !.task = u], c.records)
  <2>3. u \in TaskType /\ u.kind = t.kind
    BY <1>0 DEF TaskType
  <2>4. [c.memory EXCEPT !.task.todo = @ \ {h}] = [c.memory EXCEPT !.task = u]
    BY <1>0 DEF MemoryType, TaskType
  <2> HIDE DEF u
  <2>5. Idle(e)
    BY <1>0, <2>3 DEF Idle, TypedCourse, MemoryType, Course
  <2>6. d = Calling(e, "cancel", h.id, h.about)
    BY <2>1, <2>4
  <2> HIDE DEF e
  <2>8. Follows(d) /\ d.records # <<>>
    <3>1. "cancel" \in Methods /\ h.id \in Nat /\ h.about \in SUBSET Symbols
      BY <2>2 DEF HandleType, Methods
    <3> QED
      BY <2>5, <2>6, <3>1, CallingFollows
  <2> QED
    BY <2>8
<1>2. CASE t.todo = {} /\ (t.failed \/ t.desired = {})
  <2>1. d = Course(Ended(c.memory), c.records)
    BY <1>2 DEF NextOfRequest
  <2> QED
    BY <2>1, EndedFollows DEF Course
<1>3. CASE t.todo = {} /\ ~(t.failed \/ t.desired = {})
  <2>1. d = Calling(c, "whole", 0, t.desired)
    BY <1>3 DEF NextOfRequest
  <2>2. t.desired \in SUBSET Symbols
    BY <1>0 DEF TaskType
  <2>3. Follows(d) /\ d.records # <<>>
    <3>1. "whole" \in Methods /\ 0 \in Nat
      BY DEF Methods
    <3> QED
      BY <2>1, <2>2, <3>1, CallingFollows
  <2> QED
    BY <2>3
<1> QED
  BY <1>1, <1>2, <1>3

LEMMA RecordsTyped ==
  /\ Observation \in RecordType /\ Observation.kind = "operator_observation"
  /\ \A kind \in Kinds, what \in Whats, seq \in Nat, id \in Nat, about \in SUBSET Symbols :
       /\ Record(kind, seq, what, id, about) \in RecordType
       /\ Record(kind, seq, what, id, about).kind = kind
  BY DEF Observation, Record, RecordType, Kinds, Whats, Says, Methods

LEMMA UnlockedTyped ==
  ASSUME NEW m \in MemoryType
  PROVE  /\ Unlocked(m) \in MemoryType
         /\ Unlocked(m).slot = m.slot /\ Unlocked(m).task = m.task /\ Unlocked(m).seq = m.seq
         /\ Unlocked(m).phase = "completed" /\ ~Unlocked(m).required
         /\ Unlocked(m).candidates = {} /\ Unlocked(m).unknown = 0
         /\ Unlocked(m).whole = NoWhole /\ Unlocked(m).singles = [s \in Symbols |-> 0]
<1>1. [s \in Symbols |-> 0] \in [Symbols -> Nat]
  OBVIOUS
<1> QED
  BY <1>1, ConstantsTyped DEF Unlocked, MemoryType, Phases

\* The controller at the end of a recovery that leaves something, or nothing.
Over(m, phase) ==
  [Ended(m) EXCEPT !.required = m.candidates # {} \/ m.unknown # 0, !.phase = phase]

LEMMA OverTyped ==
  ASSUME NEW m \in MemoryType, NEW phase \in Phases \ {"not_started"}
  PROVE  /\ Over(m, phase) \in MemoryType
         /\ Over(m, phase).slot = NoSlot /\ Over(m, phase).task = NoTask
         /\ Over(m, phase).seq = m.seq /\ Over(m, phase).phase = phase
         /\ Over(m, phase).required <=> m.candidates # {} \/ m.unknown # 0
         /\ Over(m, phase).candidates = m.candidates /\ Over(m, phase).unknown = m.unknown
         /\ Over(m, phase).whole = m.whole /\ Over(m, phase).singles = m.singles
<1> DEFINE b == m.candidates # {} \/ m.unknown # 0
           e == Ended(m)
<1>1. b \in BOOLEAN
  OBVIOUS
<1> HIDE DEF b, e
<1>2. e \in MemoryType
  BY EndedTyped DEF e
<1>3. Over(m, phase) = [e EXCEPT !.required = b, !.phase = phase]
  BY DEF Over, b, e
<1>4. /\ Over(m, phase) \in MemoryType /\ Over(m, phase).required = b /\ Over(m, phase).phase = phase
      /\ Over(m, phase).slot = e.slot /\ Over(m, phase).task = e.task /\ Over(m, phase).seq = e.seq
      /\ Over(m, phase).candidates = e.candidates /\ Over(m, phase).unknown = e.unknown
      /\ Over(m, phase).whole = e.whole /\ Over(m, phase).singles = e.singles
  BY <1>1, <1>2, <1>3 DEF MemoryType
<1>5. Over(m, phase).required <=> m.candidates # {} \/ m.unknown # 0
  BY <1>4, Zenon DEF b
<1> QED
  BY <1>4, <1>5, EndedTyped DEF e

\* The three ends of a recovery.
LEMMA RecoveredIs ==
  ASSUME NEW c, c.memory \in MemoryType
  PROVE  \/ /\ ~(c.memory.candidates # {} \/ c.memory.unknown # 0)
            /\ Recovered(c) = Course(Over(c.memory, "completed"), c.records)
         \/ /\ c.memory.candidates # {} \/ c.memory.unknown # 0
            /\ Recovered(c) = Course(Over(c.memory, "degraded"), c.records)
         \/ Recovered(c) = Course(Unlocked([Ended(c.memory) EXCEPT
                                    !.required = c.memory.candidates # {} \/ c.memory.unknown # 0]),
                                  Append(c.records, Observation))
<1> DEFINE b == c.memory.candidates # {} \/ c.memory.unknown # 0
           m == [Ended(c.memory) EXCEPT !.required = b]
<1>1. m.required = b
  BY EndedTyped DEF MemoryType
<1>2. \A p : [m EXCEPT !.phase = p] = [Ended(c.memory) EXCEPT !.required = b, !.phase = p]
  BY EndedTyped DEF MemoryType
<1>3. \A p : [m EXCEPT !.phase = p] = Over(c.memory, p)
  BY <1>2 DEF Over
<1>4. Recovered(c) = IF ~m.required THEN Course([m EXCEPT !.phase = "completed"], c.records)
                     ELSE IF TerminalRestarted(journal \o c.records, owner)
                     THEN Course(Unlocked(m), Append(c.records, Observation))
                     ELSE Course([m EXCEPT !.phase = "degraded"], c.records)
  BY DEF Recovered
<1> HIDE DEF m
<1>5. CASE ~b
  BY <1>1, <1>3, <1>4, <1>5, Zenon
<1>6. CASE b /\ TerminalRestarted(journal \o c.records, owner)
  BY <1>1, <1>4, <1>6, Zenon DEF m
<1>7. CASE b /\ ~TerminalRestarted(journal \o c.records, owner)
  BY <1>1, <1>3, <1>4, <1>7, Zenon
<1> QED
  BY <1>5, <1>6, <1>7

LEMMA RecoveredFollows ==
  ASSUME NEW c, Idle(c), memory \in MemoryType
  PROVE  Follows(Recovered(c))
<1> DEFINE b == c.memory.candidates # {} \/ c.memory.unknown # 0
           m == [Ended(c.memory) EXCEPT !.required = b]
<1>0. c.memory \in MemoryType /\ c.memory.seq = memory.seq /\ c.records \in Seq(RecordType)
  BY DEF Idle, TypedCourse
<1>1. ASSUME NEW p \in Phases \ {"not_started"} PROVE Follows(Course(Over(c.memory, p), c.records))
  BY <1>0, OverTyped DEF Follows, TypedCourse, Course, Idle
<1>2. "completed" \in Phases \ {"not_started"} /\ "degraded" \in Phases \ {"not_started"}
  BY DEF Phases
<1>3. ASSUME Recovered(c) = Course(Unlocked(m), Append(c.records, Observation))
      PROVE  Follows(Recovered(c))
  <2>1. b \in BOOLEAN
    OBVIOUS
  <2> HIDE DEF b
  <2>2. m \in MemoryType /\ m.slot = NoSlot /\ m.task = NoTask /\ m.seq = memory.seq
    BY <1>0, <2>1, EndedTyped DEF MemoryType
  <2> HIDE DEF m
  <2>3. TypedCourse(Recovered(c))
    BY <1>0, <1>3, <2>2, UnlockedTyped, RecordsTyped, AppendTyped DEF TypedCourse, Course, Idle
  <2> QED
    BY <1>3, <2>2, <2>3, UnlockedTyped DEF Follows, Course
<1> QED
  BY <1>0, <1>1, <1>2, <1>3, RecoveredIs

LEMMA NextCleanupFollows ==
  ASSUME NEW c, Idle(c), memory \in MemoryType, NEW d \in NextCleanup(c)
  PROVE  Follows(d)
<1> DEFINE t == c.memory.task
<1>0. c.memory \in MemoryType /\ t \in TaskType /\ c.records \in Seq(RecordType)
  BY DEF Idle, TypedCourse, MemoryType
<1>1. CASE t.todo = {}
  BY <1>1, RecoveredFollows DEF NextCleanup
<1>2. CASE t.todo # {}
  <2>1. PICK h \in First(t.todo) :
          d = Calling(Course([c.memory EXCEPT !.task.todo = @ \ {h}, !.candidates = Tried(@, {h.id})],
                             Append(c.records, Record("recovery_intent", 0, "none", h.id, h.about))),
                      "cancel", h.id, h.about)
    BY <1>2 DEF NextCleanup
  <2>2. h \in HandleType
    BY <1>0, FirstOf DEF TaskType
  <2>3. h.id \in Nat /\ h.about \in SUBSET Symbols
    BY <2>2 DEF HandleType
  <2> DEFINE u == [t EXCEPT !.todo = t.todo \ {h}]
             cs == Tried(c.memory.candidates, {h.id})
             m == [c.memory EXCEPT !.task = u, !.candidates = cs]
             r == Record("recovery_intent", 0, "none", h.id, h.about)
             e == Course(m, Append(c.records, r))
  <2>4. u \in TaskType /\ u.kind = t.kind
    BY <1>0 DEF TaskType
  <2>5. cs \in SUBSET CandidateType
    BY <1>0, TriedTyped DEF MemoryType
  <2>6. [c.memory EXCEPT !.task.todo = @ \ {h}, !.candidates = Tried(@, {h.id})] = m
    BY <1>0 DEF MemoryType, TaskType
  <2>7. r \in RecordType /\ r.kind = "recovery_intent"
    BY <2>3, RecordsTyped DEF Kinds, Whats, Methods
  <2> HIDE DEF u, cs, r
  <2>8. m \in MemoryType /\ m.slot = c.memory.slot /\ m.seq = c.memory.seq /\ m.task = u
        /\ m.phase = c.memory.phase
    BY <1>0, <2>4, <2>5 DEF MemoryType
  <2> HIDE DEF m
  <2>9. Idle(e)
    BY <1>0, <2>4, <2>7, <2>8, AppendTyped DEF Idle, TypedCourse, Course
  <2>10. d = Calling(e, "cancel", h.id, h.about)
    BY <2>1, <2>6 DEF r
  <2> HIDE DEF e
  <2>11. "cancel" \in Methods
    BY DEF Methods
  <2> QED
    BY <2>3, <2>9, <2>10, <2>11, CallingFollows
<1> QED
  BY <1>1, <1>2

LEMMA MemoryResolvedTyped ==
  ASSUME NEW m \in MemoryType, NEW id \in Nat
  PROVE  /\ Resolved(m, id) \in MemoryType
         /\ Resolved(m, id).slot = m.slot /\ Resolved(m, id).task = m.task
         /\ Resolved(m, id).seq = m.seq /\ Resolved(m, id).phase = m.phase
         /\ Resolved(m, id).required = m.required /\ Resolved(m, id).unknown = m.unknown
<1> DEFINE c == CHOOSE x \in m.candidates : x.id = id
           w == IF c.about = {} /\ m.whole.id = id THEN NoWhole ELSE m.whole
           ss == [s \in Symbols |-> IF s \in c.about /\ m.singles[s] = id THEN 0 ELSE m.singles[s]]
           r == m.retained \ {Handle(id, c.about)}
           cs == WithoutId(m.candidates, id)
<1>1. cs \in SUBSET CandidateType
  BY DEF WithoutId, MemoryType
<1>2. w \in WholeType
  BY ConstantsTyped DEF MemoryType
<1>3. ss \in [Symbols -> Nat]
  BY DEF MemoryType
<1>4. r \in SUBSET HandleType
  BY DEF MemoryType
<1>5. Resolved(m, id) = IF id \notin Ids(m.candidates) THEN m
                        ELSE [m EXCEPT !.candidates = cs, !.whole = w, !.singles = ss, !.retained = r]
  BY DEF Resolved, MemoryType
<1> HIDE DEF c, w, ss, r, cs
<1> QED
  BY <1>1, <1>2, <1>3, <1>4, <1>5 DEF MemoryType

\* The controller while a reply is handled: the slot is free.
Freed(m) == [m EXCEPT !.slot = NoSlot]

LEMMA FreedTyped ==
  ASSUME NEW m \in MemoryType
  PROVE  /\ Freed(m) \in MemoryType /\ Freed(m).slot = NoSlot /\ Freed(m).task = m.task
         /\ Freed(m).seq = m.seq /\ Freed(m).phase = m.phase /\ Freed(m).required = m.required
         /\ Freed(m).candidates = m.candidates /\ Freed(m).unknown = m.unknown
         /\ Freed(m).whole = m.whole /\ Freed(m).singles = m.singles
  BY ConstantsTyped DEF Freed, MemoryType

LEMMA CleanedIdle ==
  ASSUME memory \in MemoryType, memory.task.kind # "none", memory.phase # "not_started",
         NEW confirmed \in BOOLEAN, NEW rs \in Seq(RecordType),
         rs # <<>> => rs[1].kind # "registry_transition",
         NEW c, c = Cleaned(Freed(memory), memory.slot, confirmed)
  PROVE  Idle(Course(c.memory, rs \o c.records))
<1> DEFINE slot == memory.slot
           note(kind, what) == Record(kind, 0, what, slot.id, slot.about)
<1>0. slot \in SlotType /\ Freed(memory) \in MemoryType
  BY FreedTyped DEF MemoryType
<1>1. slot.id \in Nat /\ slot.about \in SUBSET Symbols
  BY <1>0 DEF SlotType
<1>2. /\ note("recovery_result", "confirmed") \in RecordType
      /\ note("recovery_result", "unconfirmed") \in RecordType
      /\ note("registry_transition", "unsubscribed") \in RecordType
      /\ note("recovery_terminal", "confirmed") \in RecordType
      /\ note("recovery_result", "confirmed").kind = "recovery_result"
      /\ note("recovery_result", "unconfirmed").kind = "recovery_result"
  BY <1>1 DEF Record, RecordType, Kinds, Whats
<1>3. c.memory \in MemoryType /\ c.memory.slot = NoSlot /\ c.memory.task = memory.task
      /\ c.memory.seq = memory.seq /\ c.memory.phase = memory.phase
  <2>1. c.memory = IF confirmed THEN Resolved(Freed(memory), slot.id) ELSE Freed(memory)
    BY DEF Cleaned, Course
  <2> DEFINE f == Freed(memory)
             e == Resolved(f, slot.id)
  <2>2. f \in MemoryType /\ f.slot = NoSlot /\ f.task = memory.task /\ f.seq = memory.seq
        /\ f.phase = memory.phase
    BY FreedTyped
  <2> HIDE DEF f
  <2>3. e \in MemoryType /\ e.slot = f.slot /\ e.task = f.task /\ e.seq = f.seq /\ e.phase = f.phase
    BY <1>1, <2>2, MemoryResolvedTyped
  <2>4. c.memory = e \/ c.memory = f
    BY <2>1 DEF f
  <2> HIDE DEF e
  <2> QED
    BY <2>2, <2>3, <2>4
<1>4. c.records = IF confirmed THEN <<note("recovery_result", "confirmed"),
                                      note("registry_transition", "unsubscribed"),
                                      note("recovery_terminal", "confirmed")>>
                  ELSE <<note("recovery_result", "unconfirmed")>>
  BY DEF Cleaned, Course
<1> HIDE DEF note, slot
<1>5. c.records \in Seq(RecordType) /\ Len(c.records) > 0 /\ c.records[1].kind = "recovery_result"
  BY <1>2, <1>4
<1>6. rs \o c.records \in Seq(RecordType)
  BY <1>5
<1>7. (rs \o c.records)[1].kind # "registry_transition"
  <2>1. CASE rs = <<>>
    BY <1>5, <2>1
  <2>2. CASE rs # <<>>
    BY <1>5, <2>2
  <2> QED
    BY <2>1, <2>2
<1> QED
  BY <1>3, <1>6, <1>7 DEF Idle, TypedCourse, Course

LEMMA AnswersFollow ==
  ASSUME memory \in MemoryType, memory.task.kind # "none", memory.phase # "not_started",
         NEW says \in Says, NEW id \in Nat, NEW c \in Answers(says, id)
  PROVE  Follows(c)
<1> DEFINE slot == memory.slot
           m == Freed(memory)
           result == Record("native_result", slot.seq, says, id, {})
<1>0. slot \in SlotType /\ m \in MemoryType
  BY FreedTyped DEF MemoryType
<1>1. slot.id \in Nat /\ slot.about \in SUBSET Symbols /\ slot.seq \in Nat /\ slot.method \in Methods
  BY <1>0 DEF SlotType
<1>2. result \in RecordType /\ result.kind = "native_result"
  BY <1>1, RecordsTyped DEF Kinds, Whats
<1>3. Course(m, <<result>>) = Course(Freed(memory), <<result>>)
  OBVIOUS
<1>4. /\ <<result>> \in Seq(RecordType) /\ <<result>> # <<>> /\ <<result>>[1] = result
      /\ \A r \in RecordType : /\ Append(<<result>>, r) \in Seq(RecordType)
                               /\ Append(<<result>>, r)[1] = result
  BY <1>2
<1>5. CASE memory.task.kind = "startup"
  <2> DEFINE d == Cleaned(m, slot, Confirms(says))
             next == Course(d.memory, <<result>> \o d.records)
  <2>1. c \in NextCleanup(next) \cup {Recovered(next)}
    BY <1>5 DEF Answers, Freed
  <2>2. Confirms(says) \in BOOLEAN
    BY DEF Confirms
  <2>3. Idle(next)
    BY <1>2, <1>4, <2>2, CleanedIdle
  <2> HIDE DEF next
  <2> QED
    BY <2>1, <2>3, NextCleanupFollows, RecoveredFollows
<1>6. CASE memory.task.kind # "startup" /\ slot.method = "cancel"
  <2> DEFINE t == Record("registry_transition", 0, "unsubscribed", slot.id, slot.about)
             u == [memory.task EXCEPT !.failed = TRUE]
             next == IF Confirms(says) THEN Course(Dropped(m, slot), Append(<<result>>, t))
                     ELSE Course([m EXCEPT !.task = u], <<result>>)
  <2>1. [m EXCEPT !.task.failed = TRUE] = [m EXCEPT !.task = u]
    BY <1>0, FreedTyped DEF MemoryType, TaskType
  <2>2. c \in NextOfRequest(next)
    BY <1>6, <2>1 DEF Answers, Freed
  <2>3. t \in RecordType
    BY <1>1, RecordsTyped DEF Kinds, Whats
  <2>4. u \in TaskType /\ u.kind = memory.task.kind
    BY DEF MemoryType, TaskType
  <2>5. Dropped(m, slot) \in MemoryType /\ Dropped(m, slot).slot = NoSlot /\ Dropped(m, slot).task = m.task
        /\ Dropped(m, slot).seq = m.seq /\ Dropped(m, slot).phase = m.phase
    <3> DEFINE ss == [s \in Symbols |-> IF s \in slot.about THEN 0 ELSE m.singles[s]]
    <3>1. ss \in [Symbols -> Nat]
      BY <1>0 DEF MemoryType
    <3>2. Dropped(m, slot) = IF slot.about = {} THEN [m EXCEPT !.whole = NoWhole] ELSE [m EXCEPT !.singles = ss]
      BY DEF Dropped
    <3> HIDE DEF ss, m, slot
    <3>3. m.slot = NoSlot
      BY FreedTyped DEF m
    <3> QED
      BY <1>0, <3>1, <3>2, <3>3, ConstantsTyped DEF MemoryType
  <2>6. Idle(next)
    <3>1. CASE Confirms(says)
      <4> HIDE DEF t, result, m
      <4>1. next.memory = Dropped(m, slot) /\ next.records = Append(<<result>>, t)
        BY <3>1 DEF Course
      <4>2. m.task = memory.task /\ m.seq = memory.seq /\ m.phase = memory.phase
        BY FreedTyped DEF m
      <4> HIDE DEF next, slot
      <4> QED
        BY <1>2, <1>4, <2>3, <2>5, <4>1, <4>2 DEF Idle, TypedCourse
    <3>2. CASE ~Confirms(says)
      <4> DEFINE n == [m EXCEPT !.task = u]
      <4>0. m.slot = NoSlot /\ m.seq = memory.seq /\ m.phase = memory.phase
        BY FreedTyped
      <4> HIDE DEF result, m, u
      <4>1. n \in MemoryType /\ n.slot = NoSlot /\ n.task = u /\ n.seq = memory.seq /\ n.phase = memory.phase
        BY <1>0, <2>4, <4>0 DEF MemoryType
      <4>2. next.memory = n /\ next.records = <<result>>
        BY <3>2 DEF Course
      <4> HIDE DEF next, n
      <4> QED
        BY <1>2, <1>4, <2>4, <4>1, <4>2 DEF Idle, TypedCourse
    <3> QED
      BY <3>1, <3>2
  <2> HIDE DEF next
  <2> QED
    BY <2>2, <2>6, NextOfRequestFollows
<1>7. CASE memory.task.kind # "startup" /\ slot.method # "cancel"
  <2> DEFINE t == Record("registry_transition", 0, slot.method, id, slot.about)
  <2>1. c = IF says = "id" THEN Course(Ended(Registered(m, slot, id)), Append(<<result>>, t))
            ELSE Course(Ended(m), <<result>>)
    BY <1>7 DEF Answers, Freed
  <2>2. t \in RecordType
    BY <1>1, RecordsTyped DEF Kinds, Whats
  <2>3. Registered(m, slot, id) \in MemoryType /\ Registered(m, slot, id).seq = m.seq
        /\ Registered(m, slot, id).phase = m.phase
    <3> DEFINE ss == [s \in Symbols |-> IF s \in slot.about THEN id ELSE m.singles[s]]
               w == [id |-> id, symbols |-> slot.about]
    <3>1. ss \in [Symbols -> Nat]
      BY <1>0 DEF MemoryType
    <3>2. w \in WholeType
      BY <1>1 DEF WholeType
    <3>3. Registered(m, slot, id) = IF slot.method = "whole" THEN [m EXCEPT !.whole = w] ELSE [m EXCEPT !.singles = ss]
      BY DEF Registered
    <3> HIDE DEF ss, w, m, slot
    <3> QED
      BY <1>0, <3>1, <3>2, <3>3 DEF MemoryType
  <2>4. m.seq = memory.seq /\ m.phase = memory.phase
    BY FreedTyped
  <2> HIDE DEF t, result, m, slot
  <2>5. CASE says = "id"
    <3> DEFINE n == Registered(m, slot, id)
    <3>1. n \in MemoryType /\ n.seq = memory.seq /\ n.phase = memory.phase
      BY <2>3, <2>4
    <3>2. c.memory = Ended(n) /\ c.records = Append(<<result>>, t)
      BY <2>1, <2>5 DEF Course
    <3> HIDE DEF n
    <3>3. Ended(n) \in MemoryType /\ Ended(n).slot = NoSlot /\ Ended(n).task = NoTask
          /\ Ended(n).seq = memory.seq /\ Ended(n).phase = memory.phase
      BY <3>1, EndedTyped
    <3> QED
      BY <1>2, <1>4, <2>2, <3>2, <3>3 DEF Follows, TypedCourse
  <2>6. CASE says # "id"
    <3>1. c.memory = Ended(m) /\ c.records = <<result>>
      BY <2>1, <2>6 DEF Course
    <3>2. Ended(m) \in MemoryType /\ Ended(m).slot = NoSlot /\ Ended(m).task = NoTask
          /\ Ended(m).seq = memory.seq /\ Ended(m).phase = memory.phase
      BY <1>0, <2>4, EndedTyped
    <3> QED
      BY <1>2, <1>4, <3>1, <3>2 DEF Follows, TypedCourse
  <2> QED
    BY <2>5, <2>6
<1> QED
  BY <1>5, <1>6, <1>7

LEMMA TimeoutsFollow ==
  ASSUME memory \in MemoryType, memory.task.kind # "none", memory.phase # "not_started",
         NEW c \in Timeouts
  PROVE  Follows(c)
<1> DEFINE slot == memory.slot
           m == Freed(memory)
<1>0. m \in MemoryType
  BY FreedTyped
<1>1. CASE memory.task.kind = "startup"
  <2> DEFINE d == Cleaned(m, slot, FALSE)
             next == Course(d.memory, <<>> \o d.records)
  <2>1. Idle(next)
    <3>1. FALSE \in BOOLEAN /\ <<>> \in Seq(RecordType)
      OBVIOUS
    <3> QED
      BY <3>1, CleanedIdle
  <2>2. next = d
    <3>1. d.records = <<Record("recovery_result", 0, "unconfirmed", slot.id, slot.about)>>
          /\ d = Course(d.memory, d.records)
      BY DEF Cleaned, Course
    <3>2. <<>> \o d.records = d.records
      BY <3>1
    <3> QED
      BY <3>1, <3>2
  <2>3. c \in NextCleanup(d) \cup {Recovered(d)}
    BY <1>1 DEF Timeouts, Freed
  <2> HIDE DEF next, d
  <2> QED
    BY <2>1, <2>2, <2>3, NextCleanupFollows, RecoveredFollows
<1>2. CASE memory.task.kind # "startup" /\ slot.method = "cancel"
  <2> DEFINE u == [memory.task EXCEPT !.failed = TRUE]
             next == Course([m EXCEPT !.task = u], <<>>)
  <2>1. [m EXCEPT !.task.failed = TRUE] = [m EXCEPT !.task = u]
    BY <1>0, FreedTyped DEF MemoryType, TaskType
  <2>2. c \in NextOfRequest(next)
    BY <1>2, <2>1 DEF Timeouts, Freed
  <2>3. u \in TaskType /\ u.kind = memory.task.kind
    BY DEF MemoryType, TaskType
  <2>4. m.slot = NoSlot /\ m.seq = memory.seq /\ m.phase = memory.phase
    BY FreedTyped
  <2> HIDE DEF m, u
  <2>5. Idle(next)
    BY <1>0, <2>3, <2>4 DEF Idle, TypedCourse, Course, MemoryType
  <2> HIDE DEF next
  <2> QED
    BY <2>2, <2>5, NextOfRequestFollows
<1>3. CASE memory.task.kind # "startup" /\ slot.method # "cancel"
  <2>1. c = Course(Ended(m), <<>>)
    BY <1>3 DEF Timeouts, Freed
  <2>2. m.seq = memory.seq /\ m.phase = memory.phase
    BY FreedTyped
  <2>3. c.memory = Ended(m) /\ c.records = <<>>
    BY <2>1 DEF Course
  <2> HIDE DEF m
  <2>4. c.records \in Seq(RecordType)
    BY <2>3
  <2>5. Ended(m) \in MemoryType /\ Ended(m).slot = NoSlot /\ Ended(m).task = NoTask
        /\ Ended(m).seq = m.seq /\ Ended(m).phase = m.phase
    BY <1>0, EndedTyped
  <2> QED
    BY <2>2, <2>3, <2>4, <2>5 DEF Follows, TypedCourse
<1> QED
  BY <1>1, <1>2, <1>3

-----------------------------------------------------------------------------
(* The journal stays readable.                                             *)

SameKnown(m, n) ==
  /\ m.whole = n.whole /\ m.singles = n.singles
  /\ m.retained = n.retained /\ m.candidates = n.candidates

LEMMA FoundSame ==
  ASSUME NEW m \in KnownType, NEW n \in KnownType, SameKnown(m, n), NEW id, NEW about
  PROVE  SameKnown(Found(m, id, about), Found(n, id, about))
<1> DEFINE cs == WithoutId(m.candidates, id) \cup {Candidate(id, about, FALSE)}
<1>1. Found(m, id, about) = [m EXCEPT !.candidates = cs]
  BY DEF Found, KnownType
<1>2. Found(n, id, about) = [n EXCEPT !.candidates = cs]
  BY DEF Found, KnownType, SameKnown
<1> HIDE DEF cs
<1> QED
  BY <1>1, <1>2 DEF KnownType, SameKnown

LEMMA UnknownSame ==
  ASSUME NEW m \in KnownType, NEW n \in KnownType, SameKnown(m, n)
  PROVE  SameKnown(Unknown(m), Unknown(n)) /\ SameKnown(Unknown(m), n) /\ SameKnown(m, Unknown(n))
  BY DEF Unknown, KnownType, SameKnown

LEMMA ResolvedSame ==
  ASSUME NEW m \in KnownType, NEW n \in KnownType, SameKnown(m, n), NEW id
  PROVE  SameKnown(Resolved(m, id), Resolved(n, id))
<1> DEFINE c == CHOOSE x \in m.candidates : x.id = id
           w == IF c.about = {} /\ m.whole.id = id THEN NoWhole ELSE m.whole
           ss == [s \in Symbols |-> IF s \in c.about /\ m.singles[s] = id THEN 0 ELSE m.singles[s]]
           r == m.retained \ {Handle(id, c.about)}
           cs == WithoutId(m.candidates, id)
           there == id \in Ids(m.candidates)
<1>1. Resolved(m, id) = IF ~there THEN m
                        ELSE [m EXCEPT !.candidates = cs, !.whole = w, !.singles = ss, !.retained = r]
  BY DEF Resolved, KnownType
<1>2. Resolved(n, id) = IF ~there THEN n
                        ELSE [n EXCEPT !.candidates = cs, !.whole = w, !.singles = ss, !.retained = r]
  BY DEF Resolved, KnownType, SameKnown
<1> HIDE DEF c, w, ss, r, cs, there
<1> QED
  BY <1>1, <1>2 DEF KnownType, SameKnown

LEMMA TransitionSame ==
  ASSUME NEW m \in KnownType, NEW n \in KnownType, SameKnown(m, n), NEW r \in RecordType
  PROVE  SameKnown(ReplayedTransition(m, r), ReplayedTransition(n, r))
<1>0. r.id \in Nat /\ r.about \in SUBSET Symbols
  BY DEF RecordType
<1>1. CASE r.what = "whole"
  <2> DEFINE w == [id |-> r.id, symbols |-> r.about]
             m2 == [m EXCEPT !.whole = w]
             n2 == [n EXCEPT !.whole = w]
  <2>1. w \in WholeType
    BY <1>0 DEF WholeType
  <2>2. ReplayedTransition(m, r) = Found(m2, r.id, {}) /\ ReplayedTransition(n, r) = Found(n2, r.id, {})
    BY <1>1 DEF ReplayedTransition
  <2> HIDE DEF w
  <2>3. m2 \in KnownType /\ n2 \in KnownType /\ SameKnown(m2, n2)
    BY <2>1 DEF KnownType, SameKnown
  <2> HIDE DEF m2, n2
  <2> QED
    BY <2>2, <2>3, FoundSame
<1>2. CASE r.what = "single"
  <2> DEFINE ss == [s \in Symbols |-> IF s \in r.about THEN r.id ELSE m.singles[s]]
             m2 == [m EXCEPT !.singles = ss]
             n2 == [n EXCEPT !.singles = ss]
  <2>1. ss \in [Symbols -> Nat]
    BY <1>0 DEF KnownType
  <2>2. ReplayedTransition(m, r) = Found(m2, r.id, r.about)
    BY <1>2 DEF ReplayedTransition
  <2>3. ReplayedTransition(n, r) = Found(n2, r.id, r.about)
    BY <1>2 DEF ReplayedTransition, SameKnown
  <2> HIDE DEF ss
  <2>4. m2 \in KnownType /\ n2 \in KnownType /\ SameKnown(m2, n2)
    BY <2>1 DEF KnownType, SameKnown
  <2> HIDE DEF m2, n2
  <2> QED
    BY <2>2, <2>3, <2>4, FoundSame
<1>3. CASE r.what \notin {"whole", "single"}
  BY <1>3, ResolvedSame DEF ReplayedTransition
<1> QED
  BY <1>1, <1>2, <1>3

LEMMA ReplayedSame ==
  ASSUME NEW s \in ReplayType, NEW t \in ReplayType, Same(s, t), NEW r \in RecordType, NEW C, NEW D
  PROVE  Same(ReplayedRecord(s, r, C), ReplayedRecord(t, r, D))
<1> DEFINE m == s.known
           n == t.known
<1>0. /\ m \in KnownType /\ n \in KnownType /\ SameKnown(m, n) /\ s.pending = t.pending
      /\ s = [known |-> m, pending |-> s.pending] /\ t = [known |-> n, pending |-> s.pending]
  BY DEF ReplayType, Same, SameKnown
<1>1. ASSUME NEW k, NEW l, SameKnown(k, l)
      PROVE  /\ Same([s EXCEPT !.known = k], [t EXCEPT !.known = l])
             /\ \A p : Same([known |-> k, pending |-> p], [known |-> l, pending |-> p])
  <2>1. [s EXCEPT !.known = k] = [known |-> k, pending |-> s.pending]
    BY <1>0
  <2>2. [t EXCEPT !.known = l] = [known |-> l, pending |-> s.pending]
    BY <1>0
  <2> QED
    BY <1>1, <2>1, <2>2 DEF Same, SameKnown
<1>2. CASE r.kind = "operator_observation"
  BY <1>2 DEF ReplayedRecord, Same
<1>3. CASE r.kind = "native_intent"
  <2>1. ReplayedRecord(s, r, C) = [s EXCEPT !.pending = Intended(s, r)]
    BY <1>3 DEF ReplayedRecord, Intended, Intent
  <2>2. ReplayedRecord(t, r, D) = [t EXCEPT !.pending = Intended(t, r)]
    BY <1>3 DEF ReplayedRecord, Intended, Intent
  <2>3. Intended(t, r) = Intended(s, r)
    BY <1>0 DEF Intended
  <2>4. [s EXCEPT !.pending = Intended(s, r)] = [known |-> m, pending |-> Intended(s, r)]
    BY <1>0
  <2>5. [t EXCEPT !.pending = Intended(s, r)] = [known |-> n, pending |-> Intended(s, r)]
    BY <1>0
  <2> QED
    BY <1>0, <2>1, <2>2, <2>3, <2>4, <2>5 DEF Same, SameKnown
<1>4. CASE r.kind = "native_result" /\ \E p \in s.pending : p.seq = r.seq
  <2> DEFINE i == About(s, r)
  <2>1. ReplayedRecord(s, r, C) = [known |-> ReplayedResult(m, i, r.what, r.id), pending |-> s.pending \ {i}]
    BY <1>4 DEF ReplayedRecord, About
  <2>2. ReplayedRecord(t, r, D) = [known |-> ReplayedResult(n, i, r.what, r.id), pending |-> s.pending \ {i}]
    BY <1>0, <1>4 DEF ReplayedRecord, About
  <2> HIDE DEF i
  <2>3. SameKnown(ReplayedResult(m, i, r.what, r.id), ReplayedResult(n, i, r.what, r.id))
    <3>1. CASE i.method = "cancel"
      BY <1>0, <3>1, ResolvedSame DEF ReplayedResult
    <3>2. CASE i.method # "cancel" /\ r.what = "id"
      BY <1>0, <3>2, FoundSame DEF ReplayedResult
    <3>3. CASE i.method # "cancel" /\ r.what # "id"
      BY <1>0, <3>3, UnknownSame DEF ReplayedResult
    <3> QED
      BY <3>1, <3>2, <3>3
  <2> DEFINE k == ReplayedResult(m, i, r.what, r.id)
             l == ReplayedResult(n, i, r.what, r.id)
             p == s.pending \ {i}
  <2> HIDE DEF k, l, p
  <2>4. Same([known |-> k, pending |-> p], [known |-> l, pending |-> p])
    BY <1>1, <2>3 DEF k, l
  <2> QED
    BY <2>1, <2>2, <2>4 DEF k, l, p
<1>5. CASE r.kind = "native_result" /\ ~\E p \in s.pending : p.seq = r.seq
  <2>1. ReplayedRecord(s, r, C) = [s EXCEPT !.known = Unknown(m)]
    BY <1>5 DEF ReplayedRecord
  <2>2. ReplayedRecord(t, r, D) = [t EXCEPT !.known = Unknown(n)]
    BY <1>0, <1>5 DEF ReplayedRecord
  <2> QED
    BY <1>0, <1>1, <2>1, <2>2, UnknownSame
<1>6. CASE r.kind = "registry_transition"
  <2>1. ReplayedRecord(s, r, C) = [s EXCEPT !.known = ReplayedTransition(m, r)]
    BY <1>6 DEF ReplayedRecord
  <2>2. ReplayedRecord(t, r, D) = [t EXCEPT !.known = ReplayedTransition(n, r)]
    BY <1>6 DEF ReplayedRecord
  <2> QED
    BY <1>0, <1>1, <2>1, <2>2, TransitionSame
<1>7. CASE r.kind = "retained_recovery"
  <2> DEFINE g == m.retained \cup {Handle(r.id, r.about)}
             m2 == [m EXCEPT !.retained = g]
             n2 == [n EXCEPT !.retained = g]
  <2>1. ReplayedRecord(s, r, C) = [s EXCEPT !.known = Found(m2, r.id, r.about)]
    BY <1>7 DEF ReplayedRecord
  <2>2. ReplayedRecord(t, r, D) = [t EXCEPT !.known = Found(n2, r.id, r.about)]
    BY <1>0, <1>7 DEF ReplayedRecord, SameKnown
  <2>3. g \in SUBSET HandleType
    BY <1>0 DEF KnownType, Handle, HandleType, RecordType
  <2> HIDE DEF g
  <2>4. m2 \in KnownType /\ n2 \in KnownType /\ SameKnown(m2, n2)
    BY <1>0, <2>3 DEF KnownType, SameKnown
  <2> HIDE DEF m2, n2
  <2> QED
    BY <1>1, <2>1, <2>2, <2>4, FoundSame
<1>8. CASE r.kind = "recovery_intent"
  <2>1. ReplayedRecord(s, r, C) = [s EXCEPT !.known = ReplayedAttempt(m, r.id, C)]
    BY <1>8 DEF ReplayedRecord
  <2>2. ReplayedRecord(t, r, D) = [t EXCEPT !.known = ReplayedAttempt(n, r.id, D)]
    BY <1>8 DEF ReplayedRecord
  <2>3. SameKnown(ReplayedAttempt(m, r.id, C), ReplayedAttempt(n, r.id, D))
    <3> DEFINE there == r.id \in Ids(m.candidates)
               cs == Tried(m.candidates, {r.id})
    <3>1. ReplayedAttempt(m, r.id, C) = IF there THEN [m EXCEPT !.candidates = cs]
                                        ELSE IF r.id \in C THEN m ELSE Unknown(m)
      BY DEF ReplayedAttempt
    <3>2. ReplayedAttempt(n, r.id, D) = IF there THEN [n EXCEPT !.candidates = cs]
                                        ELSE IF r.id \in D THEN n ELSE Unknown(n)
      BY <1>0 DEF ReplayedAttempt, SameKnown
    <3> HIDE DEF there, cs
    <3>3. SameKnown([m EXCEPT !.candidates = cs], [n EXCEPT !.candidates = cs])
      BY <1>0 DEF KnownType, SameKnown
    <3> QED
      BY <1>0, <3>1, <3>2, <3>3, UnknownSame
  <2> QED
    BY <1>1, <2>1, <2>2, <2>3
<1>9. CASE r.kind = "recovery_terminal"
  <2>1. ReplayedRecord(s, r, C) = [s EXCEPT !.known = Resolved(m, r.id)]
    BY <1>9 DEF ReplayedRecord
  <2>2. ReplayedRecord(t, r, D) = [t EXCEPT !.known = Resolved(n, r.id)]
    BY <1>9 DEF ReplayedRecord
  <2> QED
    BY <1>0, <1>1, <2>1, <2>2, ResolvedSame
<1>10. CASE r.kind \notin {"operator_observation", "native_intent", "native_result",
               "registry_transition", "retained_recovery", "recovery_intent", "recovery_terminal"}
  BY <1>10 DEF ReplayedRecord
<1> QED
  BY <1>2, <1>3, <1>4, <1>5, <1>6, <1>7, <1>8, <1>9, <1>10

LEMMA ReadableAppend ==
  ASSUME NEW records \in Seq(RecordType), Readable(records), NEW r \in RecordType
  PROVE  Readable(Append(records, r))
<1>1. ASSUME NEW C
      PROVE  /\ After(C, Append(records, r)) \in ReplayType
             /\ Same(After(C, Append(records, r)), Base(Append(records, r)))
  <2>1. /\ After(C, Append(records, r)) = ReplayedRecord(After(C, records), r, C)
        /\ Base(Append(records, r)) = ReplayedRecord(Base(records), r, {})
    BY AfterAppend DEF Base
  <2>2. /\ After(C, records) \in ReplayType /\ Base(records) \in ReplayType
        /\ Same(After(C, records), Base(records))
    BY DEF Readable, Base
  <2> QED
    BY <2>1, <2>2, ReplayedTyped, ReplayedSame
<1> QED
  BY <1>1 DEF Readable

LEMMA ReadableNothing == Readable(<<>>)
  BY AfterNothing, BlankTyped DEF Readable, Base, Same

LEMMA ConcatAppend ==
  ASSUME NEW T, NEW js \in Seq(T), NEW rs \in Seq(T), NEW n \in Nat, n + 1 <= Len(rs)
  PROVE  /\ js \o SubSeq(rs, 1, n) \in Seq(T) /\ rs[n + 1] \in T
         /\ js \o SubSeq(rs, 1, n + 1) = Append(js \o SubSeq(rs, 1, n), rs[n + 1])
<1>1. SubSeq(rs, 1, n) \in Seq(T) /\ rs[n + 1] \in T
  OBVIOUS
<1>2. SubSeq(rs, 1, n + 1) = Append(SubSeq(rs, 1, n), rs[n + 1])
  OBVIOUS
<1>3. \A a \in Seq(T), r \in T : js \o Append(a, r) = Append(js \o a, r)
  OBVIOUS
<1> QED
  BY <1>1, <1>2, <1>3

LEMMA ReadableConcat ==
  ASSUME NEW js \in Seq(RecordType), Readable(js), NEW rs \in Seq(RecordType), NEW n \in Nat, n <= Len(rs)
  PROVE  Readable(js \o SubSeq(rs, 1, n)) /\ js \o SubSeq(rs, 1, n) \in Seq(RecordType)
<1> DEFINE N == {k \in Nat : k <= Len(rs) => Readable(js \o SubSeq(rs, 1, k))}
<1>1. 0 \in N
  <2>1. SubSeq(rs, 1, 0) = <<>> /\ js \o <<>> = js
    OBVIOUS
  <2> QED
    BY <2>1
<1>2. ASSUME NEW k \in Nat, k \in N PROVE k + 1 \in N
  <2>1. ASSUME k + 1 <= Len(rs) PROVE Readable(js \o SubSeq(rs, 1, k + 1))
    <3>1. Readable(js \o SubSeq(rs, 1, k))
      BY <1>2, <2>1
    <3> DEFINE before == js \o SubSeq(rs, 1, k)
               r == rs[k + 1]
    <3>2. before \in Seq(RecordType) /\ r \in RecordType
          /\ js \o SubSeq(rs, 1, k + 1) = Append(before, r)
      BY <2>1, ConcatAppend
    <3> HIDE DEF before, r
    <3>3. Readable(before)
      BY <3>1 DEF before
    <3> QED
      BY <3>2, <3>3, ReadableAppend
  <2> QED
    BY <2>1
<1>3. Nat \subseteq N
  <2> HIDE DEF N
  <2> QED
    BY <1>1, <1>2, NatSetInduction
<1> QED
  BY <1>3

-----------------------------------------------------------------------------
(* Every step keeps the types and the calls.                               *)

\* What a step may do to the controller: free the slot, call, or leave both.
Onward ==
  /\ memory' \in MemoryType
  /\ \/ /\ memory'.slot = NoSlot /\ memory'.task = NoTask
        /\ memory'.seq \in {memory.seq, memory.seq + 1}
     \/ /\ memory'.seq = memory.seq + 1 /\ memory'.slot.seq = memory'.seq
        /\ memory'.task.kind # "none"
     \/ /\ memory'.seq = memory.seq /\ memory'.task = memory.task
        /\ memory'.slot = NoSlot <=> memory.slot = NoSlot
        /\ memory'.slot.seq = memory.slot.seq /\ memory'.slot.method = memory.slot.method
        /\ memory'.slot.id = memory.slot.id /\ memory'.slot.about = memory.slot.about
  /\ memory'.phase = "not_started" => memory'.task = NoTask
  /\ journal' \in Seq(RecordType) /\ Readable(journal')
  /\ healthy' \in BOOLEAN /\ intact' \in BOOLEAN /\ (healthy' => intact')
  /\ granted' \subseteq Nat

LEMMA NumbersTyped ==
  ASSUME TypeInv
  PROVE  memory \in MemoryType /\ memory.seq \in Nat /\ memory.slot \in SlotType
         /\ memory.slot.seq \in Nat /\ memory.task \in TaskType
         /\ journal \in Seq(RecordType) /\ Readable(journal)
  BY DEF TypeInv, StateTypeOK, MemoryType, SlotType

LEMMA StillKnown ==
  ASSUME TypeInv, Onward, boot' = boot, NEW command \in CommandType, NEW lease,
         CallKnown(command, lease)
  PROVE  CallKnown(command, lease)'
<1>1. CASE command = NoCommand \/ lease # boot
  BY <1>1 DEF CallKnown
<1>2. CASE command # NoCommand /\ lease = boot
  <2>1. command.seq \in 1..memory.seq /\ (memory.slot.seq = command.seq => Answering(command))
    BY <1>2 DEF CallKnown
  <2>2. memory.seq \in Nat /\ command.seq \in Nat
    BY NumbersTyped DEF CommandType
  <2>3. command.seq \in 1..memory'.seq
    BY <2>1, <2>2 DEF Onward
  <2>4. memory'.slot.seq = command.seq => Answering(command)'
    BY <2>1, <2>2, ConstantsTyped DEF Onward, Answering
  <2> QED
    BY <2>3, <2>4 DEF CallKnown
<1> QED
  BY <1>1, <1>2

LEMMA OnwardCalls ==
  ASSUME TypeInv, Onward
  PROVE  /\ (memory.slot.seq \in {0, memory.seq})'
         /\ (memory.slot # NoSlot <=> memory.slot.seq # 0)'
         /\ (memory.task.kind = "none" <=> memory.slot = NoSlot)'
         /\ (memory.task.kind = "none" => memory.task = NoTask)'
         /\ (memory.phase = "not_started" => memory.task = NoTask)'
  BY NumbersTyped, ConstantsTyped DEF Onward, TypeInv, CallInv

\* The calls that a step finds or leaves.
LEMMA OnwardInv ==
  ASSUME TypeInv, Onward, boot' = boot, owner' \in Int,
         bridge' \in [started : Nat, lease : Nat, command : CommandType], bridge'.lease <= boot,
         late' \in ReplyType, late'.lease <= boot,
         live' \subseteq HandleType, nextId' \in Nat \ {0},
         CallKnown(bridge'.command, bridge'.lease),
         late' # NoReply => CallKnown(late'.call, late'.lease) /\ late'.call # NoCommand
  PROVE  TypeInv'
<1>1. StateTypeOK'
  BY DEF StateTypeOK, Onward, TypeInv
<1>2. Readable(journal)'
  BY DEF Onward
<1>3. bridge'.command \in CommandType
  OBVIOUS
<1>4. late'.call \in CommandType
  BY DEF ReplyType
<1>5. CallKnown(bridge.command, bridge.lease)'
  <2>1. \A command \in CommandType : \A lease : CallKnown(command, lease) =>
          /\ command # NoCommand /\ lease = boot' =>
               /\ command.seq \in 1..memory'.seq
               /\ memory'.slot.seq = command.seq =>
                    /\ command.method = memory'.slot.method
                    /\ command.id = memory'.slot.id
                    /\ command.about = memory'.slot.about
    BY StillKnown DEF CallKnown, Answering
  <2> QED
    BY <1>3, <2>1 DEF CallKnown, Answering
<1>6. (late # NoReply => CallKnown(late.call, late.lease))'
  <2>1. \A command \in CommandType : \A lease : CallKnown(command, lease) =>
          /\ command # NoCommand /\ lease = boot' =>
               /\ command.seq \in 1..memory'.seq
               /\ memory'.slot.seq = command.seq =>
                    /\ command.method = memory'.slot.method
                    /\ command.id = memory'.slot.id
                    /\ command.about = memory'.slot.about
    BY StillKnown DEF CallKnown, Answering
  <2> QED
    BY <1>4, <2>1 DEF CallKnown, Answering
<1> QED
  BY <1>1, <1>2, <1>5, <1>6, OnwardCalls DEF TypeInv, CallInv

\* A controller that the failing of the journal stops.
RetainedIn(m, slot, id) ==
  [Ended(m) EXCEPT !.required = TRUE,
     !.retained = @ \cup {Handle(id, IF slot.method = "whole" THEN {} ELSE slot.about)}]
Idled(m, k) ==
  m \in MemoryType /\ m.slot = NoSlot /\ m.task = NoTask /\ m.seq = k /\ m.phase # "not_started"

LEMMA RetainedTyped ==
  ASSUME NEW m \in MemoryType, NEW slot \in SlotType, NEW id \in Nat, m.phase # "not_started"
  PROVE  Idled(RetainedIn(m, slot, id), m.seq)
<1> DEFINE e == Ended(m)
           h == Handle(id, IF slot.method = "whole" THEN {} ELSE slot.about)
           g == e.retained \cup {h}
<1>1. h \in HandleType
  BY DEF Handle, HandleType, SlotType
<1>2. e \in MemoryType /\ e.slot = NoSlot /\ e.task = NoTask /\ e.seq = m.seq /\ e.phase = m.phase
  BY EndedTyped
<1>3. RetainedIn(m, slot, id) = [e EXCEPT !.required = TRUE, !.retained = g]
  BY <1>2 DEF RetainedIn, MemoryType
<1> HIDE DEF e, h
<1>4. g \in SUBSET HandleType
  BY <1>1, <1>2 DEF MemoryType
<1> HIDE DEF g
<1> QED
  BY <1>2, <1>3, <1>4 DEF MemoryType, Idled

LEMMA LostTyped ==
  ASSUME NEW m \in MemoryType
  PROVE  Idled([Ended(m) EXCEPT !.unknown = @ + 1, !.required = TRUE, !.phase = "degraded"], m.seq)
<1> DEFINE e == Ended(m)
           u == e.unknown + 1
<1>1. e \in MemoryType /\ e.slot = NoSlot /\ e.task = NoTask /\ e.seq = m.seq
  BY EndedTyped
<1> HIDE DEF e
<1>2. e.unknown \in Nat
  BY <1>1 DEF MemoryType
<1>3. u \in Nat
  BY <1>2
<1>4. [e EXCEPT !.unknown = @ + 1, !.required = TRUE, !.phase = "degraded"]
        = [e EXCEPT !.unknown = u, !.required = TRUE, !.phase = "degraded"]
  BY <1>1 DEF MemoryType
<1> HIDE DEF u
<1>5. "degraded" \in Phases
  BY DEF Phases
<1>6. Idled([e EXCEPT !.unknown = u, !.required = TRUE, !.phase = "degraded"], e.seq)
  BY <1>1, <1>3, <1>5 DEF MemoryType, Idled
<1> QED
  BY <1>1, <1>4, <1>6 DEF e

LEMMA StoppedIdled ==
  ASSUME TypeInv, NEW c, Follows(c), NEW n \in Nat
  PROVE  Idled(Stopped(c, n), memory.seq) \/ Idled(Stopped(c, n), c.memory.seq)
<1> DEFINE slot == memory.slot
           wrote(what) == \E i \in DOMAIN c.records :
             c.records[i].kind = "registry_transition" /\ c.records[i].what \in what
           lost == memory.phase \in {"not_started", "running"} \/ memory.task.kind = "startup"
           dropped == n < 2 /\ wrote({"unsubscribed"})
           added == n < 2 /\ wrote({"whole", "single"})
<1>0. memory \in MemoryType /\ slot \in SlotType /\ c.memory \in MemoryType /\ c.records \in Seq(RecordType)
      /\ c.memory.phase # "not_started"
  BY NumbersTyped DEF Follows, TypedCourse
<1>1. Stopped(c, n) =
        IF lost THEN [Ended(memory) EXCEPT !.unknown = @ + 1, !.required = TRUE, !.phase = "degraded"]
        ELSE IF dropped THEN RetainedIn(memory, slot, slot.id)
        ELSE IF added THEN RetainedIn(c.memory, slot, c.records[2].id)
        ELSE Ended(c.memory)
  BY DEF Stopped, RetainedIn
<1>2. slot.id \in Nat
  BY <1>0 DEF SlotType
<1>3. ASSUME added PROVE c.records[2].id \in Nat
  <2>1. PICK i \in DOMAIN c.records : c.records[i].kind = "registry_transition"
    BY <1>3
  <2>2. i # 1
    BY <1>0, <2>1 DEF Follows, TypedCourse
  <2>3. 2 \in DOMAIN c.records
    BY <1>0, <2>1, <2>2
  <2>4. c.records[2] \in RecordType
    BY <1>0, <2>3
  <2> QED
    BY <2>4 DEF RecordType
<1>4. ~lost => memory.phase # "not_started"
  OBVIOUS
<1>5. Idled(Ended(c.memory), c.memory.seq)
  BY <1>0, EndedTyped DEF Idled
<1> HIDE DEF slot, lost, dropped, added
<1> QED
  BY <1>0, <1>1, <1>2, <1>3, <1>4, <1>5, RetainedTyped, LostTyped

LEMMA StoppedTyped ==
  ASSUME TypeInv, NEW c, Follows(c), NEW n \in Nat
  PROVE  /\ Stopped(c, n) \in MemoryType
         /\ Stopped(c, n).slot = NoSlot /\ Stopped(c, n).task = NoTask
         /\ Stopped(c, n).seq \in {memory.seq, memory.seq + 1}
         /\ Stopped(c, n).phase # "not_started"
<1>1. c.memory.seq \in {memory.seq, memory.seq + 1}
  BY DEF Follows
<1> QED
  BY <1>1, StoppedIdled DEF Idled

LEMMA TakesOnward ==
  ASSUME TypeInv, NEW c, Follows(c), NEW told \in SUBSET Nat, NEW breaks \in BOOLEAN,
         Takes(c, told, breaks)
  PROVE  Onward
<1>0. c.memory \in MemoryType /\ c.records \in Seq(RecordType) /\ Len(c.records) \in Nat
  BY DEF Follows, TypedCourse
<1>0a. journal \in Seq(RecordType) /\ Readable(journal) /\ memory.seq \in Nat
  BY NumbersTyped
<1>1. CASE ~breaks
  <2>1. Written(c, told)
    BY <1>1 DEF Takes
  <2> DEFINE k == Len(c.records)
  <2>2. SubSeq(c.records, 1, k) = c.records /\ k \in Nat /\ k <= Len(c.records)
    BY <1>0
  <2>3. journal' \in Seq(RecordType) /\ Readable(journal')
    <3>1. journal' = journal \o SubSeq(c.records, 1, k)
      BY <2>1, <2>2 DEF Written
    <3> HIDE DEF k
    <3> QED
      BY <1>0, <1>0a, <2>2, <3>1, ReadableConcat
  <2>4. granted' \subseteq Nat
    BY <2>1 DEF Written
  <2> QED
    BY <2>1, <2>3, <2>4 DEF Written, Onward, Follows, TypedCourse, TypeInv, StateTypeOK
<1>2. CASE breaks
  <2>1. Broken(c, told)
    BY <1>2 DEF Takes
  <2>2. PICK n \in 0..(Len(c.records) - 1), tail \in {"none", "half", "whole"} :
          LET kept == SubSeq(c.records, 1, IF tail = "whole" THEN n + 1 ELSE n)
          IN  /\ memory' = Stopped(c, n)
              /\ journal' = journal \o kept
              /\ granted' = IF Observation \in ToSet(kept) THEN {} ELSE told
              /\ healthy' = FALSE
              /\ intact' = (tail # "half")
    BY <2>1 DEF Broken
  <2> DEFINE k == IF tail = "whole" THEN n + 1 ELSE n
  <2>3. k \in Nat /\ k <= Len(c.records) /\ n \in Nat
    BY <1>0
  <2>4. journal' \in Seq(RecordType) /\ Readable(journal')
    <3>1. journal' = journal \o SubSeq(c.records, 1, k)
      BY <2>2
    <3> HIDE DEF k
    <3> QED
      BY <1>0, <1>0a, <2>3, <3>1, ReadableConcat
  <2>5. granted' \subseteq Nat
    BY <2>2
  <2>6. healthy' = FALSE /\ intact' \in BOOLEAN
    BY <2>2
  <2> HIDE DEF k
  <2> QED
    BY <2>2, <2>3, <2>4, <2>5, <2>6, StoppedTyped DEF Onward
<1> QED
  BY <1>1, <1>2

\* The lines of vars that a step of the controller alone leaves.
Unmoved == UNCHANGED <<boot, owner, bridge, late, terminalVars>>

LEMMA AloneInv ==
  ASSUME TypeInv, Onward, Unmoved
  PROVE  TypeInv'
<1>1. /\ bridge \in [started : Nat, lease : Nat, command : CommandType] /\ bridge.lease <= boot
      /\ late \in ReplyType /\ late.lease <= boot /\ live \subseteq HandleType /\ nextId \in Nat \ {0}
      /\ owner \in Int
      /\ CallKnown(bridge.command, bridge.lease)
      /\ late # NoReply => CallKnown(late.call, late.lease) /\ late.call # NoCommand
  BY DEF TypeInv, StateTypeOK, CallInv
<1>2. boot' = boot /\ owner' = owner /\ bridge' = bridge /\ late' = late /\ live' = live /\ nextId' = nextId
  BY DEF Unmoved, terminalVars
<1> QED
  BY <1>1, <1>2, OnwardInv

LEMMA StillOnward ==
  ASSUME TypeInv, UNCHANGED <<memory, journalVars, granted>>
  PROVE  Onward
<1>1. memory' = memory /\ journal' = journal /\ healthy' = healthy /\ intact' = intact /\ granted' = granted
  BY DEF journalVars
<1> QED
  BY <1>1 DEF TypeInv, StateTypeOK, CallInv, Onward

\* The controller that starts on a request, or on the recovery.
Begun(m, task, phase) == [m EXCEPT !.task = task, !.phase = phase]
LEMMA BegunIdle ==
  ASSUME TypeInv, memory.slot = NoSlot, NEW task \in TaskType, task.kind # "none",
         NEW phase \in Phases, phase # "not_started"
  PROVE  Idle(Course(Begun(memory, task, phase), <<>>))
<1>1. memory \in MemoryType
  BY NumbersTyped
<1>2. /\ Begun(memory, task, phase) \in MemoryType /\ Begun(memory, task, phase).slot = NoSlot
      /\ Begun(memory, task, phase).seq = memory.seq /\ Begun(memory, task, phase).task = task
      /\ Begun(memory, task, phase).phase = phase
  BY <1>1 DEF Begun, MemoryType
<1>3. <<>> \in Seq(RecordType)
  OBVIOUS
<1> QED
  BY <1>2, <1>3 DEF Idle, TypedCourse, Course

LEMMA BegunIs ==
  ASSUME memory \in MemoryType, NEW task
  PROVE  [memory EXCEPT !.task = task] = Begun(memory, task, memory.phase)
  BY DEF Begun, MemoryType

LEMMA RequestsInv ==
  ASSUME TypeInv, NEW courses, \A c \in courses : Follows(c), Requests(courses)
  PROVE  TypeInv'
<1>1. PICK c \in courses, breaks \in BOOLEAN : Takes(c, granted, breaks)
  BY DEF Requests
<1>2. granted \in SUBSET Nat
  BY DEF TypeInv, StateTypeOK
<1>3. Onward
  BY <1>1, <1>2, TakesOnward
<1>4. Unmoved
  BY DEF Requests, Unmoved
<1> QED
  BY <1>3, <1>4, AloneInv

LEMMA ControlIdle ==
  ASSUME TypeInv, memory.task = NoTask, memory.phase \notin {"not_started", "running"},
         NEW kind \in {"subscribe", "unsubscribe", "sync"},
         NEW todo \in SUBSET HandleType, NEW desired \in SUBSET Symbols
  PROVE  Idle(Course([memory EXCEPT !.task = Task(kind, todo, desired)], <<>>))
<1> DEFINE task == Task(kind, todo, desired)
<1>1. memory.slot = NoSlot /\ memory \in MemoryType
  BY NumbersTyped, ConstantsTyped DEF TypeInv, CallInv
<1>2. task \in TaskType /\ task.kind = kind
  BY DEF Task, TaskType
<1>3. memory.phase \in Phases /\ kind # "none"
  BY <1>1 DEF MemoryType
<1> HIDE DEF task
<1> QED
  BY <1>1, <1>2, <1>3, BegunIdle, BegunIs DEF task

LEMMA HandlesTyped ==
  ASSUME NEW m \in MemoryType
  PROVE  Handles(m) \in SUBSET HandleType
<1>1. m.whole \in WholeType /\ m.singles \in [Symbols -> Nat]
  BY DEF MemoryType
<1>2. Handle(m.whole.id, {}) \in HandleType
  BY <1>1 DEF WholeType, Handle, HandleType
<1>3. \A s \in Symbols : Handle(m.singles[s], {s}) \in HandleType
  BY <1>1 DEF Handle, HandleType
<1> QED
  BY <1>2, <1>3 DEF Handles

LEMMA SubscribeInv ==
  ASSUME TypeInv, NEW s \in Symbols, Subscribe(s)
  PROVE  TypeInv'
<1> DEFINE c == Course([memory EXCEPT !.task = Task("subscribe", {}, {})], <<>>)
<1>1. memory.task = NoTask /\ memory.phase \notin {"not_started", "running"}
  BY DEF Subscribe, Requests, MayControl
<1>2. Idle(c)
  BY <1>1, ControlIdle
<1>3. Requests({Calling(c, "single", 0, {s})})
  BY DEF Subscribe
<1> HIDE DEF c
<1>4. "single" \in Methods /\ 0 \in Nat /\ {s} \in SUBSET Symbols
  BY DEF Methods
<1>5. Follows(Calling(c, "single", 0, {s}))
  BY <1>2, <1>4, CallingFollows, NumbersTyped
<1> QED
  BY <1>3, <1>5, RequestsInv

LEMMA UnsubscribeInv ==
  ASSUME TypeInv, NEW s \in Symbols, Unsubscribe(s)
  PROVE  TypeInv'
<1> DEFINE h == Handle(memory.singles[s], {s})
           c == Course([memory EXCEPT !.task = Task("unsubscribe", {h}, {})], <<>>)
<1>1. memory.task = NoTask /\ memory.phase \notin {"not_started", "running"}
  BY DEF Unsubscribe, Requests, MayControl
<1>2. h \in HandleType
  BY NumbersTyped DEF MemoryType, Handle, HandleType
<1> HIDE DEF h
<1>3. Idle(c)
  BY <1>1, <1>2, ControlIdle
<1>4. Requests(NextOfRequest(c))
  BY DEF Unsubscribe, h
<1> HIDE DEF c
<1>5. \A d \in NextOfRequest(c) : Follows(d)
  BY <1>3, NextOfRequestFollows, NumbersTyped
<1> QED
  BY <1>4, <1>5, RequestsInv

LEMMA SyncInv ==
  ASSUME TypeInv, NEW desired \in SUBSET Symbols, Sync(desired)
  PROVE  TypeInv'
<1> DEFINE hs == Handles(memory)
           c == Course([memory EXCEPT !.task = Task("sync", hs, desired)], <<>>)
<1>1. memory.task = NoTask /\ memory.phase \notin {"not_started", "running"}
  BY DEF Sync, Requests, MayControl
<1>2. hs \in SUBSET HandleType
  BY NumbersTyped, HandlesTyped
<1>3. Requests(NextOfRequest(c))
  BY DEF Sync
<1> HIDE DEF hs
<1>4. Idle(c)
  BY <1>1, <1>2, ControlIdle
<1> HIDE DEF c
<1>5. \A d \in NextOfRequest(c) : Follows(d)
  BY <1>4, NextOfRequestFollows, NumbersTyped
<1> QED
  BY <1>3, <1>5, RequestsInv

LEMMA ReconcileInv ==
  ASSUME TypeInv, ReconcileStartup
  PROVE  TypeInv'
<1> DEFINE todo == {Handle(c.id, c.about) : c \in {x \in memory.candidates : ~x.tried}}
           task == Task("startup", todo, {})
           start == [memory EXCEPT !.phase = "running", !.task = task]
<1>1. memory.phase = "not_started" /\ memory \in MemoryType
  BY NumbersTyped DEF ReconcileStartup
<1>2. memory.slot = NoSlot
  BY <1>1, ConstantsTyped DEF TypeInv, CallInv
<1>3. todo \in SUBSET HandleType
  BY <1>1 DEF MemoryType, CandidateType, Handle, HandleType
<1>4. PICK c \in NextCleanup(Course(start, <<>>)), breaks \in BOOLEAN : Takes(c, granted, breaks)
  BY DEF ReconcileStartup
<1> HIDE DEF todo
<1>5. task \in TaskType /\ task.kind = "startup"
  BY <1>3 DEF Task, TaskType
<1>6. start = Begun(memory, task, "running")
  BY <1>1 DEF Begun, MemoryType
<1> HIDE DEF task, start
<1>7. Idle(Course(start, <<>>))
  BY <1>2, <1>5, <1>6, BegunIdle DEF Phases
<1>8. Follows(c)
  BY <1>1, <1>4, <1>7, NextCleanupFollows
<1>9. granted \in SUBSET Nat
  BY DEF TypeInv, StateTypeOK
<1>10. Onward
  BY <1>4, <1>8, <1>9, TakesOnward
<1>11. Unmoved
  BY DEF ReconcileStartup, Unmoved
<1> QED
  BY <1>10, <1>11, AloneInv

LEMMA BusyStarted ==
  ASSUME TypeInv, memory.slot # NoSlot
  PROVE  memory.task.kind # "none" /\ memory.phase # "not_started" /\ memory \in MemoryType
  BY NumbersTyped, ConstantsTyped DEF TypeInv, CallInv

LEMMA TimesOutInv ==
  ASSUME TypeInv, CallTimesOut
  PROVE  TypeInv'
<1>1. PICK c \in Timeouts, breaks \in BOOLEAN : Takes(c, granted, breaks)
  BY DEF CallTimesOut
<1>2. Follows(c)
  BY BusyStarted, TimeoutsFollow DEF CallTimesOut
<1>3. granted \in SUBSET Nat
  BY DEF TypeInv, StateTypeOK
<1>4. Onward
  BY <1>1, <1>2, <1>3, TakesOnward
<1>5. Unmoved
  BY DEF CallTimesOut, Unmoved
<1> QED
  BY <1>4, <1>5, AloneInv

LEMMA BrokenObservation ==
  ASSUME TypeInv, memory.phase # "not_started", Broken(Course(memory, <<Observation>>), granted)
  PROVE  Onward /\ memory'.slot = NoSlot
<1> DEFINE c == Course(memory, <<Observation>>)
<1>1. c.memory = memory /\ c.records = <<Observation>>
  BY DEF Course
<1>2. PICK n \in 0..(Len(c.records) - 1), tail \in {"none", "half", "whole"} :
        LET kept == SubSeq(c.records, 1, IF tail = "whole" THEN n + 1 ELSE n)
        IN  /\ memory' = Stopped(c, n)
            /\ journal' = journal \o kept
            /\ granted' = IF Observation \in ToSet(kept) THEN {} ELSE granted
            /\ healthy' = FALSE
            /\ intact' = (tail # "half")
  BY DEF Broken
<1>2a. c.records \in Seq(RecordType) /\ Len(c.records) = 1
  <2>1. \A r \in RecordType : <<r>> \in Seq(RecordType) /\ Len(<<r>>) = 1
    OBVIOUS
  <2> QED
    BY <1>1, <2>1, RecordsTyped
<1>3. n = 0 /\ Len(c.records) = 1 /\ c.records \in Seq(RecordType)
  <2> HIDE DEF c
  <2> QED
    BY <1>2a
<1> DEFINE k == IF tail = "whole" THEN n + 1 ELSE n
<1>4. k \in Nat /\ k <= Len(c.records)
  BY <1>3
<1>5. journal' \in Seq(RecordType) /\ Readable(journal')
  <2>1. journal' = journal \o SubSeq(c.records, 1, k)
    BY <1>2
  <2> HIDE DEF k, c
  <2> QED
    BY <1>3, <1>4, <2>1, NumbersTyped, ReadableConcat
<1>6. Idled(memory', memory.seq)
  <2>1. \A i \in DOMAIN c.records : c.records[i].kind # "registry_transition"
    BY <1>1, RecordsTyped
  <2>2. memory' = IF memory.phase \in {"not_started", "running"} \/ memory.task.kind = "startup"
                  THEN [Ended(memory) EXCEPT !.unknown = @ + 1, !.required = TRUE, !.phase = "degraded"]
                  ELSE Ended(memory)
    BY <1>1, <1>2, <2>1 DEF Stopped
  <2>3. Idled(Ended(memory), memory.seq)
    BY NumbersTyped, EndedTyped DEF Idled
  <2> QED
    BY <2>2, <2>3, NumbersTyped, LostTyped
<1>7. granted' \subseteq Nat /\ healthy' = FALSE /\ intact' \in BOOLEAN
  BY <1>2 DEF TypeInv, StateTypeOK
<1> QED
  BY <1>5, <1>6, <1>7 DEF Onward, Idled

LEMMA ObservedOnward ==
  ASSUME TypeInv, memory.phase # "not_started",
         Written(Course(Unlocked(memory), <<Observation>>), granted)
  PROVE  Onward
<1>1. memory' = Unlocked(memory) /\ journal' = journal \o <<Observation>>
      /\ granted' \in {{}, granted} /\ healthy' = healthy /\ intact' = intact
  BY DEF Written, Course
<1>2. journal \o <<Observation>> = Append(journal, Observation)
  BY NumbersTyped, RecordsTyped
<1>3. journal' \in Seq(RecordType) /\ Readable(journal')
  <2>1. Observation \in RecordType /\ journal \in Seq(RecordType) /\ Readable(journal)
    BY NumbersTyped, RecordsTyped
  <2>2. Append(journal, Observation) \in Seq(RecordType)
    BY <2>1
  <2> QED
    BY <1>1, <1>2, <2>1, <2>2, ReadableAppend
<1>4. granted' \subseteq Nat /\ healthy' \in BOOLEAN /\ intact' \in BOOLEAN /\ (healthy' => intact')
  BY <1>1 DEF TypeInv, StateTypeOK
<1>5. /\ memory' \in MemoryType /\ memory'.seq = memory.seq /\ memory'.slot = memory.slot
      /\ memory'.task = memory.task /\ memory'.phase = "completed"
  BY <1>1, NumbersTyped, UnlockedTyped
<1> QED
  BY <1>3, <1>4, <1>5 DEF Onward

LEMMA RegisterInv ==
  ASSUME TypeInv, RegisterBridge
  PROVE  TypeInv'
<1>1. Onward
  <2>1. CASE UNCHANGED <<memory, journalVars, granted>>
    BY <2>1, StillOnward
  <2>2. CASE Written(Course(Unlocked(memory), <<Observation>>), granted) /\ memory.phase \in {"running", "degraded"}
    BY <2>2, ObservedOnward
  <2>3. CASE Broken(Course(memory, <<Observation>>), granted) /\ memory.phase \in {"running", "degraded"}
    BY <2>3, BrokenObservation
  <2> QED
    BY <2>1, <2>2, <2>3 DEF RegisterBridge
<1>2. /\ bridge' = [bridge EXCEPT !.lease = boot] \/ bridge' = bridge
      /\ bridge.command = NoCommand /\ owner' = bridge.started /\ late' = NoReply
      /\ boot' = boot /\ live' = live /\ nextId' = nextId
  BY DEF RegisterBridge, terminalVars
<1>3. /\ bridge \in [started : Nat, lease : Nat, command : CommandType] /\ bridge.lease <= boot
      /\ boot \in Nat \ {0} /\ live \subseteq HandleType /\ nextId \in Nat \ {0}
  BY DEF TypeInv, StateTypeOK
<1>4. /\ bridge' \in [started : Nat, lease : Nat, command : CommandType] /\ bridge'.lease <= boot
      /\ bridge'.command = NoCommand
  BY <1>2, <1>3
<1>5. late' \in ReplyType /\ late'.lease <= boot
  <2>1. NoReply.lease = 0
    BY DEF NoReply, Reply
  <2> QED
    BY <1>2, <1>3, <2>1, ConstantsTyped
<1>6. owner' \in Int
  BY <1>2, <1>3
<1>7. CallKnown(bridge'.command, bridge'.lease)
  BY <1>4 DEF CallKnown
<1> QED
  BY <1>1, <1>2, <1>3, <1>4, <1>5, <1>6, <1>7, OnwardInv

LEMMA ExposedOnward ==
  ASSUME TypeInv, memory.slot # NoSlot, memory' = [memory EXCEPT !.slot.exposed = TRUE],
         UNCHANGED <<journalVars, granted>>
  PROVE  Onward
<1> DEFINE slot == [memory.slot EXCEPT !.exposed = TRUE]
<1>0. memory \in MemoryType /\ memory.slot \in SlotType
  BY NumbersTyped
<1>1. /\ slot \in SlotType /\ slot.seq = memory.slot.seq /\ slot.method = memory.slot.method
      /\ slot.id = memory.slot.id /\ slot.about = memory.slot.about
  BY <1>0 DEF SlotType
<1>2. slot # NoSlot
  <2>1. slot.exposed = TRUE
    BY <1>0 DEF SlotType
  <2> QED
    BY <2>1, ConstantsTyped
<1>3. memory' = [memory EXCEPT !.slot = slot]
  BY <1>0 DEF MemoryType, SlotType
<1> HIDE DEF slot
<1>4. /\ memory' \in MemoryType /\ memory'.seq = memory.seq /\ memory'.slot = slot
      /\ memory'.task = memory.task /\ memory'.phase = memory.phase
  BY <1>0, <1>1, <1>3 DEF MemoryType
<1>5. /\ journal' \in Seq(RecordType) /\ Readable(journal') /\ healthy' \in BOOLEAN /\ intact' \in BOOLEAN
      /\ (healthy' => intact') /\ granted' \subseteq Nat
  BY DEF TypeInv, StateTypeOK, journalVars
<1>6. memory'.phase = "not_started" => memory'.task = NoTask
  BY <1>4 DEF TypeInv, CallInv
<1> QED
  BY <1>1, <1>2, <1>4, <1>5, <1>6 DEF Onward

LEMMA PollInv ==
  ASSUME TypeInv, PollCommand
  PROVE  TypeInv'
<1> DEFINE s == memory.slot
           command == [seq |-> s.seq, method |-> s.method, id |-> s.id, about |-> s.about]
<1>1. Onward
  BY ExposedOnward DEF PollCommand
<1>2. /\ bridge \in [started : Nat, lease : Nat, command : CommandType] /\ bridge.lease <= boot
      /\ late \in ReplyType /\ late.lease <= boot /\ live \subseteq HandleType /\ nextId \in Nat \ {0}
      /\ owner \in Int /\ s \in SlotType /\ s # NoSlot /\ memory.seq \in Nat
      /\ s.seq \in {0, memory.seq} /\ s.seq # 0
      /\ CallKnown(bridge.command, bridge.lease)
      /\ late # NoReply => CallKnown(late.call, late.lease) /\ late.call # NoCommand
  BY NumbersTyped DEF PollCommand, TypeInv, StateTypeOK, CallInv
<1>3. command \in CommandType
  BY <1>2 DEF SlotType, CommandType
<1>4. CallKnown(command, bridge.lease)
  BY <1>2 DEF CallKnown, Answering
<1>5. bridge' = [bridge EXCEPT !.command = command] \/ bridge' = bridge
  BY DEF PollCommand
<1> HIDE DEF command
<1>6. /\ bridge' \in [started : Nat, lease : Nat, command : CommandType] /\ bridge'.lease <= boot
      /\ CallKnown(bridge'.command, bridge'.lease)
  BY <1>2, <1>3, <1>4, <1>5
<1>7. boot' = boot /\ owner' = owner /\ late' = late /\ live' = live /\ nextId' = nextId
  BY DEF PollCommand, terminalVars
<1> QED
  BY <1>1, <1>2, <1>6, <1>7, OnwardInv

LEMMA PostOnward ==
  ASSUME TypeInv, NEW reply \in ReplyType, NEW breaks \in BOOLEAN, PostResult(reply, breaks)
  PROVE  Onward
<1>1. CASE Accepts(reply)
  <2> DEFINE told == IF reply.says = "id" THEN granted \cup {reply.id} ELSE granted
  <2>1. PICK c \in Answers(reply.says, reply.id) : Takes(c, told, breaks)
    BY <1>1 DEF PostResult
  <2>2. reply.says \in Says /\ reply.id \in Nat
    BY DEF ReplyType
  <2>3. told \in SUBSET Nat
    BY <2>2 DEF TypeInv, StateTypeOK
  <2> HIDE DEF told
  <2>4. memory.slot # NoSlot
    BY <1>1, ConstantsTyped DEF Accepts
  <2>5. Follows(c)
    BY <2>1, <2>2, <2>4, BusyStarted, AnswersFollow
  <2> QED
    BY <2>1, <2>3, <2>5, TakesOnward
<1>2. CASE ~Accepts(reply)
  BY <1>2, StillOnward DEF PostResult
<1> QED
  BY <1>1, <1>2

LEMMA ExecutesTyped ==
  ASSUME TypeInv, NEW command \in CommandType, NEW does \in BOOLEAN, Executes(command, does)
  PROVE  live' \subseteq HandleType /\ nextId' \in Nat \ {0}
<1>1. live \subseteq HandleType /\ nextId \in Nat \ {0}
  BY DEF TypeInv, StateTypeOK
<1>2. Handle(nextId, command.about) \in HandleType
  BY <1>1 DEF Handle, HandleType, CommandType
<1>3. WithoutId(live, command.id) \subseteq live
  BY DEF WithoutId
<1> QED
  BY <1>1, <1>2, <1>3 DEF Executes, terminalVars

LEMMA ExecuteInv ==
  ASSUME TypeInv, BridgeExecutes
  PROVE  TypeInv'
<1> DEFINE command == bridge.command
<1>1. PICK does \in BOOLEAN, delayed \in BOOLEAN, breaks \in BOOLEAN,
           says \in {"id", "true", "false", "other", "failure"} :
        LET reply == Reply(command, says, IF says = "id" THEN nextId ELSE 0, bridge.lease)
        IN  /\ Executes(command, does)
            /\ IF delayed
               THEN late' = reply /\ ~breaks /\ UNCHANGED <<memory, journalVars, granted>>
               ELSE PostResult(reply, breaks) /\ UNCHANGED late
  BY DEF BridgeExecutes
<1> DEFINE reply == Reply(command, says, IF says = "id" THEN nextId ELSE 0, bridge.lease)
<1>2. /\ bridge \in [started : Nat, lease : Nat, command : CommandType] /\ bridge.lease <= boot
      /\ late \in ReplyType /\ late.lease <= boot /\ nextId \in Nat \ {0} /\ owner \in Int
      /\ CallKnown(bridge.command, bridge.lease)
      /\ late # NoReply => CallKnown(late.call, late.lease) /\ late.call # NoCommand
      /\ command \in CommandType
  BY DEF TypeInv, StateTypeOK, CallInv
<1>3. /\ command # NoCommand /\ bridge' = [bridge EXCEPT !.command = NoCommand]
      /\ boot' = boot /\ owner' = owner
  BY DEF BridgeExecutes
<1>4. reply \in ReplyType /\ reply.call = command /\ reply.lease = bridge.lease
  BY <1>2 DEF Reply, ReplyType, Says
<1>5. \/ late' = reply /\ UNCHANGED <<memory, journalVars, granted>>
      \/ PostResult(reply, breaks) /\ late' = late
  BY <1>1
<1>6. live' \subseteq HandleType /\ nextId' \in Nat \ {0}
  BY <1>1, <1>2, ExecutesTyped
<1> HIDE DEF reply
<1>7. Onward
  BY <1>4, <1>5, PostOnward, StillOnward
<1>8. /\ late' \in ReplyType /\ late'.lease <= boot
      /\ late' # NoReply => CallKnown(late'.call, late'.lease) /\ late'.call # NoCommand
  BY <1>2, <1>3, <1>4, <1>5
<1>9. /\ bridge' \in [started : Nat, lease : Nat, command : CommandType] /\ bridge'.lease <= boot
      /\ bridge'.command = NoCommand
  BY <1>2, <1>3, ConstantsTyped
<1>10. CallKnown(bridge'.command, bridge'.lease)
  BY <1>9 DEF CallKnown
<1> QED
  BY <1>2, <1>3, <1>6, <1>7, <1>8, <1>9, <1>10, OnwardInv

LEMMA LateReplyInv ==
  ASSUME TypeInv, LateReply
  PROVE  TypeInv'
<1>1. /\ bridge \in [started : Nat, lease : Nat, command : CommandType] /\ bridge.lease <= boot
      /\ late \in ReplyType /\ boot \in Nat /\ live \subseteq HandleType /\ nextId \in Nat \ {0}
      /\ owner \in Int /\ CallKnown(bridge.command, bridge.lease)
  BY DEF TypeInv, StateTypeOK, CallInv
<1>2. PICK breaks \in BOOLEAN : PostResult(late, breaks)
  BY DEF LateReply
<1>3. Onward
  BY <1>1, <1>2, PostOnward
<1>4. late' = NoReply /\ boot' = boot /\ owner' = owner /\ bridge' = bridge /\ live' = live /\ nextId' = nextId
  BY DEF LateReply, terminalVars
<1>5. NoReply \in ReplyType /\ NoReply.lease = 0
  BY ConstantsTyped DEF NoReply, Reply
<1> QED
  BY <1>1, <1>3, <1>4, <1>5, OnwardInv

\* What a start restores has the types, and calls nothing.
LEMMA RestoredTyped ==
  ASSUME NEW k \in KnownType
  PROVE  /\ Restored(k) \in MemoryType /\ Restored(k).slot = NoSlot /\ Restored(k).task = NoTask
         /\ Restored(k).seq = 0 /\ Restored(k).phase = "not_started"
         /\ Restored(k).whole = k.whole /\ Restored(k).singles = k.singles
         /\ Restored(k).candidates = k.candidates /\ Restored(k).unknown = k.unknown
         /\ Restored(k).required <=> k.candidates # {} \/ k.unknown # 0
<1> DEFINE b == k.candidates # {} \/ k.unknown # 0
<1>1. b \in BOOLEAN
  OBVIOUS
<1>2. Restored(k) = [whole |-> k.whole, singles |-> k.singles, retained |-> k.retained,
                     candidates |-> k.candidates, unknown |-> k.unknown, required |-> b,
                     phase |-> "not_started", seq |-> 0, slot |-> NoSlot, task |-> NoTask]
  BY DEF Restored
<1> HIDE DEF b
<1>3. /\ Restored(k) \in MemoryType /\ Restored(k).slot = NoSlot /\ Restored(k).task = NoTask
      /\ Restored(k).seq = 0 /\ Restored(k).phase = "not_started"
      /\ Restored(k).whole = k.whole /\ Restored(k).singles = k.singles
      /\ Restored(k).candidates = k.candidates /\ Restored(k).unknown = k.unknown
      /\ Restored(k).required = b
  BY <1>1, <1>2, ConstantsTyped DEF KnownType, MemoryType, Phases
<1>4. Restored(k).required <=> k.candidates # {} \/ k.unknown # 0
  BY <1>3, Zenon DEF b
<1> QED
  BY <1>3, <1>4

LEMMA ForgottenTyped == Forgotten \in KnownType /\ Unknown(Forgotten) \in KnownType
<1>1. Forgotten \in KnownType
  BY DEF Forgotten, NoWhole, KnownType, WholeType
<1> QED
  BY <1>1, UnknownTyped

\* A controller that has just started knows of no call.
LEMMA FreshCalls ==
  ASSUME (memory.slot = NoSlot)', (memory.task = NoTask)', (memory.seq = 0)',
         bridge'.command = NoCommand \/ bridge'.lease # boot', late' = NoReply \/ late'.lease # boot',
         (late # NoReply => late.call # NoCommand)'
  PROVE  CallInv'
  BY ConstantsTyped DEF CallInv, CallKnown

LEMMA DatasourceInv ==
  ASSUME TypeInv, DatasourceRestart
  PROVE  TypeInv'
<1> DEFINE k == IF intact THEN Replay(journal) ELSE Unknown(Forgotten)
           m == Restored(k)
<1>1. k \in KnownType
  <2>1. Settled(After(Confirmed(journal), journal)) \in KnownType
    BY NumbersTyped, SettledTyped DEF Readable
  <2> QED
    BY <2>1, ReplayIsAfter, ForgottenTyped
<1>2. \/ memory' = m /\ UNCHANGED <<journal, granted>>
      \/ memory' = Unlocked(m) /\ journal' = Append(journal, Observation) /\ granted' = {}
  BY DEF DatasourceRestart
<1> HIDE DEF k
<1>3. /\ m \in MemoryType /\ m.slot = NoSlot /\ m.task = NoTask /\ m.seq = 0
  BY <1>1, RestoredTyped
<1> HIDE DEF m
<1>4. /\ memory' \in MemoryType /\ memory'.slot = NoSlot /\ memory'.task = NoTask /\ memory'.seq = 0
  BY <1>2, <1>3, UnlockedTyped
<1>5. journal' \in Seq(RecordType) /\ Readable(journal') /\ granted' \subseteq Nat
  <2>1. Observation \in RecordType /\ journal \in Seq(RecordType) /\ Readable(journal) /\ granted \subseteq Nat
    BY NumbersTyped, RecordsTyped DEF TypeInv, StateTypeOK
  <2>2. Append(journal, Observation) \in Seq(RecordType)
    BY <2>1
  <2> QED
    BY <1>2, <2>1, <2>2, ReadableAppend
<1>6. /\ bridge \in [started : Nat, lease : Nat, command : CommandType] /\ bridge.lease <= boot
      /\ late \in ReplyType /\ late.lease <= boot /\ boot \in Nat \ {0}
      /\ live \subseteq HandleType /\ nextId \in Nat \ {0} /\ intact \in BOOLEAN
      /\ late # NoReply => late.call # NoCommand
  BY DEF TypeInv, StateTypeOK, CallInv
<1>7. /\ boot' = boot + 1 /\ owner' = Unstarted /\ healthy' = intact /\ intact' = intact
      /\ bridge' = bridge /\ late' = late /\ live' = live /\ nextId' = nextId
  BY DEF DatasourceRestart, terminalVars
<1>8. /\ boot' \in Nat \ {0} /\ bridge'.lease <= boot' /\ late'.lease <= boot'
      /\ bridge'.lease # boot' /\ late'.lease # boot' /\ owner' \in Int
  <2>1. bridge.lease \in Nat /\ late.lease \in Nat /\ bridge.lease < boot + 1 /\ late.lease < boot + 1
    BY <1>6 DEF ReplyType
  <2> QED
    BY <1>6, <1>7, <2>1 DEF Unstarted
<1>9. StateTypeOK'
  BY <1>4, <1>5, <1>6, <1>7, <1>8 DEF StateTypeOK
<1>10. CallInv'
  BY <1>4, <1>6, <1>7, <1>8, FreshCalls
<1>11. Readable(journal)'
  BY <1>5
<1> QED
  BY <1>9, <1>10, <1>11 DEF TypeInv

LEMMA TerminalInv ==
  ASSUME TypeInv, TerminalRestart
  PROVE  TypeInv'
<1> DEFINE b == [started |-> Len(journal), lease |-> 0, command |-> NoCommand]
<1>1. /\ live' = {} /\ nextId' \in {1, nextId} /\ granted' = {} /\ bridge' = b
      /\ memory' = memory /\ journal' = journal /\ healthy' = healthy /\ intact' = intact
      /\ boot' = boot /\ owner' = owner /\ late' = late
  BY DEF TerminalRestart, journalVars
<1>2. /\ late \in ReplyType /\ late.lease <= boot /\ boot \in Nat \ {0} /\ owner \in Int
      /\ nextId \in Nat \ {0} /\ journal \in Seq(RecordType)
      /\ late # NoReply => CallKnown(late.call, late.lease) /\ late.call # NoCommand
  BY DEF TypeInv, StateTypeOK, CallInv
<1>3. Onward
  <2>1. /\ memory \in MemoryType /\ Readable(journal) /\ healthy \in BOOLEAN /\ intact \in BOOLEAN
        /\ (healthy => intact) /\ (memory.phase = "not_started" => memory.task = NoTask)
    BY DEF TypeInv, StateTypeOK, CallInv
  <2> QED
    BY <1>1, <1>2, <2>1 DEF Onward
<1>4. /\ b \in [started : Nat, lease : Nat, command : CommandType] /\ b.lease = 0 /\ b.command = NoCommand
  <2>1. Len(journal) \in Nat
    BY <1>2
  <2> QED
    BY <2>1, ConstantsTyped
<1> HIDE DEF b
<1>5. bridge' \in [started : Nat, lease : Nat, command : CommandType] /\ bridge'.lease <= boot
  BY <1>1, <1>2, <1>4
<1>6. CallKnown(bridge'.command, bridge'.lease)
  BY <1>1, <1>4 DEF CallKnown
<1>7. live' \subseteq HandleType /\ nextId' \in Nat \ {0} /\ owner' \in Int
  BY <1>1, <1>2
<1> QED
  BY <1>1, <1>2, <1>3, <1>5, <1>6, <1>7, OnwardInv

LEMMA TypeInvInit == Init => TypeInv
<1> SUFFICES ASSUME Init PROVE TypeInv
  OBVIOUS
<1> DEFINE b == [started |-> 0, lease |-> 0, command |-> NoCommand]
<1>1. /\ memory = Restored(Forgotten) /\ journal = <<>> /\ healthy = TRUE /\ intact = TRUE
      /\ boot = 1 /\ owner = Unstarted /\ late = NoReply /\ live = {} /\ nextId = 1 /\ granted = {}
      /\ bridge = b
  BY DEF Init
<1>2. /\ memory \in MemoryType /\ memory.slot = NoSlot /\ memory.task = NoTask /\ memory.seq = 0
  BY <1>1, ForgottenTyped, RestoredTyped
<1>3. b \in [started : Nat, lease : Nat, command : CommandType] /\ b.lease = 0 /\ b.command = NoCommand
  BY ConstantsTyped
<1> HIDE DEF b
<1>4. NoReply \in ReplyType /\ NoReply.lease = 0
  BY ConstantsTyped DEF NoReply, Reply
<1>5. journal \in Seq(RecordType)
  BY <1>1
<1>6. StateTypeOK
  BY <1>1, <1>2, <1>3, <1>4, <1>5 DEF StateTypeOK, Unstarted
<1>7. CallInv
  BY <1>1, <1>2, <1>3, ConstantsTyped DEF CallInv, CallKnown
<1>8. Readable(journal)
  BY <1>1, ReadableNothing
<1> QED
  BY <1>6, <1>7, <1>8 DEF TypeInv

LEMMA TypeInvNext ==
  ASSUME TypeInv, [Next]_vars
  PROVE  TypeInv'
<1>1. CASE UNCHANGED vars
  <2>1. UNCHANGED <<memory, journalVars, granted>> /\ Unmoved
    BY <1>1 DEF vars, Unmoved
  <2> QED
    BY <2>1, StillOnward, AloneInv
<1>2. CASE Next
  BY <1>2, SubscribeInv, UnsubscribeInv, SyncInv, ReconcileInv, TimesOutInv, RegisterInv, PollInv,
     ExecuteInv, LateReplyInv, DatasourceInv, TerminalInv DEF Next
<1> QED
  BY <1>1, <1>2

\* The controller, the journal, the bridge and the terminal keep their types,
\* the journal reads back to a registry and candidates after every prefix, and
\* a command the bridge has, or a reply under way, is that of the slot when it
\* has its callSequence under the lease in force (_native_call, poll_command
\* and post_result).
THEOREM SubscriptionTyped == Spec => []TypeInv
<1>1. TypeInv /\ [Next]_vars => TypeInv'
  BY TypeInvNext
<1> QED
  BY <1>1, TypeInvInit, PTL DEF Spec

\* What the controller takes from the bridge answers the call that waits, also
\* when it took the place of one that timed out: post_result compares the
\* callSequence, and none is given out twice under a lease.
THEOREM RepliesMatch == Spec => ReplyMatches
<1> DEFINE A == /\ BridgeExecutes /\ memory' # memory => Answering(bridge.command)
                /\ LateReply /\ memory' # memory => Answering(late.call)
<1>1. TypeInv /\ [Next]_vars => [A]_vars
  <2> SUFFICES ASSUME TypeInv PROVE A
    OBVIOUS
  <2>1. ASSUME BridgeExecutes, memory' # memory PROVE Answering(bridge.command)
    <3>1. PICK delayed \in BOOLEAN, breaks \in BOOLEAN,
               says \in {"id", "true", "false", "other", "failure"} :
            LET reply == Reply(bridge.command, says, IF says = "id" THEN nextId ELSE 0, bridge.lease)
            IN  IF delayed
                THEN late' = reply /\ ~breaks /\ UNCHANGED <<memory, journalVars, granted>>
                ELSE PostResult(reply, breaks) /\ UNCHANGED late
      BY <2>1 DEF BridgeExecutes
    <3> DEFINE reply == Reply(bridge.command, says, IF says = "id" THEN nextId ELSE 0, bridge.lease)
    <3>2. PostResult(reply, breaks)
      BY <2>1, <3>1
    <3>3. reply.call = bridge.command /\ reply.lease = bridge.lease
      BY DEF Reply
    <3> HIDE DEF reply
    <3>4. Accepts(reply)
      BY <2>1, <3>2 DEF PostResult
    <3> QED
      BY <2>1, <3>3, <3>4 DEF Accepts, TypeInv, CallInv, CallKnown, BridgeExecutes
  <2>2. ASSUME LateReply, memory' # memory PROVE Answering(late.call)
    <3>1. Accepts(late)
      BY <2>2 DEF LateReply, PostResult
    <3> QED
      BY <2>2, <3>1 DEF Accepts, LateReply, TypeInv, CallInv, CallKnown
  <2> QED
    BY <2>1, <2>2
<1> QED
  BY <1>1, SubscriptionTyped, PTL DEF Spec, ReplyMatches

-----------------------------------------------------------------------------
(* The registry is what the journal reads back to.                         *)

\* The handles of the registry, and those a restart would look for, whether
\* it tried them already or not.
HandlesOf(candidates) == {Handle(c.id, c.about) : c \in candidates}
View(m) == [whole |-> m.whole, singles |-> m.singles, known |-> HandlesOf(m.candidates)]
OneEach(handles) == \A h, k \in handles : h.id = k.id => h = k

\* What a journal says: no id is that of two handles, the registry is part of
\* what a restart looks for, and a callSequence is that of one call.
Sound(v, may) ==
  /\ OneEach(v.known) /\ Ids(v.known) \subseteq may
  /\ Handles(v) \subseteq v.known
Distinct(pending) == \A p, q \in pending : p.seq = q.seq => p = q
Durable(s, may) == Sound(View(s.known), may) /\ Distinct(s.pending)

\* The ids the datasource may have been told of.
Told == {i \in 1..nextId - 1 : late.says = "id" => i # late.id}

\* The controller against what the journal says: it takes no request while
\* there is something to recover, and what it has to recover is the same.
Recovering(m) == m.phase = "not_started" \/ m.task.kind = "startup"
Reads(m, k) ==
  /\ m.whole = k.whole /\ m.singles = k.singles
  /\ m.required \/ Recovering(m) => View(m) = View(k)
  /\ m.required => m.task.kind \in {"none", "startup"}
  /\ ~m.required => m.candidates = {}

\* What a request has still to cancel is in the registry.
TodoInv(m) == m.task.kind \in {"sync", "unsubscribe"} => m.task.todo \subseteq Handles(m)

\* The call in the slot: the journal knows no other of its callSequence.
IntentOf(slot) == [seq |-> slot.seq, method |-> slot.method, id |-> slot.id, about |-> slot.about]
SlotInv(m, pending) ==
  m.slot # NoSlot =>
    /\ \A p \in pending : p.seq = m.slot.seq => p = IntentOf(m.slot)
    /\ m.slot.method \in {"cancel", "whole", "single"}
    /\ m.task.kind = "startup" => m.slot.method = "cancel"
    /\ m.slot.method = "cancel" /\ m.task.kind # "startup" =>
         /\ m.task.kind \in {"sync", "unsubscribe"}
         /\ Handle(m.slot.id, m.slot.about) \in Handles(m) \ m.task.todo
    /\ m.slot.method = "single" => \E s \in Symbols : m.slot.about = {s}

LateInv == late.says = "id" => late.id \in 1..nextId - 1
DurableInv == intact => Durable(Base(journal), Told)
HealthyInv ==
  IF healthy
  THEN /\ Reads(memory, Base(journal).known)
       /\ TodoInv(memory)
       /\ SlotInv(memory, Base(journal).pending)
  ELSE memory.slot = NoSlot
JournalInv == TypeInv /\ LateInv /\ DurableInv /\ HealthyInv

LEMMA HandlesOfTried ==
  ASSUME NEW cs \in SUBSET CandidateType, NEW ids
  PROVE  HandlesOf(Tried(cs, ids)) = HandlesOf(cs)
<1>1. ASSUME NEW h \in HandlesOf(Tried(cs, ids)) PROVE h \in HandlesOf(cs)
  <2>1. PICK d \in Tried(cs, ids) : h = Handle(d.id, d.about)
    BY <1>1 DEF HandlesOf
  <2>2. PICK c \in cs : d.id = c.id /\ d.about = c.about
    BY <2>1, TriedTyped
  <2> QED
    BY <2>1, <2>2 DEF HandlesOf
<1>2. ASSUME NEW h \in HandlesOf(cs) PROVE h \in HandlesOf(Tried(cs, ids))
  <2>1. PICK c \in cs : h = Handle(c.id, c.about)
    BY <1>2 DEF HandlesOf
  <2>2. PICK d \in Tried(cs, ids) : d.id = c.id /\ d.about = c.about
    BY <2>1, TriedTyped
  <2> QED
    BY <2>1, <2>2 DEF HandlesOf
<1> QED
  BY <1>1, <1>2

LEMMA HandlesOfWithout ==
  ASSUME NEW cs, NEW id
  PROVE  HandlesOf(WithoutId(cs, id)) = WithoutId(HandlesOf(cs), id)
<1>1. \A c \in cs : Handle(c.id, c.about).id = c.id
  BY DEF Handle
<1> QED
  BY <1>1 DEF HandlesOf, WithoutId

LEMMA HandlesOfIds ==
  ASSUME NEW cs
  PROVE  Ids(HandlesOf(cs)) = Ids(cs) /\ (HandlesOf(cs) = {} <=> cs = {})
<1>1. \A c \in cs : Handle(c.id, c.about).id = c.id
  BY DEF Handle
<1>2. HandlesOf(cs) = {} <=> cs = {}
  BY DEF HandlesOf
<1>3. Ids(HandlesOf(cs)) = Ids(cs)
  BY <1>1 DEF HandlesOf, Ids
<1> QED
  BY <1>2, <1>3

\* The views of what is replayed.
Added(v, id, about) ==
  [whole |-> v.whole, singles |-> v.singles, known |-> WithoutId(v.known, id) \cup {Handle(id, about)}]
Cleared(v, h) ==
  [whole |-> IF h.about = {} /\ v.whole.id = h.id THEN NoWhole ELSE v.whole,
   singles |-> [s \in Symbols |-> IF s \in h.about /\ v.singles[s] = h.id THEN 0 ELSE v.singles[s]],
   known |-> WithoutId(v.known, h.id)]
ViewType == [whole : WholeType, singles : [Symbols -> Nat], known : SUBSET HandleType]

LEMMA ViewTyped ==
  /\ \A m \in KnownType : View(m) \in ViewType
  /\ \A m \in MemoryType : View(m) \in ViewType
<1>1. \A cs \in SUBSET CandidateType : HandlesOf(cs) \in SUBSET HandleType
  BY DEF HandlesOf, Handle, HandleType, CandidateType
<1> QED
  BY <1>1 DEF View, ViewType, KnownType, MemoryType

LEMMA ViewFound ==
  ASSUME NEW m \in KnownType, NEW id \in Nat, NEW about \in SUBSET Symbols
  PROVE  View(Found(m, id, about)) = Added(View(m), id, about)
<1> DEFINE c == Candidate(id, about, FALSE)
           cs == WithoutId(m.candidates, id) \cup {c}
<1>1. c.id = id /\ c.about = about
  BY DEF Candidate
<1>2. HandlesOf(cs) = HandlesOf(WithoutId(m.candidates, id)) \cup {Handle(id, about)}
  BY <1>1 DEF HandlesOf
<1>3. Found(m, id, about) = [m EXCEPT !.candidates = cs]
  BY DEF Found, KnownType
<1> HIDE DEF cs
<1>4. /\ Found(m, id, about).whole = m.whole /\ Found(m, id, about).singles = m.singles
      /\ Found(m, id, about).candidates = cs
  BY <1>3 DEF KnownType
<1> QED
  BY <1>2, <1>4, HandlesOfWithout DEF View, Added

LEMMA ViewUnknown == ASSUME NEW m \in KnownType PROVE View(Unknown(m)) = View(m)
  BY DEF Unknown, View, KnownType

LEMMA ViewAttempt ==
  ASSUME NEW m \in KnownType, NEW id \in Nat, NEW C
  PROVE  View(ReplayedAttempt(m, id, C)) = View(m)
<1> DEFINE cs == Tried(m.candidates, {id})
           there == id \in Ids(m.candidates)
<1>1. HandlesOf(cs) = HandlesOf(m.candidates)
  BY HandlesOfTried DEF KnownType
<1>2. ReplayedAttempt(m, id, C) = IF there THEN [m EXCEPT !.candidates = cs]
                                  ELSE IF id \in C THEN m ELSE Unknown(m)
  BY DEF ReplayedAttempt
<1> HIDE DEF cs, there
<1>3. View([m EXCEPT !.candidates = cs]) = View(m)
  BY <1>1 DEF View, KnownType
<1> QED
  BY <1>2, <1>3, ViewUnknown

\* The candidate the code picks is about what every handle of its id is about.
LEMMA PickedCandidate ==
  ASSUME NEW cs, OneEach(HandlesOf(cs)), NEW h \in HandlesOf(cs)
  PROVE  /\ h.id \in Ids(cs)
         /\ (CHOOSE x \in cs : x.id = h.id).about = h.about
<1> DEFINE c == CHOOSE x \in cs : x.id = h.id
<1>1. PICK d \in cs : h = Handle(d.id, d.about)
  BY DEF HandlesOf
<1>2. d.id = h.id
  BY <1>1 DEF Handle
<1>3. c \in cs /\ c.id = h.id
  BY <1>2
<1> HIDE DEF c
<1>4. Handle(c.id, c.about) \in HandlesOf(cs) /\ Handle(c.id, c.about).id = c.id
  BY <1>3 DEF HandlesOf, Handle
<1>5. Handle(c.id, c.about) = h
  BY <1>3, <1>4 DEF OneEach
<1>6. h.about = c.about
  BY <1>5 DEF Handle
<1> QED
  BY <1>2, <1>6 DEF Ids, c

LEMMA ViewResolved ==
  ASSUME NEW m \in KnownType \cup MemoryType, NEW id \in Nat
  PROVE  /\ id \notin Ids(View(m).known) => Resolved(m, id) = m
         /\ OneEach(View(m).known) =>
              \A h \in View(m).known : h.id = id => View(Resolved(m, id)) = Cleared(View(m), h)
<1>0. /\ View(m).known = HandlesOf(m.candidates) /\ View(m).whole = m.whole /\ View(m).singles = m.singles
  BY DEF View
<1>1. ASSUME id \notin Ids(View(m).known) PROVE Resolved(m, id) = m
  BY <1>0, <1>1, HandlesOfIds DEF Resolved
<1>2. ASSUME OneEach(View(m).known), NEW h \in View(m).known, h.id = id
      PROVE  View(Resolved(m, id)) = Cleared(View(m), h)
  <2> DEFINE c == CHOOSE x \in m.candidates : x.id = id
             w == IF c.about = {} /\ m.whole.id = id THEN NoWhole ELSE m.whole
             ss == [s \in Symbols |-> IF s \in c.about /\ m.singles[s] = id THEN 0 ELSE m.singles[s]]
             r == m.retained \ {Handle(id, c.about)}
             cs == WithoutId(m.candidates, id)
  <2>1. id \in Ids(m.candidates) /\ c.about = h.about
    BY <1>0, <1>2, PickedCandidate
  <2>2. Resolved(m, id) = [m EXCEPT !.candidates = cs, !.whole = w, !.singles = ss, !.retained = r]
    <3>1. CASE m \in KnownType
      BY <2>1, <3>1 DEF Resolved, KnownType
    <3>2. CASE m \in MemoryType
      BY <2>1, <3>2 DEF Resolved, MemoryType
    <3> QED
      BY <3>1, <3>2
  <2> HIDE DEF c
  <2>3. Cleared(View(m), h) = [whole |-> w, singles |-> ss, known |-> WithoutId(HandlesOf(m.candidates), id)]
    BY <1>0, <1>2, <2>1 DEF Cleared
  <2> HIDE DEF w, ss, r, cs
  <2>4. /\ Resolved(m, id).whole = w /\ Resolved(m, id).singles = ss /\ Resolved(m, id).candidates = cs
    <3>1. CASE m \in KnownType
      BY <2>2, <3>1 DEF KnownType
    <3>2. CASE m \in MemoryType
      BY <2>2, <3>2 DEF MemoryType
    <3> QED
      BY <3>1, <3>2
  <2>5. View(Resolved(m, id)) = [whole |-> w, singles |-> ss, known |-> HandlesOf(cs)]
    BY <2>4 DEF View
  <2>6. HandlesOf(cs) = WithoutId(HandlesOf(m.candidates), id)
    BY HandlesOfWithout DEF cs
  <2> QED
    BY <2>3, <2>5, <2>6
<1> QED
  BY <1>1, <1>2

-----------------------------------------------------------------------------
(* What is sound stays so.                                                 *)

LEMMA InHandles ==
  ASSUME NEW m, NEW h
  PROVE  h \in Handles(m) <=> \/ m.whole # NoWhole /\ h = Handle(m.whole.id, {})
                              \/ \E s \in Symbols : m.singles[s] # 0 /\ h = Handle(m.singles[s], {s})
  BY DEF Handles

LEMMA HandleParts == \A id, about : Handle(id, about).id = id /\ Handle(id, about).about = about
  BY DEF Handle

LEMMA SoundCleared ==
  ASSUME NEW v \in ViewType, NEW may, Sound(v, may), NEW h \in v.known
  PROVE  Sound(Cleared(v, h), may)
<1> DEFINE u == Cleared(v, h)
<1>1. /\ u.known = WithoutId(v.known, h.id)
      /\ u.whole = IF h.about = {} /\ v.whole.id = h.id THEN NoWhole ELSE v.whole
      /\ u.singles = [s \in Symbols |-> IF s \in h.about /\ v.singles[s] = h.id THEN 0 ELSE v.singles[s]]
  BY DEF Cleared
<1> HIDE DEF u
<1>2. OneEach(u.known) /\ Ids(u.known) \subseteq may
  BY <1>1 DEF Sound, OneEach, Ids, WithoutId
<1>3. ASSUME NEW k \in Handles(u) PROVE k \in u.known
  <2>1. CASE u.whole # NoWhole /\ k = Handle(u.whole.id, {})
    <3>1. u.whole = v.whole /\ v.whole # NoWhole
      BY <1>1, <2>1
    <3>2. k \in v.known /\ k.id = v.whole.id /\ k.about = {}
      BY <2>1, <3>1, InHandles, HandleParts DEF Sound
    <3>3. k.id # h.id
      BY <1>1, <2>1, <3>1, <3>2 DEF Sound, OneEach
    <3> QED
      BY <1>1, <3>2, <3>3 DEF WithoutId
  <2>2. ASSUME NEW s \in Symbols, u.singles[s] # 0, k = Handle(u.singles[s], {s}) PROVE k \in u.known
    <3>1. u.singles[s] = v.singles[s] /\ v.singles[s] # 0
      BY <1>1, <2>2
    <3>2. k \in v.known /\ k.id = v.singles[s] /\ k.about = {s}
      BY <2>2, <3>1, InHandles, HandleParts DEF Sound
    <3>3. k.id # h.id
      BY <1>1, <2>2, <3>1, <3>2 DEF Sound, OneEach
    <3> QED
      BY <1>1, <3>2, <3>3 DEF WithoutId
  <2> QED
    BY <1>3, <2>1, <2>2, InHandles
<1> QED
  BY <1>2, <1>3 DEF Sound, u

\* A new id, which the registry does not have yet.
Fresh(v, id) == id \notin Ids(Handles(v))

LEMMA SoundAdded ==
  ASSUME NEW v \in ViewType, NEW may, Sound(v, may), NEW id \in may, Fresh(v, id), NEW about
  PROVE  Sound(Added(v, id, about), may)
<1> DEFINE u == Added(v, id, about)
           new == Handle(id, about)
<1>1. u.known = WithoutId(v.known, id) \cup {new} /\ u.whole = v.whole /\ u.singles = v.singles
  BY DEF Added
<1>2. new.id = id
  BY HandleParts
<1>3. Handles(u) = Handles(v)
  BY <1>1 DEF Handles
<1> HIDE DEF u, new
<1>4. OneEach(u.known) /\ Ids(u.known) \subseteq may
  BY <1>1, <1>2 DEF Sound, OneEach, Ids, WithoutId
<1>5. Handles(v) \subseteq u.known
  BY <1>1 DEF Sound, Fresh, Ids, WithoutId
<1> QED
  BY <1>3, <1>4, <1>5 DEF Sound, u

\* The registry takes up a subscription.
Wholly(v, id, symbols) == [whole |-> [id |-> id, symbols |-> symbols], singles |-> v.singles, known |-> v.known]
Singly(v, id, about) ==
  [whole |-> v.whole, singles |-> [s \in Symbols |-> IF s \in about THEN id ELSE v.singles[s]],
   known |-> v.known]

LEMMA SoundWholly ==
  ASSUME NEW v \in ViewType, NEW may, Sound(v, may), NEW id \in may, Fresh(v, id), NEW symbols
  PROVE  Sound(Added(Wholly(v, id, symbols), id, {}), may)
<1> DEFINE u == Added(Wholly(v, id, symbols), id, {})
           new == Handle(id, {})
           w == [id |-> id, symbols |-> symbols]
<1>1. u.known = WithoutId(v.known, id) \cup {new} /\ u.whole = w /\ u.singles = v.singles /\ w.id = id
  BY DEF Added, Wholly
<1>2. new.id = id
  BY HandleParts
<1> HIDE DEF u
<1> HIDE DEF w
<1>3. ASSUME NEW k \in Handles(u) PROVE k = new \/ k \in Handles(v)
  <2>1. \/ k = Handle(u.whole.id, {})
        \/ \E x \in Symbols : u.singles[x] # 0 /\ k = Handle(u.singles[x], {x})
    BY <1>3, InHandles
  <2> QED
    BY <1>1, <2>1, InHandles
<1> HIDE DEF new
<1>4. OneEach(u.known) /\ Ids(u.known) \subseteq may
  BY <1>1, <1>2 DEF Sound, OneEach, Ids, WithoutId
<1>5. Handles(u) \subseteq u.known
  BY <1>1, <1>3 DEF Sound, Fresh, Ids, WithoutId
<1> QED
  BY <1>4, <1>5 DEF Sound, u

LEMMA SoundSingly ==
  ASSUME NEW v \in ViewType, NEW may, Sound(v, may), NEW id \in may, Fresh(v, id), NEW s \in Symbols
  PROVE  Sound(Added(Singly(v, id, {s}), id, {s}), may)
<1> DEFINE u == Added(Singly(v, id, {s}), id, {s})
           new == Handle(id, {s})
<1>1. /\ u.known = WithoutId(v.known, id) \cup {new} /\ u.whole = v.whole
      /\ u.singles = [x \in Symbols |-> IF x \in {s} THEN id ELSE v.singles[x]]
  BY DEF Added, Singly
<1>2. new.id = id
  BY HandleParts
<1> HIDE DEF u
<1>3. ASSUME NEW k \in Handles(u) PROVE k = new \/ k \in Handles(v)
  <2>1. CASE u.whole # NoWhole /\ k = Handle(u.whole.id, {})
    BY <1>1, <2>1, InHandles
  <2>2. ASSUME NEW x \in Symbols, u.singles[x] # 0, k = Handle(u.singles[x], {x})
        PROVE  k = new \/ k \in Handles(v)
    <3>1. u.singles[x] = IF x = s THEN id ELSE v.singles[x]
      BY <1>1
    <3> QED
      BY <2>2, <3>1, InHandles
  <2>3. \/ u.whole # NoWhole /\ k = Handle(u.whole.id, {})
        \/ \E x \in Symbols : u.singles[x] # 0 /\ k = Handle(u.singles[x], {x})
    BY <1>3, InHandles
  <2> QED
    BY <2>1, <2>2, <2>3
<1> HIDE DEF new
<1>4. OneEach(u.known) /\ Ids(u.known) \subseteq may
  BY <1>1, <1>2 DEF Sound, OneEach, Ids, WithoutId
<1>5. Handles(u) \subseteq u.known
  BY <1>1, <1>3 DEF Sound, Fresh, Ids, WithoutId
<1> QED
  BY <1>4, <1>5 DEF Sound, u

\* The candidate of an id is resolved.
Shorn(v, id) ==
  IF id \in Ids(v.known) THEN Cleared(v, CHOOSE h \in v.known : h.id = id) ELSE v

LEMMA ShornIs ==
  ASSUME NEW v, OneEach(v.known), NEW h \in v.known
  PROVE  Shorn(v, h.id) = Cleared(v, h)
<1> DEFINE k == CHOOSE x \in v.known : x.id = h.id
<1>1. k \in v.known /\ k.id = h.id
  OBVIOUS
<1> HIDE DEF k
<1>2. k = h
  BY <1>1 DEF OneEach
<1>3. h.id \in Ids(v.known)
  BY DEF Ids
<1> QED
  BY <1>2, <1>3 DEF Shorn, k

LEMMA ViewShorn ==
  ASSUME NEW m \in KnownType \cup MemoryType, NEW id \in Nat, OneEach(View(m).known)
  PROVE  View(Resolved(m, id)) = Shorn(View(m), id)
<1>1. CASE id \notin Ids(View(m).known)
  BY <1>1, ViewResolved DEF Shorn
<1>2. CASE id \in Ids(View(m).known)
  <2>1. PICK h \in View(m).known : h.id = id
    BY <1>2 DEF Ids
  <2>2. View(Resolved(m, id)) = Cleared(View(m), h)
    BY <2>1, ViewResolved
  <2>3. Shorn(View(m), h.id) = Cleared(View(m), h)
    BY ShornIs
  <2> QED
    BY <2>1, <2>2, <2>3
<1> QED
  BY <1>1, <1>2

LEMMA SoundShorn ==
  ASSUME NEW v \in ViewType, NEW may, Sound(v, may), NEW id
  PROVE  Sound(Shorn(v, id), may) /\ Shorn(Shorn(v, id), id) = Shorn(v, id)
<1>1. CASE id \notin Ids(v.known)
  BY <1>1 DEF Shorn
<1>2. CASE id \in Ids(v.known)
  <2>1. PICK h \in v.known : h.id = id
    BY <1>2 DEF Ids
  <2>2. Shorn(v, id) = Cleared(v, h)
    BY <2>1, ShornIs DEF Sound
  <2>3. Sound(Cleared(v, h), may)
    BY SoundCleared
  <2>4. id \notin Ids(Cleared(v, h).known)
    BY <2>1 DEF Cleared, Ids, WithoutId
  <2> QED
    BY <2>2, <2>3, <2>4 DEF Shorn
<1> QED
  BY <1>1, <1>2

-----------------------------------------------------------------------------
(* What each record says.                                                  *)

Step(s, r) == ReplayedRecord(s, r, {})

LEMMA StepIntent ==
  ASSUME NEW s \in ReplayType, NEW r \in RecordType, r.kind = "native_intent", NEW may, Durable(s, may)
  PROVE  /\ Step(s, r).known = s.known /\ Step(s, r).pending = Intended(s, r)
         /\ Durable(Step(s, r), may)
         /\ \A p \in Step(s, r).pending : p.seq = r.seq => p = Intent(r)
<1>1. Step(s, r) = [s EXCEPT !.pending = Intended(s, r)]
  BY DEF Step, ReplayedRecord, Intended, Intent
<1>2. Step(s, r).known = s.known /\ Step(s, r).pending = Intended(s, r)
  BY <1>1 DEF ReplayType
<1>3. Intent(r).seq = r.seq
  BY DEF Intent
<1>4. Distinct(Intended(s, r)) /\ \A p \in Intended(s, r) : p.seq = r.seq => p = Intent(r)
  BY <1>3 DEF Intended, Distinct, Durable
<1> QED
  BY <1>2, <1>4 DEF Durable

LEMMA BlankDurable ==
  ASSUME NEW may
  PROVE  /\ Durable(Blank, may) /\ Blank.pending = {} /\ Blank.known.candidates = {}
         /\ Blank.known.whole = NoWhole /\ Blank.known.singles = [s \in Symbols |-> 0]
         /\ View(Blank.known).known = {}
<1> DEFINE v == View(Blank.known)
<1>1. /\ Blank.pending = {} /\ Blank.known.candidates = {}
      /\ Blank.known.whole = NoWhole /\ Blank.known.singles = [s \in Symbols |-> 0]
  BY DEF Blank, Forgotten
<1>2. v.whole = NoWhole /\ v.singles = [s \in Symbols |-> 0] /\ v.known = {}
  BY <1>1 DEF View, HandlesOf
<1> HIDE DEF v
<1>3. Handles(v) = {}
  BY <1>2 DEF Handles
<1>4. Sound(v, may)
  BY <1>2, <1>3 DEF Sound, OneEach, Ids
<1> QED
  BY <1>1, <1>2, <1>4 DEF Durable, Distinct, v

LEMMA StepObserved ==
  ASSUME NEW s, NEW r, r.kind = "operator_observation"
  PROVE  Step(s, r) = Blank
  BY DEF Step, ReplayedRecord

LEMMA StepNothing ==
  ASSUME NEW s, NEW r, r.kind = "recovery_result"
  PROVE  Step(s, r) = s
  BY DEF Step, ReplayedRecord

LEMMA StepResolved ==
  ASSUME NEW s \in ReplayType, NEW r \in RecordType, NEW may, Durable(s, may),
         \/ r.kind = "recovery_terminal"
         \/ r.kind = "registry_transition" /\ r.what = "unsubscribed"
  PROVE  /\ View(Step(s, r).known) = Shorn(View(s.known), r.id)
         /\ Step(s, r).pending = s.pending
         /\ Durable(Step(s, r), may)
<1>1. Step(s, r) = [s EXCEPT !.known = Resolved(s.known, r.id)]
  BY DEF Step, ReplayedRecord, ReplayedTransition
<1>2. Step(s, r).known = Resolved(s.known, r.id) /\ Step(s, r).pending = s.pending
  BY <1>1 DEF ReplayType
<1>3. s.known \in KnownType /\ r.id \in Nat
  BY DEF ReplayType, RecordType
<1>4. View(Step(s, r).known) = Shorn(View(s.known), r.id)
  BY <1>2, <1>3, ViewShorn DEF Durable, Sound
<1>5. Sound(Shorn(View(s.known), r.id), may)
  BY <1>3, ViewTyped, SoundShorn DEF Durable
<1> QED
  BY <1>2, <1>4, <1>5 DEF Durable

LEMMA StepAttempt ==
  ASSUME NEW s \in ReplayType, NEW r \in RecordType, NEW may, Durable(s, may), r.kind = "recovery_intent"
  PROVE  /\ View(Step(s, r).known) = View(s.known) /\ Step(s, r).pending = s.pending
         /\ Durable(Step(s, r), may)
<1>1. Step(s, r) = [s EXCEPT !.known = ReplayedAttempt(s.known, r.id, {})]
  BY DEF Step, ReplayedRecord
<1>2. Step(s, r).known = ReplayedAttempt(s.known, r.id, {}) /\ Step(s, r).pending = s.pending
  BY <1>1 DEF ReplayType
<1>3. View(Step(s, r).known) = View(s.known)
  BY <1>2, ViewAttempt DEF ReplayType, RecordType
<1> QED
  BY <1>2, <1>3 DEF Durable

LEMMA StepWhole ==
  ASSUME NEW s \in ReplayType, NEW r \in RecordType, NEW may, Durable(s, may),
         r.kind = "registry_transition", r.what = "whole", r.id \in may, Fresh(View(s.known), r.id)
  PROVE  /\ View(Step(s, r).known) = Added(Wholly(View(s.known), r.id, r.about), r.id, {})
         /\ Step(s, r).pending = s.pending
         /\ Durable(Step(s, r), may)
<1> DEFINE w == [id |-> r.id, symbols |-> r.about]
           k == [s.known EXCEPT !.whole = w]
<1>1. s.known \in KnownType /\ r.id \in Nat /\ r.about \in SUBSET Symbols
  BY DEF ReplayType, RecordType
<1>2. Step(s, r) = [s EXCEPT !.known = Found(k, r.id, {})]
  BY DEF Step, ReplayedRecord, ReplayedTransition
<1>3. w \in WholeType
  BY <1>1 DEF WholeType
<1>4. View(s.known).singles = s.known.singles /\ View(s.known).known = HandlesOf(s.known.candidates)
  BY DEF View
<1> HIDE DEF w
<1>5. /\ k \in KnownType /\ k.whole = w /\ k.singles = s.known.singles /\ k.candidates = s.known.candidates
  BY <1>1, <1>3 DEF KnownType
<1> HIDE DEF k
<1>6. View(k) = Wholly(View(s.known), r.id, r.about)
  BY <1>4, <1>5 DEF View, Wholly, w
<1>7. Step(s, r).known = Found(k, r.id, {}) /\ Step(s, r).pending = s.pending
  BY <1>2 DEF ReplayType
<1>8. View(Step(s, r).known) = Added(Wholly(View(s.known), r.id, r.about), r.id, {})
  BY <1>1, <1>5, <1>6, <1>7, ViewFound
<1>9. Sound(Added(Wholly(View(s.known), r.id, r.about), r.id, {}), may)
  BY <1>1, ViewTyped, SoundWholly DEF Durable
<1> QED
  BY <1>7, <1>8, <1>9 DEF Durable

LEMMA StepSingle ==
  ASSUME NEW s \in ReplayType, NEW r \in RecordType, NEW may, Durable(s, may),
         r.kind = "registry_transition", r.what = "single", r.id \in may, Fresh(View(s.known), r.id),
         NEW x \in Symbols, r.about = {x}
  PROVE  /\ View(Step(s, r).known) = Added(Singly(View(s.known), r.id, {x}), r.id, {x})
         /\ Step(s, r).pending = s.pending
         /\ Durable(Step(s, r), may)
<1> DEFINE ss == [y \in Symbols |-> IF y \in r.about THEN r.id ELSE s.known.singles[y]]
           k == [s.known EXCEPT !.singles = ss]
<1>1. s.known \in KnownType /\ r.id \in Nat /\ r.about \in SUBSET Symbols
  BY DEF ReplayType, RecordType
<1>2. Step(s, r) = [s EXCEPT !.known = Found(k, r.id, r.about)]
  BY <1>1 DEF Step, ReplayedRecord, ReplayedTransition, KnownType
<1>3. ss \in [Symbols -> Nat]
  BY <1>1 DEF KnownType
<1>4. /\ View(s.known).whole = s.known.whole /\ View(s.known).known = HandlesOf(s.known.candidates)
      /\ View(s.known).singles = s.known.singles
  BY DEF View
<1> HIDE DEF ss
<1>5. /\ k \in KnownType /\ k.whole = s.known.whole /\ k.singles = ss /\ k.candidates = s.known.candidates
  BY <1>1, <1>3 DEF KnownType
<1> HIDE DEF k
<1>6. View(k) = Singly(View(s.known), r.id, {x})
  BY <1>4, <1>5 DEF View, Singly, ss
<1>7. Step(s, r).known = Found(k, r.id, {x}) /\ Step(s, r).pending = s.pending
  BY <1>2 DEF ReplayType
<1>8. View(Step(s, r).known) = Added(Singly(View(s.known), r.id, {x}), r.id, {x})
  BY <1>1, <1>5, <1>6, <1>7, ViewFound
<1>9. Sound(Added(Singly(View(s.known), r.id, {x}), r.id, {x}), may)
  BY <1>1, ViewTyped, SoundSingly DEF Durable
<1> QED
  BY <1>7, <1>8, <1>9 DEF Durable

\* The answer to the call in the slot.
OneCall(s, slot) == \A p \in s.pending : p.seq = slot.seq => p = IntentOf(slot)

LEMMA DistinctSubset ==
  ASSUME NEW P, Distinct(P), NEW Q \in SUBSET P
  PROVE  Distinct(Q)
  BY DEF Distinct

LEMMA StepResult ==
  ASSUME NEW s \in ReplayType, NEW r \in RecordType, NEW may, Durable(s, may), r.kind = "native_result",
         NEW slot \in SlotType, r.seq = slot.seq, OneCall(s, slot),
         r.what = "id" => r.id \in may /\ Fresh(View(s.known), r.id)
  PROVE  /\ Step(s, r).pending \in SUBSET s.pending
         /\ Durable(Step(s, r), may)
         /\ View(Step(s, r).known) = View(s.known)
            \/ /\ slot.method = "cancel" /\ r.what = "false"
               /\ View(Step(s, r).known) = Shorn(View(s.known), slot.id)
            \/ /\ slot.method # "cancel" /\ r.what = "id"
               /\ \E about : View(Step(s, r).known) = Added(View(s.known), r.id, about)
<1> DEFINE i == IntentOf(slot)
           k == s.known
<1>0. k \in KnownType /\ r.id \in Nat /\ Sound(View(k), may) /\ Distinct(s.pending) /\ View(k) \in ViewType
  BY ViewTyped DEF ReplayType, RecordType, Durable
<1>1. i.seq = slot.seq /\ i.method = slot.method /\ i.id = slot.id /\ i.about = slot.about
      /\ slot.id \in Nat /\ slot.about \in SUBSET Symbols
  BY DEF IntentOf, SlotType
<1>2. CASE ~\E p \in s.pending : p.seq = r.seq
  <2>1. Step(s, r) = [s EXCEPT !.known = Unknown(k)]
    BY <1>2 DEF Step, ReplayedRecord
  <2>2. Step(s, r).known = Unknown(k) /\ Step(s, r).pending = s.pending
    BY <2>1 DEF ReplayType
  <2>3. View(Step(s, r).known) = View(k)
    BY <1>0, <2>2, ViewUnknown
  <2> QED
    BY <1>0, <2>2, <2>3 DEF Durable
<1>3. CASE \E p \in s.pending : p.seq = r.seq
  <2>1. (CHOOSE p \in s.pending : p.seq = r.seq) = i
    <3> DEFINE q == CHOOSE p \in s.pending : p.seq = r.seq
    <3>1. q \in s.pending /\ q.seq = r.seq
      BY <1>3
    <3> HIDE DEF q
    <3> QED
      BY <3>1 DEF OneCall, q
  <2>2. Step(s, r) = [known |-> ReplayedResult(k, i, r.what, r.id), pending |-> s.pending \ {i}]
    BY <1>3, <2>1 DEF Step, ReplayedRecord
  <2> HIDE DEF i
  <2>3. Step(s, r).known = ReplayedResult(k, i, r.what, r.id) /\ Step(s, r).pending = s.pending \ {i}
    BY <2>2
  <2>4. Distinct(Step(s, r).pending) /\ Step(s, r).pending \in SUBSET s.pending
    BY <1>0, <2>3, DistinctSubset
  <2>5. CASE slot.method = "cancel" /\ r.what = "false"
    <3>1. Step(s, r).known = Resolved(k, slot.id)
      BY <1>1, <2>3, <2>5 DEF ReplayedResult
    <3>2. View(Step(s, r).known) = Shorn(View(k), slot.id)
      BY <1>0, <1>1, <3>1, ViewShorn DEF Sound
    <3>3. Sound(Shorn(View(k), slot.id), may)
      BY <1>0, SoundShorn
    <3> QED
      BY <2>4, <2>5, <3>2, <3>3 DEF Durable
  <2>6. CASE slot.method = "cancel" /\ r.what # "false"
    <3>1. Step(s, r).known = k
      BY <1>1, <2>3, <2>6 DEF ReplayedResult
    <3> QED
      BY <1>0, <2>4, <3>1 DEF Durable
  <2>7. CASE slot.method # "cancel" /\ r.what = "id"
    <3> DEFINE about == IF i.method = "whole" THEN {} ELSE i.about
    <3>1. Step(s, r).known = Found(k, r.id, about)
      BY <1>1, <2>3, <2>7 DEF ReplayedResult
    <3>2. about \in SUBSET Symbols
      BY <1>1
    <3> HIDE DEF about
    <3>3. View(Step(s, r).known) = Added(View(k), r.id, about)
      BY <1>0, <3>1, <3>2, ViewFound
    <3>4. Sound(Added(View(k), r.id, about), may)
      BY <1>0, <2>7, SoundAdded
    <3> QED
      BY <2>4, <2>7, <3>3, <3>4 DEF Durable
  <2>8. CASE slot.method # "cancel" /\ r.what # "id"
    <3>1. Step(s, r).known \in {k, Unknown(k)}
      BY <1>1, <2>3, <2>8 DEF ReplayedResult
    <3>2. View(Step(s, r).known) = View(k)
      BY <1>0, <3>1, ViewUnknown
    <3> QED
      BY <1>0, <2>4, <3>2 DEF Durable
  <2> QED
    BY <2>5, <2>6, <2>7, <2>8
<1> QED
  BY <1>2, <1>3

-----------------------------------------------------------------------------
(* The controller keeps step with what it writes.                          *)

At(c) == Base(journal \o c.records)
Prefixed(c, may) ==
  \A n \in Nat : n <= Len(c.records) => Durable(Base(journal \o SubSeq(c.records, 1, n)), may)

LEMMA AtTyped ==
  ASSUME TypeInv, NEW c, c.records \in Seq(RecordType), NEW may, Prefixed(c, may)
  PROVE  At(c) \in ReplayType /\ Durable(At(c), may)
<1> DEFINE n == Len(c.records)
<1>1. n \in Nat /\ n <= Len(c.records) /\ SubSeq(c.records, 1, n) = c.records
  OBVIOUS
<1> HIDE DEF n
<1>2. Readable(journal \o SubSeq(c.records, 1, n))
  BY <1>1, NumbersTyped, ReadableConcat
<1>3. At(c) \in ReplayType
  BY <1>1, <1>2 DEF At, Readable, Base
<1>4. Durable(At(c), may)
  BY <1>1 DEF Prefixed, At
<1> QED
  BY <1>3, <1>4

LEMMA PrefixedNothing ==
  ASSUME TypeInv, NEW c, c.records = <<>>, NEW may, Durable(Base(journal), may)
  PROVE  Prefixed(c, may) /\ At(c) = Base(journal)
<1>1. journal \o <<>> = journal
  BY NumbersTyped
<1>2. ASSUME NEW n \in Nat, n <= Len(c.records) PROVE SubSeq(c.records, 1, n) = <<>>
  BY <1>2
<1> QED
  BY <1>1, <1>2 DEF Prefixed, At

LEMMA SubSeqAppend ==
  ASSUME NEW T, NEW rs \in Seq(T), NEW r \in T, NEW n \in Nat, n <= Len(rs) + 1
  PROVE  SubSeq(Append(rs, r), 1, n) = IF n = Len(rs) + 1 THEN Append(rs, r) ELSE SubSeq(rs, 1, n)
<1>1. Append(rs, r) \in Seq(T) /\ Len(Append(rs, r)) = Len(rs) + 1 /\ Len(rs) \in Nat
  OBVIOUS
<1>2. CASE n = Len(rs) + 1
  BY <1>1, <1>2
<1>3. CASE n # Len(rs) + 1
  <2>1. n <= Len(rs)
    BY <1>1, <1>3
  <2>2. \A i \in 1..n : Append(rs, r)[i] = rs[i]
    BY <2>1
  <2> QED
    BY <1>1, <1>3, <2>1, <2>2
<1> QED
  BY <1>2, <1>3

LEMMA PrefixedAppend ==
  ASSUME TypeInv, NEW c, c.records \in Seq(RecordType), NEW may, Prefixed(c, may), NEW r \in RecordType,
         Durable(Step(At(c), r), may), NEW d, d.records = Append(c.records, r)
  PROVE  At(d) = Step(At(c), r) /\ Prefixed(d, may) /\ d.records \in Seq(RecordType)
<1> DEFINE rs == c.records
<1>0. journal \in Seq(RecordType) /\ rs \in Seq(RecordType)
  BY NumbersTyped
<1> HIDE DEF rs
<1>1. journal \o Append(rs, r) = Append(journal \o rs, r) /\ journal \o rs \in Seq(RecordType)
      /\ Append(rs, r) \in Seq(RecordType) /\ Len(Append(rs, r)) = Len(rs) + 1
  BY <1>0
<1>2. Base(journal \o Append(rs, r)) = Step(Base(journal \o rs), r)
  BY <1>1, AfterAppend DEF Base, Step
<1>3. At(d) = Step(At(c), r)
  BY <1>2 DEF At, rs
<1>4. ASSUME NEW n \in Nat, n <= Len(d.records)
      PROVE  Durable(Base(journal \o SubSeq(d.records, 1, n)), may)
  <2>1. n <= Len(rs) + 1 /\ Len(rs) \in Nat
    BY <1>0, <1>1, <1>4 DEF rs
  <2>2. CASE n = Len(rs) + 1
    <3>1. SubSeq(d.records, 1, n) = d.records
      BY <1>0, <2>1, <2>2, SubSeqAppend DEF rs
    <3> QED
      BY <1>3, <3>1 DEF At
  <2>3. CASE n # Len(rs) + 1
    <3>1. SubSeq(d.records, 1, n) = SubSeq(c.records, 1, n) /\ n <= Len(c.records)
      BY <1>0, <2>1, <2>3, SubSeqAppend DEF rs
    <3> QED
      BY <3>1 DEF Prefixed
  <2> QED
    BY <2>2, <2>3
<1> QED
  BY <1>1, <1>3, <1>4 DEF Prefixed, rs

\* Courses that keep the controller and the journal together.
KeepsUp(c, may) ==
  /\ Idle(c) /\ Prefixed(c, may)
  /\ Reads(c.memory, At(c).known) /\ TodoInv(c.memory)
Lands(c, may) ==
  /\ Follows(c) /\ Prefixed(c, may)
  /\ Reads(c.memory, At(c).known) /\ TodoInv(c.memory) /\ SlotInv(c.memory, At(c).pending)

\* What the registry reads back to depends on the fields that follow.
LEMMA ReadsAlike ==
  ASSUME NEW m, NEW n, NEW k, NEW l, Reads(m, k), View(k) = View(l),
         n.whole = m.whole, n.singles = m.singles, n.required = m.required,
         View(n) = View(m), (Recovering(n) => Recovering(m)), n.task.kind \in {"none", m.task.kind}
  PROVE  Reads(n, l)
<1>1. k.whole = l.whole /\ k.singles = l.singles
  BY DEF View
<1>2. m.candidates = {} => n.candidates = {}
  <2>1. HandlesOf(n.candidates) = HandlesOf(m.candidates)
    BY DEF View
  <2> QED
    BY <2>1, HandlesOfIds
<1> QED
  BY <1>1, <1>2 DEF Reads

LEMMA CallingLands ==
  ASSUME TypeInv, NEW c, NEW may, KeepsUp(c, may),
         NEW method \in {"cancel", "whole", "single"}, NEW id \in Nat, NEW about \in SUBSET Symbols,
         c.memory.task.kind = "startup" => method = "cancel",
         method = "cancel" /\ c.memory.task.kind # "startup" =>
           /\ c.memory.task.kind \in {"sync", "unsubscribe"}
           /\ Handle(id, about) \in Handles(c.memory) \ c.memory.task.todo,
         method = "single" => \E s \in Symbols : about = {s}
  PROVE  Lands(Calling(c, method, id, about), may)
<1> DEFINE d == Calling(c, method, id, about)
           seq == c.memory.seq + 1
           slot == NewSlot(seq, method, id, about)
           r == Record("native_intent", seq, method, id, about)
<1>0. /\ c.memory \in MemoryType /\ c.memory.seq \in Nat /\ memory \in MemoryType
      /\ c.records \in Seq(RecordType) /\ Prefixed(c, may)
  BY NumbersTyped DEF KeepsUp, Idle, TypedCourse, MemoryType
<1>1. method \in Methods
  BY DEF Methods
<1>2. Follows(d)
  BY <1>0, <1>1, CallingFollows DEF KeepsUp
<1>3. d.memory = [c.memory EXCEPT !.seq = seq, !.slot = slot] /\ d.records = Append(c.records, r)
  BY DEF Calling, Course, NewSlot
<1>4. /\ r \in RecordType /\ r.kind = "native_intent" /\ r.seq = seq
      /\ Intent(r) = IntentOf(slot) /\ slot.seq = seq /\ slot.method = method /\ slot.id = id /\ slot.about = about
  BY <1>0 DEF RecordType, Record, Kinds, Whats, Methods, NewSlot, Intent, IntentOf
<1> HIDE DEF d, slot, r, seq
<1>5. /\ d.memory.whole = c.memory.whole /\ d.memory.singles = c.memory.singles
      /\ d.memory.required = c.memory.required /\ d.memory.candidates = c.memory.candidates
      /\ d.memory.task = c.memory.task /\ d.memory.phase = c.memory.phase /\ d.memory.slot = slot
  BY <1>0, <1>3 DEF MemoryType
<1>6. At(c) \in ReplayType /\ Durable(At(c), may)
  BY <1>0, AtTyped
<1>7. /\ Step(At(c), r).known = At(c).known /\ Durable(Step(At(c), r), may)
      /\ \A p \in Step(At(c), r).pending : p.seq = r.seq => p = Intent(r)
  BY <1>4, <1>6, StepIntent
<1>8. At(d) = Step(At(c), r) /\ Prefixed(d, may)
  BY <1>0, <1>3, <1>4, <1>7, PrefixedAppend
<1>9. Handles(d.memory) = Handles(c.memory) /\ View(d.memory) = View(c.memory)
  BY <1>5 DEF Handles, View
<1>10. Reads(d.memory, At(d).known)
  BY <1>5, <1>7, <1>8, <1>9, ReadsAlike DEF KeepsUp, Recovering
<1>11. TodoInv(d.memory)
  BY <1>5, <1>9 DEF KeepsUp, TodoInv
<1>12. SlotInv(d.memory, At(d).pending)
  BY <1>4, <1>5, <1>7, <1>8, <1>9 DEF SlotInv
<1> QED
  BY <1>2, <1>8, <1>10, <1>11, <1>12 DEF Lands, d

LEMMA EndedLands ==
  ASSUME TypeInv, NEW c, NEW may, KeepsUp(c, may), c.memory.task.kind # "startup"
  PROVE  Lands(Course(Ended(c.memory), c.records), may)
<1> DEFINE d == Course(Ended(c.memory), c.records)
<1>0. c.memory \in MemoryType /\ memory \in MemoryType
  BY NumbersTyped DEF KeepsUp, Idle, TypedCourse
<1>1. Follows(d)
  BY <1>0, EndedFollows DEF KeepsUp
<1>2. d.memory = Ended(c.memory) /\ d.records = c.records
  BY DEF Course
<1> HIDE DEF d
<1>3. At(d) = At(c) /\ Prefixed(d, may)
  BY <1>2 DEF At, Prefixed, KeepsUp
<1>7. /\ d.memory.whole = c.memory.whole /\ d.memory.singles = c.memory.singles
      /\ d.memory.required = c.memory.required /\ d.memory.phase = c.memory.phase
      /\ d.memory.candidates = c.memory.candidates
      /\ d.memory.task = NoTask /\ d.memory.slot = NoSlot
  <2>1. Ended(c.memory).whole = c.memory.whole /\ Ended(c.memory).singles = c.memory.singles
        /\ Ended(c.memory).required = c.memory.required /\ Ended(c.memory).phase = c.memory.phase
    BY <1>0, EndedTyped
  <2>2. Ended(c.memory).candidates = c.memory.candidates
        /\ Ended(c.memory).task = NoTask /\ Ended(c.memory).slot = NoSlot
    BY <1>0, EndedTyped
  <2> QED
    BY <1>2, <2>1, <2>2
<1>4. View(d.memory) = View(c.memory)
  BY <1>7 DEF View
<1>5. Reads(d.memory, At(d).known)
  <2>1. /\ d.memory.whole = c.memory.whole /\ d.memory.singles = c.memory.singles
        /\ d.memory.required = c.memory.required /\ d.memory.phase = c.memory.phase
        /\ d.memory.task.kind = "none"
    BY <1>7, ConstantsTyped
  <2>2. Reads(c.memory, At(c).known)
    BY DEF KeepsUp
  <2>3. Recovering(d.memory) => Recovering(c.memory)
    BY <2>1 DEF Recovering
  <2> QED
    BY <1>3, <1>4, <2>1, <2>2, <2>3, ReadsAlike
<1>6. TodoInv(d.memory) /\ SlotInv(d.memory, At(d).pending)
  BY <1>7, ConstantsTyped DEF TodoInv, SlotInv
<1> QED
  BY <1>1, <1>3, <1>5, <1>6 DEF Lands, d

LEMMA HandleAgain ==
  ASSUME NEW h \in HandleType
  PROVE  Handle(h.id, h.about) = h
  BY DEF Handle, HandleType

LEMMA NextOfRequestLands ==
  ASSUME TypeInv, NEW c, NEW may, KeepsUp(c, may), c.memory.task.kind \in {"sync", "unsubscribe"},
         NEW d \in NextOfRequest(c)
  PROVE  Lands(d, may)
<1> DEFINE t == c.memory.task
<1>0. c.memory \in MemoryType /\ t \in TaskType /\ c.records \in Seq(RecordType)
  BY DEF KeepsUp, Idle, TypedCourse, MemoryType
<1>1. CASE t.todo # {}
  <2>1. PICK h \in First(t.todo) :
          d = Calling(Course([c.memory EXCEPT !.task.todo = @ \ {h}], c.records), "cancel", h.id, h.about)
    BY <1>1 DEF NextOfRequest
  <2>2. h \in HandleType /\ h \in t.todo
    BY <1>0, FirstOf DEF TaskType
  <2> DEFINE u == [t EXCEPT !.todo = t.todo \ {h}]
             e == Course([c.memory EXCEPT !.task = u], c.records)
  <2>3. u \in TaskType /\ u.kind = t.kind /\ u.todo = t.todo \ {h}
    BY <1>0 DEF TaskType
  <2>4. [c.memory EXCEPT !.task.todo = @ \ {h}] = [c.memory EXCEPT !.task = u]
    BY <1>0 DEF MemoryType, TaskType
  <2> HIDE DEF u
  <2>5. /\ e.memory \in MemoryType /\ e.memory.task = u /\ e.memory.slot = c.memory.slot
        /\ e.memory.seq = c.memory.seq /\ e.memory.phase = c.memory.phase
        /\ e.memory.whole = c.memory.whole /\ e.memory.singles = c.memory.singles
        /\ e.memory.required = c.memory.required /\ e.memory.candidates = c.memory.candidates
        /\ e.records = c.records
    BY <1>0, <2>3 DEF MemoryType, Course
  <2>6. d = Calling(e, "cancel", h.id, h.about)
    BY <2>1, <2>4
  <2> HIDE DEF e
  <2>7. Idle(e)
    BY <2>3, <2>5 DEF KeepsUp, Idle, TypedCourse
  <2>8. At(e) = At(c) /\ Prefixed(e, may)
    BY <2>5 DEF At, Prefixed, KeepsUp
  <2>9. View(e.memory) = View(c.memory) /\ Handles(e.memory) = Handles(c.memory)
    BY <2>5 DEF View, Handles
  <2>10. Reads(e.memory, At(e).known)
    BY <2>3, <2>5, <2>8, <2>9, ReadsAlike DEF KeepsUp, Recovering
  <2>11. TodoInv(e.memory)
    BY <2>3, <2>5, <2>9 DEF KeepsUp, TodoInv
  <2>12. KeepsUp(e, may)
    BY <2>7, <2>8, <2>10, <2>11 DEF KeepsUp
  <2>13. Handle(h.id, h.about) \in Handles(e.memory) \ e.memory.task.todo
    BY <2>2, <2>3, <2>5, <2>9, HandleAgain DEF KeepsUp, TodoInv
  <2>14. h.id \in Nat /\ h.about \in SUBSET Symbols
    BY <2>2 DEF HandleType
  <2> QED
    BY <2>3, <2>5, <2>6, <2>12, <2>13, <2>14, CallingLands
<1>2. CASE t.todo = {} /\ (t.failed \/ t.desired = {})
  <2>1. d = Course(Ended(c.memory), c.records)
    BY <1>2 DEF NextOfRequest
  <2> QED
    BY <2>1, EndedLands
<1>3. CASE t.todo = {} /\ ~(t.failed \/ t.desired = {})
  <2>1. d = Calling(c, "whole", 0, t.desired)
    BY <1>3 DEF NextOfRequest
  <2>2. t.desired \in SUBSET Symbols
    BY <1>0 DEF TaskType
  <2> QED
    BY <2>1, <2>2, CallingLands
<1> QED
  BY <1>1, <1>2, <1>3

LEMMA ObservedLands ==
  ASSUME TypeInv, NEW c, Idle(c), NEW may, Prefixed(c, may), NEW m \in MemoryType, m.slot = NoSlot,
         NEW d, d.memory = Unlocked(m), d.records = Append(c.records, Observation)
  PROVE  Prefixed(d, may) /\ At(d) = Blank /\ Reads(d.memory, At(d).known)
<1>1. c.records \in Seq(RecordType)
  BY DEF Idle, TypedCourse
<1>2. Step(At(c), Observation) = Blank
  BY StepObserved, RecordsTyped
<1>3. At(d) = Blank /\ Prefixed(d, may)
  BY <1>1, <1>2, RecordsTyped, BlankDurable, PrefixedAppend
<1>4. /\ d.memory.whole = NoWhole /\ d.memory.singles = [s \in Symbols |-> 0]
      /\ d.memory.candidates = {} /\ ~d.memory.required
  BY UnlockedTyped
<1>5. View(d.memory) = View(Blank.known)
  BY <1>4, BlankDurable DEF View
<1> QED
  BY <1>3, <1>4, <1>5, BlankDurable DEF Reads

LEMMA RecoveredLands ==
  ASSUME TypeInv, NEW c, NEW may, KeepsUp(c, may), c.memory.task.kind = "startup"
  PROVE  Lands(Recovered(c), may)
<1> DEFINE b == c.memory.candidates # {} \/ c.memory.unknown # 0
           m == [Ended(c.memory) EXCEPT !.required = b]
           d == Recovered(c)
<1>0. c.memory \in MemoryType /\ memory \in MemoryType /\ Idle(c)
  BY NumbersTyped DEF KeepsUp, Idle, TypedCourse
<1>1. Follows(d)
  BY <1>0, RecoveredFollows
<1>2. View(c.memory) = View(At(c).known)
  BY DEF KeepsUp, Reads, Recovering
<1>3. ASSUME NEW p \in Phases \ {"not_started"}, d = Course(Over(c.memory, p), c.records)
      PROVE  Lands(d, may)
  <2> DEFINE n == Over(c.memory, p)
  <2>1. d.memory = n /\ d.records = c.records
    BY <1>3 DEF Course
  <2>2. /\ n.whole = c.memory.whole /\ n.singles = c.memory.singles /\ n.candidates = c.memory.candidates
        /\ n.slot = NoSlot /\ n.task = NoTask /\ n.phase = p
        /\ n.required <=> c.memory.candidates # {} \/ c.memory.unknown # 0
    BY <1>0, OverTyped
  <2> HIDE DEF d, n
  <2>3. At(d) = At(c) /\ Prefixed(d, may)
    BY <2>1 DEF At, Prefixed, KeepsUp
  <2>4. View(n) = View(c.memory)
    BY <2>2 DEF View
  <2>5. n.whole = At(c).known.whole /\ n.singles = At(c).known.singles
    BY <2>2 DEF KeepsUp, Reads
  <2>6. Reads(n, At(c).known)
    BY <1>2, <2>2, <2>4, <2>5, ConstantsTyped DEF Reads
  <2>7. TodoInv(n) /\ SlotInv(n, At(c).pending)
    BY <2>2, ConstantsTyped DEF TodoInv, SlotInv
  <2> QED
    BY <1>1, <2>1, <2>3, <2>6, <2>7 DEF Lands, d
<1>4. "completed" \in Phases \ {"not_started"} /\ "degraded" \in Phases \ {"not_started"}
  BY DEF Phases
<1>5. ASSUME d = Course(Unlocked(m), Append(c.records, Observation)) PROVE Lands(d, may)
  <2>1. b \in BOOLEAN
    OBVIOUS
  <2> HIDE DEF b
  <2>2. m \in MemoryType /\ m.slot = NoSlot /\ m.task = NoTask
    BY <1>0, <2>1, EndedTyped DEF MemoryType
  <2> HIDE DEF m
  <2>3. d.memory = Unlocked(m) /\ d.records = Append(c.records, Observation)
    BY <1>5 DEF Course
  <2> HIDE DEF d
  <2>4. Prefixed(d, may) /\ At(d) = Blank /\ Reads(d.memory, At(d).known)
    BY <1>0, <2>2, <2>3, ObservedLands DEF KeepsUp
  <2>5. d.memory.slot = NoSlot /\ d.memory.task = NoTask
    BY <2>2, <2>3, UnlockedTyped
  <2>6. TodoInv(d.memory) /\ SlotInv(d.memory, At(d).pending)
    BY <2>5, ConstantsTyped DEF TodoInv, SlotInv
  <2> QED
    BY <1>1, <2>4, <2>6 DEF Lands, d
<1> HIDE DEF b, d
<1> QED
  BY <1>0, <1>3, <1>4, <1>5, RecoveredIs DEF d, b

LEMMA NextCleanupLands ==
  ASSUME TypeInv, NEW c, NEW may, KeepsUp(c, may), c.memory.task.kind = "startup", NEW d \in NextCleanup(c)
  PROVE  Lands(d, may)
<1> DEFINE t == c.memory.task
<1>0. c.memory \in MemoryType /\ t \in TaskType /\ c.records \in Seq(RecordType) /\ Prefixed(c, may)
  BY DEF KeepsUp, Idle, TypedCourse, MemoryType
<1>1. CASE t.todo = {}
  BY <1>1, RecoveredLands DEF NextCleanup
<1>2. CASE t.todo # {}
  <2>1. PICK h \in First(t.todo) :
          d = Calling(Course([c.memory EXCEPT !.task.todo = @ \ {h}, !.candidates = Tried(@, {h.id})],
                             Append(c.records, Record("recovery_intent", 0, "none", h.id, h.about))),
                      "cancel", h.id, h.about)
    BY <1>2 DEF NextCleanup
  <2>2. h \in HandleType
    BY <1>0, FirstOf DEF TaskType
  <2>3. h.id \in Nat /\ h.about \in SUBSET Symbols
    BY <2>2 DEF HandleType
  <2> DEFINE u == [t EXCEPT !.todo = t.todo \ {h}]
             cs == Tried(c.memory.candidates, {h.id})
             m == [c.memory EXCEPT !.task = u, !.candidates = cs]
             r == Record("recovery_intent", 0, "none", h.id, h.about)
             e == Course(m, Append(c.records, r))
  <2>4. u \in TaskType /\ u.kind = t.kind
    BY <1>0 DEF TaskType
  <2>5. cs \in SUBSET CandidateType /\ HandlesOf(cs) = HandlesOf(c.memory.candidates)
    BY <1>0, TriedTyped, HandlesOfTried DEF MemoryType
  <2>6. [c.memory EXCEPT !.task.todo = @ \ {h}, !.candidates = Tried(@, {h.id})] = m
    BY <1>0 DEF MemoryType, TaskType
  <2>7. r \in RecordType /\ r.kind = "recovery_intent"
    BY <2>3 DEF Record, RecordType, Kinds, Whats, Methods
  <2> HIDE DEF u, cs, r
  <2>8. m \in MemoryType /\ m.slot = c.memory.slot /\ m.seq = c.memory.seq /\ m.task = u
        /\ m.phase = c.memory.phase /\ m.whole = c.memory.whole /\ m.singles = c.memory.singles
        /\ m.required = c.memory.required /\ m.candidates = cs
    BY <1>0, <2>4, <2>5 DEF MemoryType
  <2> HIDE DEF m
  <2>9. e.memory = m /\ e.records = Append(c.records, r)
    BY DEF Course
  <2>10. d = Calling(e, "cancel", h.id, h.about)
    BY <2>1, <2>6 DEF r
  <2>11. Idle(e)
    BY <1>0, <2>4, <2>7, <2>8, <2>9, AppendTyped DEF KeepsUp, Idle, TypedCourse
  <2> HIDE DEF e
  <2>12. At(c) \in ReplayType /\ Durable(At(c), may)
    BY <1>0, AtTyped
  <2>13. View(Step(At(c), r).known) = View(At(c).known) /\ Durable(Step(At(c), r), may)
    BY <2>7, <2>12, StepAttempt
  <2>14. At(e) = Step(At(c), r) /\ Prefixed(e, may)
    BY <1>0, <2>7, <2>9, <2>13, PrefixedAppend
  <2>15. View(e.memory) = View(c.memory)
    BY <2>5, <2>8, <2>9 DEF View
  <2>16. Reads(e.memory, At(e).known)
    <3>1. Recovering(e.memory) => Recovering(c.memory)
      BY DEF Recovering
    <3>2. /\ e.memory.whole = c.memory.whole /\ e.memory.singles = c.memory.singles
          /\ e.memory.required = c.memory.required /\ e.memory.task.kind = t.kind
      BY <2>4, <2>8, <2>9
    <3>3. View(At(c).known) = View(At(e).known)
      BY <2>13, <2>14
    <3> QED
      BY <2>15, <3>1, <3>2, <3>3, ReadsAlike DEF KeepsUp
  <2>17. TodoInv(e.memory) /\ e.memory.task.kind = "startup"
    BY <2>4, <2>8, <2>9 DEF TodoInv
  <2>18. KeepsUp(e, may)
    BY <2>11, <2>14, <2>16, <2>17 DEF KeepsUp
  <2> QED
    BY <2>3, <2>10, <2>17, <2>18, CallingLands
<1> QED
  BY <1>1, <1>2

-----------------------------------------------------------------------------
(* The reply to a call, and its absence, in step with the journal.         *)

\* The journal takes records, and the controller is in step with it.
InStep(may) ==
  /\ TypeInv
  /\ Durable(Base(journal), may)
  /\ Reads(memory, Base(journal).known) /\ TodoInv(memory) /\ SlotInv(memory, Base(journal).pending)

LEMMA BaseTyped == ASSUME TypeInv PROVE Base(journal) \in ReplayType
  BY DEF TypeInv, Readable, Base

\* A reply with a new id.
Acceptable(says, id, may) == says = "id" => id \in may /\ Fresh(View(Base(journal).known), id)

\* The records of a course after the first.
LEMMA Spliced ==
  ASSUME NEW r, NEW s, NEW t, NEW u
  PROVE  /\ <<>> \o <<r>> = <<r>> /\ Append(<<>>, r) = <<r>> /\ <<r>> \o <<s>> = Append(<<r>>, s)
         /\ <<s, t, u>> = Append(Append(<<s>>, t), u)
         /\ <<r>> \o <<s, t, u>> = Append(Append(Append(<<r>>, s), t), u)
  OBVIOUS

ResultOf(slot, says, id) == Record("native_result", slot.seq, says, id, {})

\* After the result of a call is written, the controller reads the same, or the
\* handle it has to cancel is gone, or a new one is there.
LEMMA ResultKept ==
  ASSUME NEW may, InStep(may), memory.slot # NoSlot, NEW says \in Says, NEW id \in Nat,
         Acceptable(says, id, may), NEW c, c.records = <<ResultOf(memory.slot, says, id)>>
  PROVE  /\ c.records \in Seq(RecordType) /\ Prefixed(c, may)
         /\ At(c) \in ReplayType /\ Durable(At(c), may)
         /\ c.records[1].kind = "native_result"
         /\ \/ View(At(c).known) = View(Base(journal).known)
            \/ /\ memory.slot.method = "cancel" /\ says = "false"
               /\ View(At(c).known) = Shorn(View(Base(journal).known), memory.slot.id)
            \/ /\ memory.slot.method # "cancel" /\ says = "id"
               /\ \E about : View(At(c).known) = Added(View(Base(journal).known), id, about)
<1> DEFINE r == ResultOf(memory.slot, says, id)
           e == Course(memory, <<>>)
<1>0. memory.slot \in SlotType /\ TypeInv
  BY NumbersTyped DEF InStep
<1>1. r \in RecordType /\ r.kind = "native_result" /\ r.seq = memory.slot.seq /\ r.what = says /\ r.id = id
  BY <1>0 DEF ResultOf, Record, RecordType, Kinds, Whats, SlotType
<1> HIDE DEF r
<1>2. e.records = <<>> /\ e.records \in Seq(RecordType)
  BY DEF Course
<1> HIDE DEF e
<1>3. Prefixed(e, may) /\ At(e) = Base(journal)
  BY <1>0, <1>2, PrefixedNothing DEF InStep
<1>4. OneCall(Base(journal), memory.slot)
  BY DEF InStep, SlotInv, OneCall
<1>5. Base(journal) \in ReplayType /\ Durable(Base(journal), may)
  BY <1>0, BaseTyped DEF InStep
<1> DEFINE t == Step(Base(journal), r)
<1>6. /\ Durable(t, may)
      /\ View(t.known) = View(Base(journal).known)
         \/ /\ memory.slot.method = "cancel" /\ says = "false"
            /\ View(t.known) = Shorn(View(Base(journal).known), memory.slot.id)
         \/ /\ memory.slot.method # "cancel" /\ says = "id"
            /\ \E about : View(t.known) = Added(View(Base(journal).known), id, about)
  BY <1>0, <1>1, <1>4, <1>5, StepResult DEF Acceptable
<1>7. c.records = Append(e.records, r)
  BY <1>2 DEF r
<1>8. At(c) = t /\ Prefixed(c, may) /\ c.records \in Seq(RecordType)
  BY <1>0, <1>1, <1>2, <1>3, <1>6, <1>7, PrefixedAppend
<1>9. At(c) \in ReplayType
  BY <1>0, <1>8, AtTyped
<1>10. c.records[1] = r
  BY DEF r
<1> HIDE DEF t
<1> QED
  BY <1>1, <1>6, <1>8, <1>9, <1>10

LEMMA InStepRecovery ==
  ASSUME NEW may, InStep(may), memory.slot # NoSlot, memory.task.kind = "startup"
  PROVE  /\ View(memory) = View(Base(journal).known) /\ memory.slot.method = "cancel"
         /\ memory \in MemoryType /\ TypeInv /\ memory.phase # "not_started"
  BY BusyStarted DEF InStep, Reads, Recovering, SlotInv

\* A candidate is resolved in the controller.
LEMMA MemoryShorn ==
  ASSUME NEW m \in MemoryType, NEW id \in Nat, OneEach(View(m).known), ~m.required => m.candidates = {}
  PROVE  /\ View(Resolved(m, id)) = Shorn(View(m), id)
         /\ ~m.required => Resolved(m, id).candidates = {}
<1>1. ~m.required => Resolved(m, id) = m
  BY DEF Resolved, Ids
<1> QED
  BY <1>1, ViewShorn

Note(slot, kind, what) == Record(kind, 0, what, slot.id, slot.about)

LEMMA CleanedIs ==
  ASSUME NEW m, NEW slot, NEW confirmed
  PROVE  /\ confirmed => Cleaned(m, slot, confirmed) =
              Course(Resolved(m, slot.id), <<Note(slot, "recovery_result", "confirmed"),
                                             Note(slot, "registry_transition", "unsubscribed"),
                                             Note(slot, "recovery_terminal", "confirmed")>>)
         /\ ~confirmed => Cleaned(m, slot, confirmed) = Course(m, <<Note(slot, "recovery_result", "unconfirmed")>>)
  BY DEF Cleaned, Note

LEMMA NotesTyped ==
  ASSUME NEW slot \in SlotType
  PROVE  \A kind \in Kinds, what \in {"confirmed", "unconfirmed", "unsubscribed"} :
           /\ Note(slot, kind, what) \in RecordType
           /\ Note(slot, kind, what).kind = kind /\ Note(slot, kind, what).what = what
           /\ Note(slot, kind, what).id = slot.id
  BY DEF Note, Record, RecordType, Whats, SlotType

\* What the recovery writes once the terminal has confirmed a cancel.
LEMMA ConfirmedKept ==
  ASSUME TypeInv, NEW may, NEW slot \in SlotType,
         NEW c, c.records \in Seq(RecordType), Prefixed(c, may),
         NEW d, d.records = Append(Append(Append(c.records, Note(slot, "recovery_result", "confirmed")),
                                          Note(slot, "registry_transition", "unsubscribed")),
                                   Note(slot, "recovery_terminal", "confirmed"))
  PROVE  Prefixed(d, may) /\ View(At(d).known) = Shorn(View(At(c).known), slot.id)
<1> DEFINE r1 == Note(slot, "recovery_result", "confirmed")
           r2 == Note(slot, "registry_transition", "unsubscribed")
           r3 == Note(slot, "recovery_terminal", "confirmed")
           c1 == Course(memory, Append(c.records, r1))
           c2 == Course(memory, Append(c1.records, r2))
<1>1. r1 \in RecordType /\ r1.kind = "recovery_result"
  BY NotesTyped DEF Kinds
<1>2. r2 \in RecordType /\ r2.kind = "registry_transition" /\ r2.what = "unsubscribed" /\ r2.id = slot.id
  BY NotesTyped DEF Kinds
<1>3. r3 \in RecordType /\ r3.kind = "recovery_terminal" /\ r3.id = slot.id
  BY NotesTyped DEF Kinds
<1> HIDE DEF r1, r2, r3
<1>4. c1.records = Append(c.records, r1) /\ c2.records = Append(c1.records, r2)
      /\ d.records = Append(c2.records, r3)
  BY DEF Course, r1, r2, r3
<1> HIDE DEF c1, c2
<1>5. At(c) \in ReplayType /\ Durable(At(c), may)
  BY AtTyped
<1>6. At(c1) = At(c) /\ Prefixed(c1, may) /\ c1.records \in Seq(RecordType)
  <2>1. Step(At(c), r1) = At(c)
    BY <1>1, StepNothing
  <2> QED
    BY <1>1, <1>4, <1>5, <2>1, PrefixedAppend
<1>7. /\ At(c2) = Step(At(c1), r2) /\ Prefixed(c2, may) /\ c2.records \in Seq(RecordType)
      /\ View(At(c2).known) = Shorn(View(At(c).known), slot.id)
  <2>1. View(Step(At(c1), r2).known) = Shorn(View(At(c1).known), r2.id) /\ Durable(Step(At(c1), r2), may)
    BY <1>2, <1>5, <1>6, StepResolved
  <2> QED
    BY <1>2, <1>4, <1>6, <2>1, PrefixedAppend
<1>8. At(c2) \in ReplayType /\ Durable(At(c2), may)
  BY <1>7, AtTyped
<1>9. /\ At(d) = Step(At(c2), r3) /\ Prefixed(d, may)
      /\ View(At(d).known) = Shorn(View(At(c2).known), slot.id)
  <2>1. View(Step(At(c2), r3).known) = Shorn(View(At(c2).known), r3.id) /\ Durable(Step(At(c2), r3), may)
    BY <1>3, <1>8, StepResolved
  <2> QED
    BY <1>3, <1>4, <1>7, <2>1, PrefixedAppend
<1>10. View(At(c).known) \in ViewType /\ Sound(View(At(c).known), may)
  BY <1>5, ViewTyped DEF ReplayType, Durable
<1> QED
  BY <1>7, <1>9, <1>10, SoundShorn

LEMMA ReadsViewed ==
  ASSUME NEW n, NEW k, View(n) = View(k), n.task.kind \in {"none", "startup"},
         ~n.required => n.candidates = {}
  PROVE  Reads(n, k)
<1>1. n.whole = k.whole /\ n.singles = k.singles
  BY DEF View
<1> QED
  BY <1>1 DEF Reads

LEMMA FreedView ==
  ASSUME NEW m \in MemoryType
  PROVE  View(Freed(m)) = View(m) /\ Handles(Freed(m)) = Handles(m)
<1>1. /\ Freed(m).whole = m.whole /\ Freed(m).singles = m.singles
      /\ Freed(m).candidates = m.candidates
  BY FreedTyped
<1> QED
  BY <1>1 DEF View, Handles

LEMMA CleanedKeepsUp ==
  ASSUME NEW may, InStep(may), memory.slot # NoSlot, memory.task.kind = "startup",
         NEW says \in Says, NEW id \in Nat, Acceptable(says, id, may),
         NEW c, c = Cleaned(Freed(memory), memory.slot, Confirms(says)),
         NEW d, d = Course(c.memory, <<ResultOf(memory.slot, says, id)>> \o c.records)
  PROVE  KeepsUp(d, may) /\ d.memory.task.kind = "startup"
<1> DEFINE slot == memory.slot
           r == ResultOf(slot, says, id)
           e == Course(memory, <<r>>)
           m == Freed(memory)
           v == View(Base(journal).known)
<1>0. /\ View(memory) = v /\ slot.method = "cancel" /\ memory \in MemoryType /\ TypeInv
      /\ memory.phase # "not_started" /\ slot \in SlotType /\ slot.id \in Nat
      /\ v \in ViewType /\ Sound(v, may) /\ (~memory.required => memory.candidates = {})
  BY InStepRecovery, BaseTyped, ViewTyped DEF MemoryType, SlotType, InStep, Durable, ReplayType, Reads
<1>1. e.records = <<r>>
  BY DEF Course
<1> HIDE DEF e
<1>2. /\ e.records \in Seq(RecordType) /\ Prefixed(e, may) /\ e.records[1].kind = "native_result"
      /\ View(At(e).known) = v \/ (says = "false" /\ View(At(e).known) = Shorn(v, slot.id))
  BY <1>0, <1>1, ResultKept DEF r
<1>3. /\ m \in MemoryType /\ m.task = memory.task /\ m.required = memory.required
      /\ m.candidates = memory.candidates /\ View(m) = v
  BY <1>0, FreedTyped, FreedView
<1>4. Confirms(says) \in BOOLEAN /\ (Confirms(says) <=> says \in {"true", "false"})
  BY DEF Confirms
<1>5. d.memory = c.memory /\ d.records = <<r>> \o c.records
  BY DEF Course
<1>6. Idle(d)
  <2>1. <<r>> # <<>> /\ <<r>> \in Seq(RecordType) /\ <<r>>[1].kind # "registry_transition"
    BY <1>1, <1>2
  <2> QED
    BY <1>0, <1>4, <2>1, CleanedIdle
<1> HIDE DEF m, v, r
<1>7. CASE Confirms(says)
  <2>1. /\ c.memory = Resolved(m, slot.id)
        /\ c.records = <<Note(slot, "recovery_result", "confirmed"),
                         Note(slot, "registry_transition", "unsubscribed"),
                         Note(slot, "recovery_terminal", "confirmed")>>
    <3> DEFINE n1 == Note(slot, "recovery_result", "confirmed")
               n2 == Note(slot, "registry_transition", "unsubscribed")
               n3 == Note(slot, "recovery_terminal", "confirmed")
    <3>1. Cleaned(m, slot, Confirms(says)) = Course(Resolved(m, slot.id), <<n1, n2, n3>>)
      BY <1>7, CleanedIs
    <3> HIDE DEF n1, n2, n3
    <3>2. c = Course(Resolved(m, slot.id), <<n1, n2, n3>>)
      BY <3>1 DEF m
    <3>3. c.memory = Resolved(m, slot.id) /\ c.records = <<n1, n2, n3>>
      BY <3>2 DEF Course
    <3> QED
      BY <3>3 DEF n1, n2, n3
  <2>2. d.records = Append(Append(Append(e.records, Note(slot, "recovery_result", "confirmed")),
                                  Note(slot, "registry_transition", "unsubscribed")),
                           Note(slot, "recovery_terminal", "confirmed"))
    <3> DEFINE n1 == Note(slot, "recovery_result", "confirmed")
               n2 == Note(slot, "registry_transition", "unsubscribed")
               n3 == Note(slot, "recovery_terminal", "confirmed")
    <3>1. e.records = <<r>> /\ d.records = <<r>> \o <<n1, n2, n3>>
      BY <1>1, <1>5, <2>1
    <3> HIDE DEF n1, n2, n3
    <3>3. <<r>> \o <<n1, n2, n3>> = Append(Append(Append(<<r>>, n1), n2), n3)
      BY Spliced
    <3>2. d.records = Append(Append(Append(e.records, n1), n2), n3)
      BY <3>1, <3>3
    <3> QED
      BY <3>2 DEF n1, n2, n3
  <2>3. Prefixed(d, may) /\ View(At(d).known) = Shorn(View(At(e).known), slot.id)
    BY <1>0, <1>2, <2>2, ConfirmedKept
  <2>4. View(At(d).known) = Shorn(v, slot.id)
    BY <1>0, <1>2, <2>3, SoundShorn
  <2>5. View(c.memory) = Shorn(v, slot.id) /\ (~m.required => c.memory.candidates = {})
    BY <1>0, <1>3, <2>1, MemoryShorn DEF Sound
  <2>6. c.memory.task = memory.task /\ c.memory.required = m.required
    <3>1. Resolved(m, slot.id).task = m.task /\ Resolved(m, slot.id).required = m.required
      BY <1>0, <1>3, MemoryResolvedTyped
    <3> QED
      BY <1>3, <2>1, <3>1
  <2>7. Reads(d.memory, At(d).known)
    BY <1>5, <2>4, <2>5, <2>6, ReadsViewed
  <2> QED
    BY <1>5, <1>6, <2>3, <2>6, <2>7 DEF KeepsUp, TodoInv
<1>8. CASE ~Confirms(says)
  <2> DEFINE n == Note(slot, "recovery_result", "unconfirmed")
  <2>1. c.memory = m /\ c.records = <<n>>
    BY <1>8, CleanedIs DEF Course, m
  <2>2. n \in RecordType /\ n.kind = "recovery_result"
    BY <1>0, NotesTyped DEF Kinds
  <2> HIDE DEF n
  <2>3. d.records = Append(e.records, n)
    <3>1. e.records = <<r>> /\ d.records = <<r>> \o <<n>>
      BY <1>1, <1>5, <2>1
    <3>2. <<r>> \o <<n>> = Append(<<r>>, n)
      BY Spliced
    <3> QED
      BY <3>1, <3>2
  <2>4. Step(At(e), n) = At(e) /\ Durable(At(e), may)
    BY <1>0, <1>2, <2>2, StepNothing, AtTyped
  <2>5. Prefixed(d, may) /\ At(d) = At(e)
    <3>1. TypeInv /\ e.records \in Seq(RecordType) /\ Prefixed(e, may)
      BY <1>0, <1>2
    <3>2. n \in RecordType /\ Durable(Step(At(e), n), may)
      BY <2>2, <2>4
    <3>3. At(d) = Step(At(e), n) /\ Prefixed(d, may)
      BY <2>3, <3>1, <3>2, PrefixedAppend
    <3> QED
      BY <2>4, <3>3
  <2>6. Reads(d.memory, At(d).known)
    BY <1>0, <1>2, <1>3, <1>4, <1>5, <1>8, <2>1, <2>5, ReadsViewed
  <2> QED
    BY <1>3, <1>5, <1>6, <2>1, <2>5, <2>6 DEF KeepsUp, TodoInv
<1> QED
  BY <1>7, <1>8

LEMMA UncleanedKeepsUp ==
  ASSUME NEW may, InStep(may), memory.slot # NoSlot, memory.task.kind = "startup",
         NEW d, d = Cleaned(Freed(memory), memory.slot, FALSE)
  PROVE  KeepsUp(d, may) /\ d.memory.task.kind = "startup"
<1> DEFINE slot == memory.slot
           e == Course(memory, <<>>)
           m == Freed(memory)
           n == Note(slot, "recovery_result", "unconfirmed")
<1>0. /\ View(memory) = View(Base(journal).known) /\ memory \in MemoryType /\ TypeInv
      /\ memory.phase # "not_started" /\ slot \in SlotType /\ Durable(Base(journal), may)
      /\ (~memory.required => memory.candidates = {})
  BY InStepRecovery DEF MemoryType, InStep, Reads
<1>1. d.memory = m /\ d.records = <<n>> /\ d = Course(d.memory, d.records)
  <2>0. Cleaned(m, slot, FALSE) = Course(m, <<n>>)
    BY CleanedIs
  <2>1. \A x, y : Course(x, y).memory = x /\ Course(x, y).records = y
    BY DEF Course
  <2>2. d.memory = m /\ d.records = <<n>>
    <3> HIDE DEF n, m
    <3>1. d = Course(m, <<n>>)
      BY <2>0 DEF m
    <3>2. Course(m, <<n>>).memory = m /\ Course(m, <<n>>).records = <<n>>
      BY <2>1, Zenon
    <3> QED
      BY <3>1, <3>2, Zenon
  <2> HIDE DEF n, m
  <2>3. d = Course(d.memory, d.records)
    BY <2>0, <2>2 DEF m
  <2> QED
    BY <2>2, <2>3
<1>2. n \in RecordType /\ n.kind = "recovery_result"
  BY <1>0, NotesTyped DEF Kinds
<1>3. /\ m.task = memory.task /\ m.required = memory.required
      /\ m.candidates = memory.candidates /\ View(m) = View(memory)
  BY <1>0, FreedTyped, FreedView
<1>4. e.records = <<>> /\ e.records \in Seq(RecordType)
  BY DEF Course
<1>5. Idle(d)
  <2>1. Idle(Course(d.memory, <<>> \o d.records))
    <3>1. FALSE \in BOOLEAN /\ <<>> \in Seq(RecordType) /\ memory.task.kind # "none"
      OBVIOUS
    <3> DEFINE rs == <<>>
    <3>2. rs # <<>> => rs[1].kind # "registry_transition"
      OBVIOUS
    <3> HIDE DEF rs
    <3>3. Idle(Course(d.memory, rs \o d.records))
      BY <1>0, <3>1, <3>2, CleanedIdle DEF rs
    <3> QED
      BY <3>3 DEF rs
  <2>2. <<>> \o d.records = d.records
    BY <1>1, Spliced
  <2> QED
    BY <1>1, <2>1, <2>2
<1> HIDE DEF e, m, n
<1>6. Prefixed(e, may) /\ At(e) = Base(journal)
  BY <1>0, <1>4, PrefixedNothing
<1>7. Step(At(e), n) = At(e)
  BY <1>2, StepNothing
<1>8. d.records = Append(e.records, n)
  BY <1>1, <1>4, Spliced
<1>9. Prefixed(d, may) /\ At(d) = Base(journal)
  BY <1>0, <1>2, <1>4, <1>6, <1>7, <1>8, PrefixedAppend
<1>10. Reads(d.memory, At(d).known)
  BY <1>0, <1>1, <1>3, <1>9, ReadsViewed
<1> QED
  BY <1>1, <1>3, <1>5, <1>9, <1>10 DEF KeepsUp, TodoInv

\* A handle of the registry that is dropped there, and resolved in the journal.
LEMMA DroppedIs ==
  ASSUME NEW m \in MemoryType, NEW slot \in SlotType, NEW v \in ViewType, NEW may, Sound(v, may),
         m.whole = v.whole, m.singles = v.singles, Handle(slot.id, slot.about) \in Handles(m)
  PROVE  /\ Dropped(m, slot) \in MemoryType
         /\ Dropped(m, slot).whole = Shorn(v, slot.id).whole
         /\ Dropped(m, slot).singles = Shorn(v, slot.id).singles
         /\ Dropped(m, slot).candidates = m.candidates /\ Dropped(m, slot).required = m.required
         /\ Dropped(m, slot).task = m.task /\ Dropped(m, slot).phase = m.phase
         /\ Dropped(m, slot).slot = m.slot /\ Dropped(m, slot).seq = m.seq
         /\ \A k \in Handles(m) : k # Handle(slot.id, slot.about) => k \in Handles(Dropped(m, slot))
<1> DEFINE h == Handle(slot.id, slot.about)
           w == IF slot.about = {} THEN NoWhole ELSE m.whole
           ss == IF slot.about = {} THEN m.singles
                 ELSE [s \in Symbols |-> IF s \in slot.about THEN 0 ELSE m.singles[s]]
           d == Dropped(m, slot)
<1>0. m.whole \in WholeType /\ m.singles \in [Symbols -> Nat] /\ h.id = slot.id /\ h.about = slot.about
  BY HandleParts DEF MemoryType
<1>1. w \in WholeType /\ ss \in [Symbols -> Nat]
  BY <1>0, ConstantsTyped
<1>2. d = IF slot.about = {} THEN [m EXCEPT !.whole = w] ELSE [m EXCEPT !.singles = ss]
  BY DEF Dropped, MemoryType
<1>3. slot.about = {} => ss = m.singles
  OBVIOUS
<1>4. slot.about # {} => w = m.whole
  OBVIOUS
<1>5. Shorn(v, slot.id) = Cleared(v, h)
  <2>1. Handles(m) = Handles(v)
    BY DEF Handles
  <2>2. h \in v.known /\ OneEach(v.known)
    BY <2>1 DEF Sound
  <2> QED
    BY <1>0, <2>2, ShornIs
<1>6. \/ slot.about = {} /\ slot.id = m.whole.id
      \/ \E s \in Symbols : slot.about = {s} /\ slot.id = m.singles[s]
  <2>1. \/ m.whole # NoWhole /\ h = Handle(m.whole.id, {})
        \/ \E s \in Symbols : m.singles[s] # 0 /\ h = Handle(m.singles[s], {s})
    BY InHandles
  <2>2. CASE m.whole # NoWhole /\ h = Handle(m.whole.id, {})
    <3>1. h.id = m.whole.id /\ h.about = {}
      BY <2>2, HandleParts
    <3> QED
      BY <1>0, <3>1
  <2>3. ASSUME NEW s \in Symbols, h = Handle(m.singles[s], {s})
        PROVE  slot.about = {s} /\ slot.id = m.singles[s]
    <3>1. h.id = m.singles[s] /\ h.about = {s}
      BY <2>3, HandleParts
    <3> QED
      BY <1>0, <3>1
  <2> QED
    BY <2>1, <2>2, <2>3
<1>7. w = Cleared(v, h).whole
  BY <1>0, <1>6 DEF Cleared
<1>8. ss = Cleared(v, h).singles
  <2>1. Cleared(v, h).singles = [s \in Symbols |-> IF s \in slot.about /\ m.singles[s] = slot.id THEN 0 ELSE m.singles[s]]
    BY <1>0 DEF Cleared
  <2>2. CASE slot.about = {}
    BY <1>0, <2>1, <2>2
  <2>3. CASE slot.about # {}
    <3>1. PICK s \in Symbols : slot.about = {s} /\ slot.id = m.singles[s]
      BY <1>6, <2>3
    <3> QED
      BY <1>0, <2>1, <2>3, <3>1
  <2> QED
    BY <2>2, <2>3
<1> HIDE DEF w, ss, d
<1>9. /\ d \in MemoryType /\ d.whole = w /\ d.singles = ss /\ d.candidates = m.candidates
      /\ d.required = m.required /\ d.task = m.task /\ d.phase = m.phase /\ d.slot = m.slot /\ d.seq = m.seq
  BY <1>1, <1>2, <1>3, <1>4 DEF MemoryType
<1>10. ASSUME NEW k \in Handles(m), k # h PROVE k \in Handles(d)
  <2>1. CASE m.whole # NoWhole /\ k = Handle(m.whole.id, {})
    <3>1. slot.about # {}
      BY <1>6, <1>10, <2>1
    <3> QED
      BY <1>4, <1>9, <2>1, <3>1, InHandles
  <2>2. ASSUME NEW s \in Symbols, m.singles[s] # 0, k = Handle(m.singles[s], {s}) PROVE k \in Handles(d)
    <3>1. slot.about # {s}
      <4>1. slot.about = {s} => slot.id = m.singles[s]
        BY <1>6
      <4> QED
        BY <1>10, <2>2, <4>1
    <3>2. s \notin slot.about
      BY <1>6, <3>1
    <3>3. d.singles[s] = m.singles[s]
      BY <1>9, <3>2 DEF ss
    <3> QED
      BY <2>2, <3>3, InHandles
  <2>3. \/ m.whole # NoWhole /\ k = Handle(m.whole.id, {})
        \/ \E s \in Symbols : m.singles[s] # 0 /\ k = Handle(m.singles[s], {s})
    BY <1>10, InHandles
  <2> QED
    BY <2>1, <2>2, <2>3
<1> QED
  BY <1>5, <1>7, <1>8, <1>9, <1>10 DEF d

\* The controller while a request waits for its call.
LEMMA InStepRequest ==
  ASSUME NEW may, InStep(may), memory.slot # NoSlot, memory.task.kind # "startup"
  PROVE  /\ TypeInv /\ memory \in MemoryType /\ memory.slot \in SlotType
         /\ ~memory.required /\ memory.candidates = {} /\ ~Recovering(memory)
         /\ memory.whole = View(Base(journal).known).whole
         /\ memory.singles = View(Base(journal).known).singles
         /\ memory.slot.method \in {"cancel", "whole", "single"}
         /\ memory.slot.method = "cancel" =>
              /\ memory.task.kind \in {"sync", "unsubscribe"}
              /\ Handle(memory.slot.id, memory.slot.about) \in Handles(memory) \ memory.task.todo
         /\ memory.slot.method = "single" => \E s \in Symbols : memory.slot.about = {s}
         /\ View(Base(journal).known) \in ViewType /\ Sound(View(Base(journal).known), may)
<1>1. /\ TypeInv /\ memory.task.kind # "none" /\ memory.phase # "not_started" /\ memory \in MemoryType
      /\ memory.slot \in SlotType
  BY BusyStarted, NumbersTyped DEF InStep
<1>2. ~memory.required /\ memory.candidates = {} /\ ~Recovering(memory)
  BY <1>1 DEF InStep, Reads, Recovering
<1>3. memory.whole = View(Base(journal).known).whole /\ memory.singles = View(Base(journal).known).singles
  BY DEF InStep, Reads, View
<1>4. View(Base(journal).known) \in ViewType /\ Sound(View(Base(journal).known), may)
  BY <1>1, BaseTyped, ViewTyped DEF InStep, Durable, ReplayType
<1> QED
  BY <1>1, <1>2, <1>3, <1>4 DEF InStep, SlotInv

LEMMA CancelAnswered ==
  ASSUME NEW may, InStep(may), memory.slot # NoSlot, memory.task.kind # "startup",
         memory.slot.method = "cancel", NEW says \in Says, NEW id \in Nat, Acceptable(says, id, may),
         NEW c \in Answers(says, id)
  PROVE  Lands(c, may)
<1> DEFINE slot == memory.slot
           m == Freed(memory)
           result == ResultOf(slot, says, id)
           e == Course(m, <<result>>)
           v == View(Base(journal).known)
           h == Handle(slot.id, slot.about)
           t == Record("registry_transition", 0, "unsubscribed", slot.id, slot.about)
           u == [memory.task EXCEPT !.failed = TRUE]
           next == IF Confirms(says) THEN Course(Dropped(m, slot), Append(<<result>>, t))
                   ELSE Course([m EXCEPT !.task = u], <<result>>)
<1>0. /\ TypeInv /\ memory \in MemoryType /\ slot \in SlotType
      /\ ~memory.required /\ memory.candidates = {} /\ ~Recovering(memory)
      /\ memory.whole = v.whole /\ memory.singles = v.singles
      /\ memory.task.kind \in {"sync", "unsubscribe"} /\ h \in Handles(memory) \ memory.task.todo
      /\ v \in ViewType /\ Sound(v, may) /\ memory.phase # "not_started"
  BY InStepRequest DEF Recovering
<1>1. slot.id \in Nat /\ slot.about \in SUBSET Symbols /\ memory.task \in TaskType
  BY <1>0 DEF SlotType, MemoryType
<1>2. /\ m \in MemoryType /\ m.slot = NoSlot /\ m.task = memory.task /\ m.seq = memory.seq
      /\ m.phase = memory.phase /\ m.required = memory.required /\ m.candidates = memory.candidates
      /\ m.whole = v.whole /\ m.singles = v.singles /\ Handles(m) = Handles(memory)
  BY <1>0, FreedTyped, FreedView
<1>3. c \in NextOfRequest(next)
  <2>1. [m EXCEPT !.task.failed = TRUE] = [m EXCEPT !.task = u]
    BY <1>2 DEF MemoryType, TaskType
  <2> QED
    BY <1>0, <2>1 DEF Answers, Freed, ResultOf
<1>4. e.records = <<result>>
  BY DEF Course
<1>5. /\ e.records \in Seq(RecordType) /\ Prefixed(e, may) /\ At(e) \in ReplayType /\ Durable(At(e), may)
      /\ e.records[1].kind = "native_result"
      /\ View(At(e).known) = v \/ (says = "false" /\ View(At(e).known) = Shorn(v, slot.id))
  <2> HIDE DEF e
  <2> QED
    BY <1>0, <1>4, ResultKept
<1> HIDE DEF e, m, v, h, result
<1>6. CASE Confirms(says)
  <2>1. t \in RecordType /\ t.kind = "registry_transition" /\ t.what = "unsubscribed" /\ t.id = slot.id
    BY <1>1 DEF Record, RecordType, Kinds, Whats
  <2> HIDE DEF t
  <2>2. next.memory = Dropped(m, slot) /\ next.records = Append(e.records, t)
    BY <1>4, <1>6 DEF Course
  <2> DEFINE d == Dropped(m, slot)
  <2>3. /\ d \in MemoryType /\ d.whole = Shorn(v, slot.id).whole /\ d.singles = Shorn(v, slot.id).singles
        /\ d.candidates = m.candidates /\ d.required = m.required
        /\ d.task = m.task /\ d.phase = m.phase /\ d.slot = m.slot /\ d.seq = m.seq
        /\ \A k \in Handles(m) : k # h => k \in Handles(d)
    BY <1>0, <1>2, DroppedIs DEF h
  <2> HIDE DEF d
  <2>4. next.memory = d
    BY <2>2 DEF d
  <2> HIDE DEF next
  <2>5. View(Step(At(e), t).known) = Shorn(View(At(e).known), slot.id) /\ Durable(Step(At(e), t), may)
    BY <1>5, <2>1, StepResolved
  <2>6. View(Step(At(e), t).known) = Shorn(v, slot.id)
    BY <1>0, <1>5, <2>5, SoundShorn
  <2>7. At(next) = Step(At(e), t) /\ Prefixed(next, may) /\ next.records \in Seq(RecordType)
    BY <1>0, <1>5, <2>1, <2>2, <2>5, PrefixedAppend
  <2>8. next.records # <<>> /\ next.records[1].kind # "registry_transition"
    <3>1. e.records # <<>>
      BY <1>4
    <3> QED
      BY <1>5, <2>1, <2>2, <3>1, AppendTyped
  <2>9. Idle(next)
    BY <1>0, <1>2, <2>3, <2>4, <2>7, <2>8 DEF Idle, TypedCourse
  <2>10. Reads(next.memory, At(next).known)
    <3>1. At(next).known.whole = Shorn(v, slot.id).whole /\ At(next).known.singles = Shorn(v, slot.id).singles
      BY <2>6, <2>7 DEF View
    <3>2. ~Recovering(next.memory) /\ ~next.memory.required /\ next.memory.candidates = {}
      BY <1>0, <1>2, <2>3, <2>4 DEF Recovering
    <3> QED
      BY <2>3, <2>4, <3>1, <3>2 DEF Reads
  <2>11. TodoInv(next.memory)
    <3>1. next.memory.task.todo = memory.task.todo /\ memory.task.todo \subseteq Handles(m)
      BY <1>0, <1>2, <2>3, <2>4 DEF InStep, TodoInv
    <3> QED
      BY <1>0, <2>3, <2>4, <3>1 DEF TodoInv
  <2>12. KeepsUp(next, may)
    BY <2>7, <2>9, <2>10, <2>11 DEF KeepsUp
  <2>13. next.memory.task.kind \in {"sync", "unsubscribe"}
    BY <1>0, <1>2, <2>3, <2>4
  <2> QED
    BY <1>0, <1>3, <2>12, <2>13, NextOfRequestLands
<1>7. CASE ~Confirms(says)
  <2>1. u \in TaskType /\ u.kind = memory.task.kind /\ u.todo = memory.task.todo
    BY <1>1 DEF TaskType
  <2> HIDE DEF u
  <2> DEFINE n == [m EXCEPT !.task = u]
  <2>2. /\ n \in MemoryType /\ n.slot = NoSlot /\ n.task = u /\ n.seq = memory.seq /\ n.phase = memory.phase
        /\ n.required = memory.required /\ n.candidates = memory.candidates
        /\ n.whole = m.whole /\ n.singles = m.singles
    BY <1>2, <2>1 DEF MemoryType
  <2>3. next.memory = n /\ next.records = e.records
    BY <1>4, <1>7 DEF Course
  <2> HIDE DEF n, next
  <2>4. At(next) = At(e) /\ Prefixed(next, may)
    BY <1>5, <2>3 DEF At, Prefixed
  <2>5. View(At(e).known) = v
    BY <1>5, <1>7 DEF Confirms
  <2>6. Idle(next)
    BY <1>0, <1>5, <2>1, <2>2, <2>3 DEF Idle, TypedCourse
  <2>7. Reads(next.memory, At(next).known)
    <3>1. At(next).known.whole = v.whole /\ At(next).known.singles = v.singles
      BY <2>4, <2>5 DEF View
    <3>2. ~Recovering(next.memory) /\ ~next.memory.required /\ next.memory.candidates = {}
      BY <1>0, <2>1, <2>2, <2>3 DEF Recovering
    <3> QED
      BY <1>2, <2>2, <2>3, <3>1, <3>2 DEF Reads
  <2>8. TodoInv(next.memory)
    <3>1. Handles(n) = Handles(m)
      BY <2>2 DEF Handles
    <3> QED
      BY <1>0, <1>2, <2>1, <2>2, <2>3, <3>1 DEF InStep, TodoInv
  <2>9. KeepsUp(next, may)
    BY <2>4, <2>6, <2>7, <2>8 DEF KeepsUp
  <2> QED
    BY <1>0, <1>3, <2>1, <2>2, <2>3, <2>9, NextOfRequestLands
<1> QED
  BY <1>6, <1>7

\* A controller that has ended a request reads the same as its registry.
LEMMA EndedKept ==
  ASSUME TypeInv, NEW may, NEW n \in MemoryType, ~n.required, n.candidates = {}, n.phase # "not_started",
         NEW c, c.memory = Ended(n), Follows(c), Prefixed(c, may),
         n.whole = At(c).known.whole, n.singles = At(c).known.singles
  PROVE  Lands(c, may)
<1>1. /\ c.memory.slot = NoSlot /\ c.memory.task = NoTask /\ c.memory.phase = n.phase
      /\ ~c.memory.required /\ c.memory.candidates = {}
      /\ c.memory.whole = n.whole /\ c.memory.singles = n.singles
  BY EndedTyped
<1>2. Reads(c.memory, At(c).known) /\ TodoInv(c.memory) /\ SlotInv(c.memory, At(c).pending)
  BY <1>1, ConstantsTyped DEF Reads, Recovering, TodoInv, SlotInv
<1> QED
  BY <1>2 DEF Lands

LEMMA SubscriptionAnswered ==
  ASSUME NEW may, InStep(may), memory.slot # NoSlot, memory.task.kind # "startup",
         memory.slot.method # "cancel", NEW says \in Says, NEW id \in Nat, Acceptable(says, id, may),
         NEW c \in Answers(says, id)
  PROVE  Lands(c, may)
<1> DEFINE slot == memory.slot
           m == Freed(memory)
           result == ResultOf(slot, says, id)
           e == Course(m, <<result>>)
           v == View(Base(journal).known)
           k == View(At(e).known)
           t == Record("registry_transition", 0, slot.method, id, slot.about)
           n == Registered(m, slot, id)
<1>0. /\ TypeInv /\ memory \in MemoryType /\ slot \in SlotType
      /\ ~memory.required /\ memory.candidates = {} /\ memory.phase # "not_started"
      /\ memory.whole = v.whole /\ memory.singles = v.singles
      /\ slot.method \in {"whole", "single"} /\ memory.task.kind # "none"
      /\ (slot.method = "single" => \E s \in Symbols : slot.about = {s})
  BY InStepRequest, BusyStarted DEF Recovering
<1>1. slot.id \in Nat /\ slot.about \in SUBSET Symbols
  BY <1>0 DEF SlotType
<1>2. /\ m \in MemoryType /\ m.phase = memory.phase /\ m.required = memory.required
      /\ m.candidates = memory.candidates /\ m.whole = v.whole /\ m.singles = v.singles
  BY <1>0, FreedTyped
<1>3. c = IF says = "id" THEN Course(Ended(n), Append(<<result>>, t)) ELSE Course(Ended(m), <<result>>)
  BY <1>0 DEF Answers, Freed, ResultOf
<1>4. e.records = <<result>>
  BY DEF Course
<1>5. /\ e.records \in Seq(RecordType) /\ Prefixed(e, may) /\ At(e) \in ReplayType /\ Durable(At(e), may)
      /\ k = v \/ (says = "id" /\ \E about : k = Added(v, id, about))
  <2> HIDE DEF e
  <2> QED
    BY <1>0, <1>4, ResultKept
<1>6. k.whole = v.whole /\ k.singles = v.singles /\ Handles(k) = Handles(v)
  <2>1. ASSUME NEW about, k = Added(v, id, about)
        PROVE  k.whole = v.whole /\ k.singles = v.singles
    BY <2>1 DEF Added
  <2>2. k.whole = v.whole /\ k.singles = v.singles
    BY <1>5, <2>1
  <2> HIDE DEF k, v
  <2> QED
    BY <2>2 DEF Handles
<1>7. Follows(c)
  BY <1>0, AnswersFollow
<1> HIDE DEF e, m, v, result, t, n
<1>8. CASE says # "id"
  <2>1. c.memory = Ended(m) /\ c.records = e.records
    BY <1>3, <1>4, <1>8 DEF Course
  <2>2. At(c) = At(e) /\ Prefixed(c, may)
    BY <1>5, <2>1 DEF At, Prefixed
  <2>3. m.whole = At(c).known.whole /\ m.singles = At(c).known.singles
    BY <1>2, <1>6, <2>2 DEF View
  <2> QED
    BY <1>0, <1>2, <1>7, <2>1, <2>2, <2>3, EndedKept
<1>9. CASE says = "id"
  <2>1. c.memory = Ended(n) /\ c.records = Append(e.records, t)
    BY <1>3, <1>4, <1>9 DEF Course
  <2>2. /\ t \in RecordType /\ t.kind = "registry_transition" /\ t.what = slot.method
        /\ t.id = id /\ t.about = slot.about
    BY <1>0, <1>1 DEF t, Record, RecordType, Kinds, Whats, Methods
  <2>3. id \in may /\ Fresh(k, id)
    BY <1>6, <1>9 DEF Acceptable, Fresh, v
  <2> DEFINE w == IF slot.method = "whole" THEN [id |-> id, symbols |-> slot.about] ELSE m.whole
             ss == IF slot.method = "whole" THEN m.singles
                   ELSE [s \in Symbols |-> IF s \in slot.about THEN id ELSE m.singles[s]]
  <2>4. w \in WholeType /\ ss \in [Symbols -> Nat]
    BY <1>1, <1>2 DEF MemoryType, WholeType
  <2>5. n = IF slot.method = "whole" THEN [m EXCEPT !.whole = w] ELSE [m EXCEPT !.singles = ss]
    BY DEF Registered, n
  <2>6. slot.method = "whole" => w = [id |-> id, symbols |-> slot.about] /\ ss = m.singles
    OBVIOUS
  <2>7. slot.method # "whole" =>
          w = m.whole /\ ss = [s \in Symbols |-> IF s \in slot.about THEN id ELSE m.singles[s]]
    OBVIOUS
  <2> HIDE DEF w, ss
  <2>8. /\ n \in MemoryType /\ n.phase = m.phase /\ n.required = m.required /\ n.candidates = m.candidates
        /\ n.whole = w /\ n.singles = ss
    BY <1>2, <2>4, <2>5, <2>6, <2>7 DEF MemoryType
  <2>9. /\ Durable(Step(At(e), t), may)
        /\ w = View(Step(At(e), t).known).whole /\ ss = View(Step(At(e), t).known).singles
    <3>1. CASE slot.method = "whole"
      <4>1. /\ Durable(Step(At(e), t), may)
            /\ View(Step(At(e), t).known) = Added(Wholly(k, id, slot.about), id, {})
        BY <1>5, <2>2, <2>3, <3>1, StepWhole
      <4> QED
        BY <1>2, <1>6, <2>6, <3>1, <4>1 DEF Added, Wholly
    <3>2. CASE slot.method = "single"
      <4>1. PICK x \in Symbols : slot.about = {x}
        BY <1>0, <3>2
      <4>2. /\ Durable(Step(At(e), t), may)
            /\ View(Step(At(e), t).known) = Added(Singly(k, id, {x}), id, {x})
        BY <1>5, <2>2, <2>3, <3>2, <4>1, StepSingle
      <4>3. /\ View(Step(At(e), t).known).whole = k.whole
            /\ View(Step(At(e), t).known).singles = [s \in Symbols |-> IF s \in {x} THEN id ELSE k.singles[s]]
        BY <4>2 DEF Added, Singly
      <4> QED
        BY <1>2, <1>6, <2>7, <3>2, <4>1, <4>2, <4>3
    <3> QED
      BY <1>0, <3>1, <3>2
  <2>10. At(c) = Step(At(e), t) /\ Prefixed(c, may)
    BY <1>0, <1>5, <2>1, <2>2, <2>9, PrefixedAppend
  <2>11. n.whole = At(c).known.whole /\ n.singles = At(c).known.singles
    BY <2>8, <2>9, <2>10 DEF View
  <2> QED
    BY <1>0, <1>2, <1>7, <2>1, <2>8, <2>10, <2>11, EndedKept
<1> QED
  BY <1>8, <1>9

LEMMA AnswersLand ==
  ASSUME NEW may, InStep(may), memory.slot # NoSlot, NEW says \in Says, NEW id \in Nat,
         Acceptable(says, id, may), NEW c \in Answers(says, id)
  PROVE  Lands(c, may)
<1>1. CASE memory.task.kind = "startup"
  <2> DEFINE d == Cleaned(Freed(memory), memory.slot, Confirms(says))
             next == Course(d.memory, <<ResultOf(memory.slot, says, id)>> \o d.records)
  <2>1. c \in NextCleanup(next) \cup {Recovered(next)}
    BY <1>1 DEF Answers, Freed, ResultOf
  <2>2. KeepsUp(next, may) /\ next.memory.task.kind = "startup"
    BY <1>1, CleanedKeepsUp
  <2>3. TypeInv
    BY DEF InStep
  <2> HIDE DEF next
  <2> QED
    BY <2>1, <2>2, <2>3, NextCleanupLands, RecoveredLands
<1>2. CASE memory.task.kind # "startup"
  BY <1>2, CancelAnswered, SubscriptionAnswered
<1> QED
  BY <1>1, <1>2

LEMMA TimeoutsLand ==
  ASSUME NEW may, InStep(may), memory.slot # NoSlot, NEW c \in Timeouts
  PROVE  Lands(c, may)
<1> DEFINE slot == memory.slot
           m == Freed(memory)
<1>0. TypeInv /\ Durable(Base(journal), may)
  BY DEF InStep
<1>1. CASE memory.task.kind = "startup"
  <2> DEFINE d == Cleaned(m, slot, FALSE)
  <2>1. c \in NextCleanup(d) \cup {Recovered(d)}
    BY <1>1 DEF Timeouts, Freed
  <2>2. KeepsUp(d, may) /\ d.memory.task.kind = "startup"
    BY <1>1, UncleanedKeepsUp
  <2> HIDE DEF d
  <2> QED
    BY <1>0, <2>1, <2>2, NextCleanupLands, RecoveredLands
<1>2. CASE memory.task.kind # "startup"
  <2>0. /\ memory \in MemoryType /\ slot \in SlotType
        /\ ~memory.required /\ memory.candidates = {} /\ memory.phase # "not_started"
        /\ memory.whole = Base(journal).known.whole /\ memory.singles = Base(journal).known.singles
        /\ memory.task \in TaskType /\ memory.task.kind # "none"
    BY <1>2, InStepRequest, BusyStarted DEF Recovering, View, MemoryType
  <2>1. /\ m \in MemoryType /\ m.slot = NoSlot /\ m.task = memory.task /\ m.seq = memory.seq
        /\ m.phase = memory.phase /\ m.required = memory.required /\ m.candidates = memory.candidates
        /\ m.whole = memory.whole /\ m.singles = memory.singles /\ Handles(m) = Handles(memory)
    BY <2>0, FreedTyped, FreedView
  <2>2. CASE slot.method = "cancel"
    <3> DEFINE u == [memory.task EXCEPT !.failed = TRUE]
               n == [m EXCEPT !.task = u]
               next == Course(n, <<>>)
    <3>1. [m EXCEPT !.task.failed = TRUE] = [m EXCEPT !.task = u]
      BY <2>1 DEF MemoryType, TaskType
    <3>2. c \in NextOfRequest(next)
      BY <1>2, <2>2, <3>1 DEF Timeouts, Freed
    <3>3. u \in TaskType /\ u.kind = memory.task.kind /\ u.todo = memory.task.todo
      BY <2>0 DEF TaskType
    <3> HIDE DEF u, m
    <3>4. /\ n \in MemoryType /\ n.slot = NoSlot /\ n.task = u /\ n.seq = memory.seq
          /\ n.phase = memory.phase /\ n.required = memory.required /\ n.candidates = memory.candidates
          /\ n.whole = memory.whole /\ n.singles = memory.singles
      BY <2>1, <3>3 DEF MemoryType
    <3>5. next.memory = n /\ next.records = <<>> /\ next.records \in Seq(RecordType)
      BY DEF Course
    <3> HIDE DEF n, next
    <3>6. At(next) = Base(journal) /\ Prefixed(next, may)
      BY <1>0, <3>5, PrefixedNothing
    <3>7. Idle(next)
      BY <2>0, <3>3, <3>4, <3>5 DEF Idle, TypedCourse
    <3>8. Reads(next.memory, At(next).known)
      BY <1>2, <2>0, <3>3, <3>4, <3>5, <3>6 DEF Reads, Recovering
    <3>9. TodoInv(next.memory)
      <4>1. Handles(n) = Handles(memory)
        BY <3>4 DEF Handles
      <4> QED
        BY <3>3, <3>4, <3>5, <4>1 DEF InStep, TodoInv
    <3>10. KeepsUp(next, may)
      BY <3>6, <3>7, <3>8, <3>9 DEF KeepsUp
    <3>11. memory.task.kind \in {"sync", "unsubscribe"}
      BY <1>2, <2>2, InStepRequest
    <3> QED
      BY <1>0, <3>2, <3>3, <3>4, <3>5, <3>10, <3>11, NextOfRequestLands
  <2>3. CASE slot.method # "cancel"
    <3>1. c = Course(Ended(m), <<>>)
      BY <1>2, <2>3 DEF Timeouts, Freed
    <3>2. c.memory = Ended(m) /\ c.records = <<>>
      BY <3>1 DEF Course
    <3>3. Follows(c)
      BY <2>0, TimeoutsFollow
    <3> HIDE DEF m
    <3>4. At(c) = Base(journal) /\ Prefixed(c, may)
      BY <1>0, <3>2, PrefixedNothing
    <3> QED
      BY <1>0, <2>0, <2>1, <3>2, <3>3, <3>4, EndedKept
  <2> QED
    BY <2>2, <2>3
<1> QED
  BY <1>1, <1>2

-----------------------------------------------------------------------------
(* Every step keeps the controller and the journal together.               *)

LEMMA DurableMore ==
  ASSUME NEW s, NEW may, Durable(s, may), NEW more, may \subseteq more
  PROVE  Durable(s, more)
  BY DEF Durable, Sound

LEMMA HealthyInStep ==
  ASSUME JournalInv, healthy, NEW may, Told \subseteq may
  PROVE  InStep(may)
<1>1. intact
  BY DEF JournalInv, TypeInv, StateTypeOK
<1>2. Durable(Base(journal), may)
  BY <1>1, DurableMore DEF JournalInv, DurableInv
<1> QED
  BY <1>2 DEF JournalInv, HealthyInv, InStep

\* What DurableInv and HealthyInv say after a step, of the ids in may.
Kept(may) ==
  /\ intact' => Durable(Base(journal'), may)
  /\ IF healthy'
     THEN /\ Reads(memory', Base(journal').known)
          /\ TodoInv(memory')
          /\ SlotInv(memory', Base(journal').pending)
     ELSE memory'.slot = NoSlot

LEMMA KeptInv ==
  ASSUME TypeInv', LateInv', Kept(Told')
  PROVE  JournalInv'
  BY DEF Kept, JournalInv, DurableInv, HealthyInv

LEMMA StillKept ==
  ASSUME JournalInv, UNCHANGED <<memory, journalVars>>, NEW may, Told \subseteq may
  PROVE  Kept(may)
<1>1. memory' = memory /\ journal' = journal /\ healthy' = healthy /\ intact' = intact
  BY DEF journalVars
<1>2. intact => Durable(Base(journal), may)
  BY DurableMore DEF JournalInv, DurableInv
<1> QED
  BY <1>1, <1>2 DEF Kept, JournalInv, HealthyInv

LEMMA TakesKept ==
  ASSUME TypeInv, healthy, NEW may, NEW c, Lands(c, may), NEW told, NEW breaks \in BOOLEAN,
         Takes(c, told, breaks)
  PROVE  Kept(may)
<1>0. Follows(c) /\ c.records \in Seq(RecordType) /\ Prefixed(c, may) /\ Len(c.records) \in Nat
  BY DEF Lands, Follows, TypedCourse
<1>1. CASE ~breaks
  <2>1. memory' = c.memory /\ journal' = journal \o c.records /\ healthy' = healthy
    BY <1>1 DEF Takes, Written
  <2>2. Base(journal') = At(c) /\ Durable(At(c), may)
    BY <1>0, <2>1, AtTyped DEF At
  <2> QED
    BY <2>1, <2>2 DEF Kept, Lands
<1>2. CASE breaks
  <2>1. PICK n \in 0..(Len(c.records) - 1), tail \in {"none", "half", "whole"} :
          LET kept == SubSeq(c.records, 1, IF tail = "whole" THEN n + 1 ELSE n)
          IN  /\ memory' = Stopped(c, n)
              /\ journal' = journal \o kept
              /\ healthy' = FALSE
    BY <1>2 DEF Takes, Broken
  <2> DEFINE k == IF tail = "whole" THEN n + 1 ELSE n
  <2>2. k \in Nat /\ k <= Len(c.records) /\ n \in Nat
    BY <1>0
  <2>3. journal' = journal \o SubSeq(c.records, 1, k)
    BY <2>1
  <2> HIDE DEF k
  <2>4. Durable(Base(journal'), may)
    BY <1>0, <2>2, <2>3 DEF Prefixed
  <2>5. memory'.slot = NoSlot
    BY <1>0, <2>1, <2>2, StoppedTyped
  <2> QED
    BY <2>1, <2>4, <2>5 DEF Kept
<1> QED
  BY <1>1, <1>2

\* The ids that may be told stay so, where neither the terminal nor the reply
\* under way moves.
LEMMA ToldAlike ==
  ASSUME UNCHANGED <<late, nextId>>
  PROVE  Told' = Told /\ (LateInv => LateInv')
  BY DEF Told, LateInv

-----------------------------------------------------------------------------
(* Requests and the recovery.                                              *)

LEMMA ControlInStep ==
  ASSUME JournalInv, MayControl
  PROVE  /\ InStep(Told) /\ healthy /\ TypeInv /\ memory.slot = NoSlot /\ memory.task = NoTask
         /\ ~memory.required /\ memory.candidates = {} /\ memory \in MemoryType
         /\ memory.phase \notin {"not_started", "running"}
<1>1. healthy /\ memory.task = NoTask /\ ~memory.required /\ memory.phase \notin {"not_started", "running"}
  BY DEF MayControl
<1>2. InStep(Told) /\ TypeInv
  BY <1>1, HealthyInStep DEF JournalInv
<1>3. memory.slot = NoSlot
  BY <1>1, <1>2, ConstantsTyped DEF TypeInv, CallInv
<1> QED
  BY <1>1, <1>2, <1>3, NumbersTyped DEF InStep, Reads

\* The controller that starts on a request.
LEMMA ControlKeepsUp ==
  ASSUME JournalInv, MayControl, NEW kind \in {"subscribe", "unsubscribe", "sync"},
         NEW todo \in SUBSET HandleType, todo \subseteq Handles(memory), NEW desired \in SUBSET Symbols,
         NEW c, c = Course([memory EXCEPT !.task = Task(kind, todo, desired)], <<>>)
  PROVE  KeepsUp(c, Told) /\ c.memory.task.kind = kind
<1> DEFINE task == Task(kind, todo, desired)
           n == [memory EXCEPT !.task = task]
<1>0. /\ InStep(Told) /\ TypeInv /\ memory.task = NoTask /\ ~memory.required /\ memory.candidates = {}
      /\ memory \in MemoryType /\ memory.phase \notin {"not_started", "running"}
  BY ControlInStep
<1>1. task \in TaskType /\ task.kind = kind /\ task.todo = todo
  BY DEF Task, TaskType
<1>2. Idle(c)
  BY <1>0, ControlIdle
<1> HIDE DEF task
<1>3. /\ n.task = task /\ n.phase = memory.phase /\ n.required = memory.required
      /\ n.candidates = memory.candidates /\ n.whole = memory.whole /\ n.singles = memory.singles
  BY <1>0 DEF MemoryType
<1>4. c.memory = n /\ c.records = <<>>
  BY DEF Course, task
<1> HIDE DEF n
<1>5. Prefixed(c, Told) /\ At(c) = Base(journal)
  BY <1>0, <1>4, PrefixedNothing DEF InStep
<1>6. Reads(c.memory, At(c).known)
  BY <1>0, <1>1, <1>3, <1>4, <1>5 DEF InStep, Reads, Recovering
<1>7. Handles(n) = Handles(memory)
  BY <1>3 DEF Handles
<1>8. TodoInv(c.memory)
  BY <1>1, <1>3, <1>4, <1>7 DEF TodoInv
<1> QED
  BY <1>1, <1>2, <1>3, <1>4, <1>5, <1>6, <1>8 DEF KeepsUp

LEMMA RequestsKept ==
  ASSUME JournalInv, NEW courses, Requests(courses), \A c \in courses : Lands(c, Told)
  PROVE  JournalInv'
<1>1. PICK c \in courses, breaks \in BOOLEAN : Takes(c, granted, breaks)
  BY DEF Requests
<1>2. TypeInv /\ healthy
  BY ControlInStep DEF Requests
<1>3. Kept(Told)
  BY <1>1, <1>2, TakesKept
<1>4. Told' = Told /\ LateInv'
  <2>1. UNCHANGED <<late, nextId>>
    BY DEF Requests, terminalVars
  <2> QED
    BY <2>1, ToldAlike DEF JournalInv
<1>5. TypeInv'
  <2>1. \A d \in courses : Follows(d)
    BY DEF Lands
  <2> QED
    BY <1>2, <2>1, RequestsInv
<1> QED
  BY <1>3, <1>4, <1>5, KeptInv

LEMMA SubscribeKept ==
  ASSUME JournalInv, NEW s \in Symbols, Subscribe(s)
  PROVE  JournalInv'
<1> DEFINE c == Course([memory EXCEPT !.task = Task("subscribe", {}, {})], <<>>)
<1>1. Requests({Calling(c, "single", 0, {s})})
  BY DEF Subscribe
<1>2. MayControl
  BY <1>1 DEF Requests
<1>3. KeepsUp(c, Told) /\ c.memory.task.kind = "subscribe"
  <2>1. {} \in SUBSET HandleType /\ {} \subseteq Handles(memory) /\ {} \in SUBSET Symbols
    OBVIOUS
  <2> QED
    BY <1>2, <2>1, ControlKeepsUp
<1>4. TypeInv
  BY DEF JournalInv
<1> HIDE DEF c
<1>5. Lands(Calling(c, "single", 0, {s}), Told)
  <2>1. {s} \in SUBSET Symbols /\ 0 \in Nat
    OBVIOUS
  <2> QED
    BY <1>3, <1>4, <2>1, CallingLands
<1> QED
  BY <1>1, <1>5, RequestsKept

LEMMA UnsubscribeKept ==
  ASSUME JournalInv, NEW s \in Symbols, Unsubscribe(s)
  PROVE  JournalInv'
<1> DEFINE h == Handle(memory.singles[s], {s})
           todo == {h}
           c == Course([memory EXCEPT !.task = Task("unsubscribe", todo, {})], <<>>)
<1>1. Requests(NextOfRequest(c)) /\ memory.singles[s] # 0
  BY DEF Unsubscribe
<1>2. MayControl /\ TypeInv
  BY <1>1 DEF Requests, JournalInv
<1>3. todo \in SUBSET HandleType
  BY <1>2, NumbersTyped DEF MemoryType, Handle, HandleType
<1>4. todo \subseteq Handles(memory)
  BY <1>1, InHandles
<1> HIDE DEF todo
<1>5. KeepsUp(c, Told) /\ c.memory.task.kind = "unsubscribe"
  <2>1. {} \in SUBSET Symbols
    OBVIOUS
  <2> QED
    BY <1>2, <1>3, <1>4, <2>1, ControlKeepsUp
<1> HIDE DEF c
<1>6. \A d \in NextOfRequest(c) : Lands(d, Told)
  BY <1>2, <1>5, NextOfRequestLands
<1> QED
  BY <1>1, <1>6, RequestsKept

LEMMA SyncKept ==
  ASSUME JournalInv, NEW desired \in SUBSET Symbols, Sync(desired)
  PROVE  JournalInv'
<1> DEFINE todo == Handles(memory)
           c == Course([memory EXCEPT !.task = Task("sync", todo, desired)], <<>>)
<1>1. Requests(NextOfRequest(c))
  BY DEF Sync
<1>2. MayControl /\ TypeInv
  BY <1>1 DEF Requests, JournalInv
<1>3. todo \in SUBSET HandleType /\ todo \subseteq Handles(memory)
  BY <1>2, NumbersTyped, HandlesTyped
<1> HIDE DEF todo
<1>4. KeepsUp(c, Told) /\ c.memory.task.kind = "sync"
  BY <1>2, <1>3, ControlKeepsUp
<1> HIDE DEF c
<1>5. \A d \in NextOfRequest(c) : Lands(d, Told)
  BY <1>2, <1>4, NextOfRequestLands
<1> QED
  BY <1>1, <1>5, RequestsKept

LEMMA ReconcileKept ==
  ASSUME JournalInv, ReconcileStartup
  PROVE  JournalInv'
<1> DEFINE todo == {Handle(c.id, c.about) : c \in {x \in memory.candidates : ~x.tried}}
           task == Task("startup", todo, {})
           start == [memory EXCEPT !.phase = "running", !.task = task]
           b == Course(start, <<>>)
<1>1. memory.phase = "not_started" /\ memory \in MemoryType /\ TypeInv
  BY NumbersTyped DEF ReconcileStartup, JournalInv
<1>2. memory.slot = NoSlot
  BY <1>1, ConstantsTyped DEF TypeInv, CallInv
<1>3. todo \in SUBSET HandleType
  BY <1>1 DEF MemoryType, CandidateType, Handle, HandleType
<1>4. PICK c \in NextCleanup(b), breaks \in BOOLEAN :
        /\ breaks => c.records # <<>>
        /\ c.records # <<>> => healthy
        /\ Takes(c, granted, breaks)
  BY DEF ReconcileStartup
<1> HIDE DEF todo
<1>5. task \in TaskType /\ task.kind = "startup"
  BY <1>3 DEF Task, TaskType
<1>6. start = Begun(memory, task, "running")
  BY <1>1 DEF Begun, MemoryType
<1> HIDE DEF task
<1>7. /\ start.task = task /\ start.required = memory.required /\ start.slot = memory.slot
      /\ start.candidates = memory.candidates /\ start.whole = memory.whole /\ start.singles = memory.singles
  BY <1>1 DEF MemoryType
<1> HIDE DEF start
<1>8. Idle(b)
  BY <1>1, <1>2, <1>5, <1>6, BegunIdle DEF Phases
<1>9. b.memory = start /\ b.records = <<>>
  BY DEF Course
<1> HIDE DEF b
<1>10. Follows(c)
  BY <1>1, <1>4, <1>8, NextCleanupFollows
<1>11. TypeInv' /\ Told' = Told /\ LateInv'
  <2>1. UNCHANGED <<late, nextId>>
    BY DEF ReconcileStartup, terminalVars
  <2> QED
    BY <1>1, <2>1, ReconcileInv, ToldAlike DEF JournalInv
<1>12. CASE healthy
  <2>1. InStep(Told)
    BY <1>12, HealthyInStep
  <2>2. Prefixed(b, Told) /\ At(b) = Base(journal)
    BY <1>1, <1>9, <2>1, PrefixedNothing DEF InStep
  <2>3. Reads(b.memory, At(b).known)
    <3>1. View(start) = View(memory)
      BY <1>7 DEF View
    <3>2. Reads(memory, Base(journal).known) /\ Recovering(memory)
      BY <1>1, <2>1 DEF InStep, Recovering
    <3> QED
      BY <1>5, <1>7, <1>9, <2>2, <3>1, <3>2 DEF Reads
  <2>4. KeepsUp(b, Told) /\ b.memory.task.kind = "startup"
    BY <1>5, <1>7, <1>8, <1>9, <2>2, <2>3 DEF KeepsUp, TodoInv
  <2>5. Lands(c, Told)
    BY <1>1, <1>4, <2>4, NextCleanupLands
  <2>6. Kept(Told)
    BY <1>1, <1>4, <1>12, <2>5, TakesKept
  <2> QED
    BY <1>11, <2>6, KeptInv
<1>13. CASE ~healthy
  <2>1. c.records = <<>> /\ ~breaks
    BY <1>4, <1>13
  <2>2. memory' = c.memory /\ journal' = journal \o <<>> /\ healthy' = healthy /\ intact' = intact
    BY <1>4, <2>1 DEF Takes, Written
  <2>3. journal' = journal
    BY <1>1, <2>2, NumbersTyped
  <2>4. b.memory \in MemoryType /\ b.records \in Seq(RecordType)
    BY <1>8 DEF Idle, TypedCourse
  <2>5. c = Recovered(b)
    <3>1. CASE b.memory.task.todo = {}
      BY <1>4, <3>1 DEF NextCleanup
    <3>2. CASE b.memory.task.todo # {}
      <4>1. PICK h \in First(b.memory.task.todo) :
              c = Calling(Course([b.memory EXCEPT !.task.todo = @ \ {h}, !.candidates = Tried(@, {h.id})],
                                 Append(b.records, Record("recovery_intent", 0, "none", h.id, h.about))),
                          "cancel", h.id, h.about)
        BY <1>4, <3>2 DEF NextCleanup
      <4> DEFINE r == Record("recovery_intent", 0, "none", h.id, h.about)
                 m == [b.memory EXCEPT !.task.todo = @ \ {h}, !.candidates = Tried(@, {h.id})]
                 q == Record("native_intent", m.seq + 1, "cancel", h.id, h.about)
      <4>2. c.records = Append(Append(b.records, r), q)
        BY <4>1 DEF Calling, Course
      <4> HIDE DEF r, q
      <4>3. Len(c.records) = 2
        BY <1>9, <4>2
      <4> QED
        BY <2>1, <4>3
    <3> QED
      BY <3>1, <3>2
  <2>6. c.memory.slot = NoSlot
    <3> DEFINE p == b.memory.candidates # {} \/ b.memory.unknown # 0
               m == [Ended(b.memory) EXCEPT !.required = p]
    <3>1. CASE c = Course(Over(b.memory, "completed"), b.records)
      <4>1. "completed" \in Phases \ {"not_started"}
        BY DEF Phases
      <4> QED
        BY <2>4, <3>1, <4>1, OverTyped DEF Course
    <3>2. CASE c = Course(Over(b.memory, "degraded"), b.records)
      <4>1. "degraded" \in Phases \ {"not_started"}
        BY DEF Phases
      <4> QED
        BY <2>4, <3>2, <4>1, OverTyped DEF Course
    <3>3. CASE c = Course(Unlocked(m), Append(b.records, Observation))
      <4>1. c.records = Append(b.records, Observation)
        BY <3>3 DEF Course
      <4> QED
        BY <1>9, <2>1, <4>1
    <3> QED
      BY <2>4, <2>5, <3>1, <3>2, <3>3, RecoveredIs
  <2>7. Kept(Told)
    BY <1>13, <2>2, <2>3, <2>6 DEF Kept, JournalInv, DurableInv
  <2> QED
    BY <1>11, <2>7, KeptInv
<1> QED
  BY <1>12, <1>13

LEMMA TimesOutKept ==
  ASSUME JournalInv, CallTimesOut
  PROVE  JournalInv'
<1>1. PICK c \in Timeouts, breaks \in BOOLEAN : Takes(c, granted, breaks)
  BY DEF CallTimesOut
<1>2. memory.slot # NoSlot /\ healthy /\ TypeInv
  BY DEF CallTimesOut, JournalInv, HealthyInv
<1>3. Lands(c, Told)
  BY <1>2, HealthyInStep, TimeoutsLand
<1>4. Kept(Told)
  BY <1>1, <1>2, <1>3, TakesKept
<1>5. TypeInv' /\ Told' = Told /\ LateInv'
  <2>1. UNCHANGED <<late, nextId>>
    BY DEF CallTimesOut, terminalVars
  <2> QED
    BY <1>2, <2>1, TimesOutInv, ToldAlike DEF JournalInv
<1> QED
  BY <1>4, <1>5, KeptInv

-----------------------------------------------------------------------------
(* The bridge and the terminal. *)

\* An owner whose terminal has started again: the observation, written or not.
LEMMA ObservedKept ==
  ASSUME JournalInv, healthy, memory.required, NEW may, Told \subseteq may,
         Written(Course(Unlocked(memory), <<Observation>>), granted)
  PROVE  Kept(may)
<1> DEFINE n == Unlocked(memory)
<1>1. InStep(may) /\ TypeInv /\ memory \in MemoryType
  BY HealthyInStep, NumbersTyped DEF JournalInv
<1>2. /\ n.slot = memory.slot /\ n.task = memory.task /\ n.phase = "completed" /\ ~n.required
      /\ n.candidates = {} /\ n.whole = NoWhole /\ n.singles = [s \in Symbols |-> 0]
  BY <1>1, UnlockedTyped
<1>3. memory' = n /\ journal' = journal \o <<Observation>> /\ healthy'
  BY DEF Written, Course
<1> HIDE DEF n
<1>4. Base(journal') = Blank
  <2>1. journal' = Append(journal, Observation) /\ journal \in Seq(RecordType)
    BY <1>1, <1>3, NumbersTyped, RecordsTyped
  <2>2. Base(Append(journal, Observation)) = Step(Base(journal), Observation)
    BY <2>1, RecordsTyped, AfterAppend DEF Base, Step
  <2> QED
    BY <2>1, <2>2, RecordsTyped, StepObserved
<1>5. memory.task.kind \in {"none", "startup"} /\ (memory.slot # NoSlot => memory.task.kind = "startup")
  BY <1>1, BusyStarted DEF InStep, Reads
<1>6. View(n) = View(Blank.known)
  BY <1>2, BlankDurable DEF View
<1>7. Reads(n, Blank.known)
  BY <1>2, <1>5, <1>6, ReadsViewed
<1>8. TodoInv(n)
  BY <1>2, <1>5 DEF TodoInv
<1>9. SlotInv(n, Blank.pending)
  BY <1>1, <1>2, <1>5, BlankDurable DEF InStep, SlotInv
<1> QED
  BY <1>3, <1>4, <1>7, <1>8, <1>9, BlankDurable DEF Kept

LEMMA ObservationLost ==
  ASSUME JournalInv, healthy, memory.phase # "not_started", NEW may, Told \subseteq may,
         Broken(Course(memory, <<Observation>>), granted)
  PROVE  Kept(may)
<1> DEFINE c == Course(memory, <<Observation>>)
           e == Course(memory, <<>>)
<1>1. InStep(may) /\ TypeInv
  BY HealthyInStep DEF JournalInv
<1>2. memory'.slot = NoSlot
  BY <1>1, BrokenObservation
<1>3. PICK n \in 0..(Len(c.records) - 1), tail \in {"none", "half", "whole"} :
        LET kept == SubSeq(c.records, 1, IF tail = "whole" THEN n + 1 ELSE n)
        IN  journal' = journal \o kept /\ healthy' = FALSE
  BY DEF Broken
<1>4. e.records = <<>> /\ c.records = Append(e.records, Observation) /\ e.records \in Seq(RecordType)
  BY DEF Course
<1> HIDE DEF c, e
<1>5. Prefixed(e, may)
  BY <1>1, <1>4, PrefixedNothing DEF InStep
<1>6. Durable(Step(At(e), Observation), may)
  BY RecordsTyped, StepObserved, BlankDurable
<1>7. Prefixed(c, may) /\ c.records \in Seq(RecordType)
  BY <1>1, <1>4, <1>5, <1>6, RecordsTyped, PrefixedAppend
<1> DEFINE k == IF tail = "whole" THEN n + 1 ELSE n
<1>8. k \in Nat /\ k <= Len(c.records)
  BY <1>7
<1>9. journal' = journal \o SubSeq(c.records, 1, k) /\ ~healthy'
  BY <1>3
<1> HIDE DEF k
<1>10. Durable(Base(journal'), may)
  BY <1>7, <1>8, <1>9 DEF Prefixed
<1> QED
  BY <1>2, <1>9, <1>10 DEF Kept

LEMMA RegisterKept ==
  ASSUME JournalInv, RegisterBridge
  PROVE  JournalInv'
<1>1. late' = NoReply /\ nextId' = nextId
  BY DEF RegisterBridge, terminalVars
<1>2. NoReply.says # "id"
  BY DEF NoReply, Reply
<1>3. Told \subseteq Told' /\ LateInv'
  BY <1>1, <1>2 DEF Told, LateInv
<1>4. TypeInv'
  BY RegisterInv DEF JournalInv
<1> DEFINE may == Told'
<1>5. Told \subseteq may
  BY <1>3
<1> HIDE DEF may
<1>6. CASE UNCHANGED <<memory, journalVars, granted>>
  <2>1. UNCHANGED <<memory, journalVars>>
    BY <1>6
  <2>2. Kept(may)
    BY <1>5, <2>1, StillKept
  <2> QED
    BY <1>3, <1>4, <2>2, KeptInv DEF may
<1>7. CASE /\ memory.required /\ healthy
           /\ Written(Course(Unlocked(memory), <<Observation>>), granted)
  <2>1. Kept(may)
    BY <1>5, <1>7, ObservedKept
  <2> QED
    BY <1>3, <1>4, <2>1, KeptInv DEF may
<1>8. CASE /\ memory.phase \in {"running", "degraded"} /\ healthy
           /\ Broken(Course(memory, <<Observation>>), granted)
  <2>1. Kept(may)
    BY <1>5, <1>8, ObservationLost
  <2> QED
    BY <1>3, <1>4, <2>1, KeptInv DEF may
<1> QED
  BY <1>6, <1>7, <1>8 DEF RegisterBridge

LEMMA PollKept ==
  ASSUME JournalInv, PollCommand
  PROVE  JournalInv'
<1> DEFINE slot == [memory.slot EXCEPT !.exposed = TRUE]
           n == [memory EXCEPT !.slot = slot]
<1>0. memory \in MemoryType /\ memory.slot \in SlotType /\ memory.slot # NoSlot /\ healthy /\ TypeInv
  BY NumbersTyped DEF PollCommand, JournalInv, HealthyInv
<1>1. /\ slot.seq = memory.slot.seq /\ slot.method = memory.slot.method
      /\ slot.id = memory.slot.id /\ slot.about = memory.slot.about
  BY <1>0 DEF SlotType
<1>2. memory' = n
  BY <1>0 DEF PollCommand, MemoryType, SlotType
<1> HIDE DEF slot
<1>3. /\ n.slot = slot /\ n.task = memory.task /\ n.phase = memory.phase /\ n.required = memory.required
      /\ n.candidates = memory.candidates /\ n.whole = memory.whole /\ n.singles = memory.singles
  BY <1>0 DEF MemoryType
<1> HIDE DEF n
<1>4. journal' = journal /\ healthy' = healthy /\ intact' = intact /\ UNCHANGED <<late, nextId>>
  BY DEF PollCommand, journalVars, terminalVars
<1>5. View(n) = View(memory) /\ Handles(n) = Handles(memory) /\ IntentOf(slot) = IntentOf(memory.slot)
  BY <1>1, <1>3 DEF View, Handles, IntentOf
<1>6. InStep(Told)
  BY <1>0, HealthyInStep
<1>7. Reads(n, Base(journal).known) /\ TodoInv(n)
  BY <1>3, <1>5, <1>6 DEF InStep, Reads, Recovering, TodoInv
<1>8. SlotInv(n, Base(journal).pending)
  BY <1>0, <1>1, <1>3, <1>5, <1>6 DEF InStep, SlotInv
<1>9. Kept(Told)
  BY <1>0, <1>2, <1>4, <1>6, <1>7, <1>8 DEF Kept, InStep
<1>10. TypeInv' /\ Told' = Told /\ LateInv'
  BY <1>0, <1>4, PollInv, ToldAlike DEF JournalInv
<1> QED
  BY <1>9, <1>10, KeptInv

LEMMA PostKept ==
  ASSUME JournalInv, NEW may, Told \subseteq may, NEW reply \in ReplyType,
         reply.says = "id" => reply.id \in may \ Told,
         NEW breaks \in BOOLEAN, PostResult(reply, breaks)
  PROVE  Kept(may)
<1>1. CASE Accepts(reply)
  <2>0. PICK c \in Answers(reply.says, reply.id) : \E told : Takes(c, told, breaks)
    BY <1>1 DEF PostResult
  <2>1. PICK told : Takes(c, told, breaks)
    BY <2>0
  <2>2. reply.says \in Says /\ reply.id \in Nat
    BY DEF ReplyType
  <2>3. memory.slot # NoSlot
    BY <1>1, ConstantsTyped DEF Accepts
  <2>4. healthy /\ TypeInv
    BY <2>3 DEF JournalInv, HealthyInv
  <2>5. InStep(may) /\ InStep(Told)
    BY <2>4, HealthyInStep
  <2>6. Acceptable(reply.says, reply.id, may)
    <3> DEFINE v == View(Base(journal).known)
    <3>1. Ids(v.known) \subseteq Told /\ Handles(v) \subseteq v.known
      BY <2>5 DEF InStep, Durable, Sound
    <3> HIDE DEF v
    <3>2. Ids(Handles(v)) \subseteq Told
      BY <3>1 DEF Ids
    <3> QED
      BY <3>2 DEF Acceptable, Fresh, v
  <2>7. Lands(c, may)
    BY <2>1, <2>2, <2>3, <2>5, <2>6, AnswersLand
  <2> QED
    BY <2>1, <2>4, <2>7, TakesKept
<1>2. CASE ~Accepts(reply)
  <2>1. UNCHANGED <<memory, journalVars>>
    BY <1>2 DEF PostResult
  <2> QED
    BY <2>1, StillKept
<1> QED
  BY <1>1, <1>2

LEMMA ExecutesKept ==
  ASSUME JournalInv, BridgeExecutes
  PROVE  JournalInv'
<1> DEFINE command == bridge.command
<1>1. PICK does \in BOOLEAN, delayed \in BOOLEAN, breaks \in BOOLEAN,
           says \in {"id", "true", "false", "other", "failure"} :
        LET reply == Reply(command, says, IF says = "id" THEN nextId ELSE 0, bridge.lease)
        IN  /\ Possible(command, does, says)
            /\ Executes(command, does)
            /\ IF delayed
               THEN late' = reply /\ ~breaks /\ UNCHANGED <<memory, journalVars, granted>>
               ELSE PostResult(reply, breaks) /\ UNCHANGED late
  BY DEF BridgeExecutes
<1> DEFINE reply == Reply(command, says, IF says = "id" THEN nextId ELSE 0, bridge.lease)
<1>2. /\ TypeInv' /\ nextId \in Nat \ {0} /\ bridge.lease \in Nat /\ command \in CommandType /\ late.id \in Nat
  BY ExecuteInv DEF JournalInv, TypeInv, StateTypeOK, ReplyType
<1>3. reply \in ReplyType /\ reply.says = says /\ (says = "id" => reply.id = nextId)
  BY <1>2 DEF Reply, ReplyType, Says
<1>4. nextId' \in {nextId, nextId + 1} /\ (says = "id" => nextId' = nextId + 1)
  BY <1>1, <1>2 DEF Possible, Sensible, Executes, terminalVars
<1>5. \/ late' = reply /\ UNCHANGED <<memory, journalVars>>
      \/ PostResult(reply, breaks) /\ late' = late
  BY <1>1
<1> DEFINE may == Told'
<1> HIDE DEF reply, command
<1>6. CASE late' = reply /\ UNCHANGED <<memory, journalVars>>
  <2>1. Told \subseteq may /\ LateInv'
    BY <1>2, <1>3, <1>4, <1>6 DEF Told, LateInv
  <2> HIDE DEF may
  <2>2. Kept(may)
    BY <1>6, <2>1, StillKept
  <2> QED
    BY <1>2, <2>1, <2>2, KeptInv DEF may
<1>7. CASE PostResult(reply, breaks) /\ late' = late
  <2>0. LateInv
    BY DEF JournalInv
  <2>1. Told \subseteq may /\ LateInv' /\ (says = "id" => nextId \in may \ Told)
    <3>1. may = {i \in 1..nextId' - 1 : late.says = "id" => i # late.id}
      BY <1>7 DEF Told
    <3>2. late.says = "id" => late.id \in 1..nextId - 1
      BY <2>0 DEF LateInv
    <3>3. nextId \in Nat \ {0} /\ nextId' \in {nextId, nextId + 1} /\ late.id \in Nat
      BY <1>2, <1>4
    <3> HIDE DEF may
    <3>4. Told \subseteq may
      BY <3>1, <3>3 DEF Told
    <3>5. LateInv'
      BY <1>7, <3>2, <3>3 DEF LateInv
    <3>6. says = "id" => nextId \in may /\ nextId \notin Told
      BY <1>4, <3>1, <3>2, <3>3 DEF Told
    <3> QED
      BY <3>4, <3>5, <3>6
  <2> HIDE DEF may
  <2>2. Kept(may)
    BY <1>3, <1>7, <2>1, PostKept
  <2> QED
    BY <1>2, <2>1, <2>2, KeptInv DEF may
<1> QED
  BY <1>5, <1>6, <1>7

LEMMA LateReplyKept ==
  ASSUME JournalInv, LateReply
  PROVE  JournalInv'
<1>1. PICK breaks \in BOOLEAN : PostResult(late, breaks)
  BY DEF LateReply
<1>2. late \in ReplyType /\ late' = NoReply /\ nextId' = nextId /\ TypeInv'
  BY LateReplyInv DEF LateReply, terminalVars, JournalInv, TypeInv, StateTypeOK
<1>3. NoReply.says # "id"
  BY DEF NoReply, Reply
<1>4. LateInv
  BY DEF JournalInv
<1> DEFINE may == Told'
<1>5. Told \subseteq may /\ LateInv' /\ (late.says = "id" => late.id \in may \ Told)
  BY <1>2, <1>3, <1>4 DEF Told, LateInv
<1> HIDE DEF may
<1>6. Kept(may)
  BY <1>1, <1>2, <1>5, PostKept
<1> QED
  BY <1>2, <1>5, <1>6, KeptInv DEF may

\* A registry read from the journal.
LEMMA ReplayViewed ==
  ASSUME TypeInv, NEW k, k = Replay(journal)
  PROVE  /\ k \in KnownType /\ View(k) = View(Base(journal).known)
<1> DEFINE s == After(Confirmed(journal), journal)
           b == Base(journal)
           cancels == {p.id : p \in {x \in s.pending : x.method = "cancel"}}
<1>1. s \in ReplayType /\ Same(s, b) /\ k = Settled(s)
  BY NumbersTyped, ReplayIsAfter DEF Readable
<1>2. b \in ReplayType
  BY BaseTyped
<1> HIDE DEF s, b
<1>3. k \in KnownType
  BY <1>1, SettledTyped
<1>4. s.known \in KnownType /\ s.known.candidates \in SUBSET CandidateType
  BY <1>1 DEF ReplayType, KnownType
<1>5. /\ k.whole = s.known.whole /\ k.singles = s.known.singles
      /\ k.candidates = Tried(s.known.candidates, cancels)
  BY <1>1, <1>4 DEF Settled, KnownType
<1>6. HandlesOf(k.candidates) = HandlesOf(s.known.candidates)
  BY <1>4, <1>5, HandlesOfTried
<1>7. /\ s.known.whole = b.known.whole /\ s.known.singles = b.known.singles
      /\ s.known.candidates = b.known.candidates
  BY <1>1 DEF Same
<1> QED
  BY <1>3, <1>5, <1>6, <1>7 DEF View, b

LEMMA RestoredKept ==
  ASSUME TypeInv, NEW k \in KnownType, NEW l, View(k) = View(l), NEW pending
  PROVE  /\ Reads(Restored(k), l) /\ TodoInv(Restored(k)) /\ SlotInv(Restored(k), pending)
         /\ Restored(k).slot = NoSlot
<1> DEFINE m == Restored(k)
<1>1. /\ m.slot = NoSlot /\ m.task = NoTask /\ m.whole = k.whole /\ m.singles = k.singles
      /\ m.candidates = k.candidates /\ (~m.required => m.candidates = {})
  BY RestoredTyped
<1> HIDE DEF m
<1>2. View(m) = View(l)
  BY <1>1 DEF View
<1>3. Reads(m, l)
  BY <1>1, <1>2, ConstantsTyped, ReadsViewed
<1> QED
  BY <1>1, <1>3, ConstantsTyped DEF TodoInv, SlotInv, m

LEMMA DatasourceKept ==
  ASSUME JournalInv, DatasourceRestart
  PROVE  JournalInv'
<1> DEFINE k == IF intact THEN Replay(journal) ELSE Unknown(Forgotten)
           m == Restored(k)
<1>0. TypeInv /\ TypeInv'
  BY DatasourceInv DEF JournalInv
<1>1. \/ memory' = m /\ journal' = journal
      \/ memory' = Unlocked(m) /\ journal' = Append(journal, Observation) /\ intact
  BY DEF DatasourceRestart
<1>2. k \in KnownType /\ (intact => View(k) = View(Base(journal).known))
  BY <1>0, ForgottenTyped, ReplayViewed
<1>3. /\ healthy' = intact /\ intact' = intact /\ UNCHANGED <<late, nextId>>
  BY DEF DatasourceRestart, terminalVars
<1>4. Told' = Told /\ LateInv'
  BY <1>3, ToldAlike DEF JournalInv
<1> HIDE DEF k
<1>5. CASE memory' = m /\ journal' = journal
  <2>1. Kept(Told)
    <3>1. CASE intact
      BY <1>0, <1>2, <1>3, <1>5, <3>1, RestoredKept DEF Kept, JournalInv, DurableInv
    <3>2. CASE ~intact
      BY <1>2, <1>3, <1>5, <3>2, RestoredTyped DEF Kept
    <3> QED
      BY <3>1, <3>2
  <2> QED
    BY <1>0, <1>4, <2>1, KeptInv
<1>6. CASE memory' = Unlocked(m) /\ journal' = Append(journal, Observation) /\ intact
  <2> DEFINE n == Unlocked(m)
  <2>1. Base(journal') = Blank
    <3>1. Base(Append(journal, Observation)) = Step(Base(journal), Observation)
      BY <1>0, NumbersTyped, RecordsTyped, AfterAppend DEF Base, Step
    <3> QED
      BY <1>6, <3>1, RecordsTyped, StepObserved
  <2>2. m \in MemoryType /\ m.slot = NoSlot /\ m.task = NoTask
    BY <1>2, RestoredTyped
  <2> HIDE DEF m
  <2>3. /\ n.slot = NoSlot /\ n.task = NoTask /\ n.candidates = {} /\ n.whole = NoWhole
        /\ n.singles = [s \in Symbols |-> 0]
    BY <2>2, UnlockedTyped
  <2> HIDE DEF n
  <2>4. View(n) = View(Blank.known)
    BY <2>3, BlankDurable DEF View
  <2>5. Reads(n, Blank.known) /\ TodoInv(n) /\ SlotInv(n, Blank.pending)
    BY <2>3, <2>4, ConstantsTyped, ReadsViewed DEF TodoInv, SlotInv
  <2>6. Kept(Told)
    BY <1>3, <1>6, <2>1, <2>5, BlankDurable DEF Kept, n
  <2> QED
    BY <1>0, <1>4, <2>6, KeptInv
<1> QED
  BY <1>1, <1>5, <1>6

LEMMA TerminalKept ==
  ASSUME JournalInv, TerminalRestart, ~IdsRestart
  PROVE  JournalInv'
<1>1. UNCHANGED <<memory, journalVars>> /\ UNCHANGED <<late, nextId>>
  BY DEF TerminalRestart
<1>2. Told' = Told /\ LateInv' /\ TypeInv'
  BY <1>1, ToldAlike, TerminalInv DEF JournalInv
<1>3. Kept(Told)
  BY <1>1, StillKept
<1> QED
  BY <1>2, <1>3, KeptInv

LEMMA JournalInvInit == Init => JournalInv
<1> SUFFICES ASSUME Init PROVE JournalInv
  OBVIOUS
<1>1. TypeInv /\ memory = Restored(Forgotten) /\ journal = <<>> /\ healthy /\ late = NoReply
  BY TypeInvInit DEF Init
<1>2. Base(journal) = Blank
  BY <1>1, AfterNothing DEF Base
<1>3. Blank.known = Forgotten /\ NoReply.says # "id"
  BY DEF Blank, NoReply, Reply
<1>4. Durable(Base(journal), Told)
  BY <1>2, BlankDurable
<1>5. Reads(memory, Base(journal).known) /\ TodoInv(memory) /\ SlotInv(memory, Base(journal).pending)
  BY <1>1, <1>2, <1>3, ForgottenTyped, RestoredKept
<1> QED
  BY <1>1, <1>3, <1>4, <1>5 DEF JournalInv, LateInv, DurableInv, HealthyInv

LEMMA JournalInvNext ==
  ASSUME JournalInv, [Next]_vars, ~IdsRestart
  PROVE  JournalInv'
<1>1. CASE UNCHANGED vars
  <2>1. UNCHANGED <<memory, journalVars>> /\ UNCHANGED <<late, nextId>>
    BY <1>1 DEF vars, terminalVars
  <2>2. Told' = Told /\ LateInv' /\ TypeInv'
    BY <2>1, ToldAlike, TypeInvNext DEF JournalInv
  <2> QED
    BY <2>1, <2>2, StillKept, KeptInv
<1>2. CASE Next
  BY <1>2, SubscribeKept, UnsubscribeKept, SyncKept, ReconcileKept, TimesOutKept, RegisterKept, PollKept,
     ExecutesKept, LateReplyKept, DatasourceKept, TerminalKept DEF Next
<1> QED
  BY <1>1, <1>2

\* The registry agrees with the journal, and what the journal says is sound,
\* also of what a crash in the middle of a step leaves of it, if a new terminal
\* does not give out the ids of the last one again.
THEOREM SubscriptionInductive == ~IdsRestart => (Spec => []JournalInv)
<1> SUFFICES ASSUME ~IdsRestart PROVE Spec => []JournalInv
  OBVIOUS
<1>1. JournalInv /\ [Next]_vars => JournalInv'
  BY JournalInvNext
<1> QED
  BY <1>1, JournalInvInit, PTL DEF Spec

\* The registry is what a restart would restore from the journal, as long as the
\* journal takes records (_restore_startup_state).
THEOREM RegistryIsReplayed == ~IdsRestart => (Spec => []JournalAgrees)
<1> SUFFICES ASSUME ~IdsRestart PROVE Spec => []JournalAgrees
  OBVIOUS
<1>1. JournalInv => JournalAgrees
  <2> SUFFICES ASSUME JournalInv, healthy
               PROVE  memory.whole = Now.whole /\ memory.singles = Now.singles
    BY DEF JournalAgrees
  <2>1. View(Now) = View(Base(journal).known)
    BY ReplayViewed DEF Now, JournalInv
  <2>2. Reads(memory, Base(journal).known)
    BY DEF JournalInv, HealthyInv
  <2> QED
    BY <2>1, <2>2 DEF View, Reads
<1> QED
  BY <1>1, SubscriptionInductive, PTL
=============================================================================
