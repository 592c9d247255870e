------------------------- MODULE QmtOwnershipProofs -------------------------
(***************************************************************************)
(* Proofs about QmtSubscription: nothing the terminal holds is forgotten,  *)
(* what was granted is owned, and no symbol is subscribed to twice, but    *)
(* for what an automatic unlock has written off while it lived.            *)
(*                                                                         *)
(* QmtSubscriptionProofs shows that journal and registry agree.  Here both *)
(* are compared with the terminal.  A subscription the terminal has is     *)
(* guarded by the journal (Guarded): its id is a candidate of the replay,  *)
(* or a subscription is pending in it whose callSequence lies beyond those *)
(* a recovery uses, so that no result of the recovery passes for its own   *)
(* and the latch stays.  While the controller is healthy it also owns what *)
(* it answers for (OwnerInv).  Both rest on ids given out once (IdInv).    *)
(* Each is shown of a course first, by the kinds of step a course is made  *)
(* of, and then of every action.                                           *)
(***************************************************************************)
EXTENDS QmtSubscriptionProofs

-----------------------------------------------------------------------------
(* Nothing the terminal has is forgotten.                                  *)

\* The candidates a restart would cancel, and how many.
Untried(candidates) == HandlesOf({c \in candidates : ~c.tried})
Left(s) == Cardinality(Untried(s.known.candidates))
Known(s) == HandlesOf(s.known.candidates)

\* The ids hs are among the candidates, or a subscription is pending, under a
\* callSequence beyond n and beyond what the recovery of the candidates uses.
Finds(s, hs) == hs \subseteq Ids(Known(s))
Open(s, p, n) == p \in s.pending /\ p.method # "cancel" /\ p.seq > n /\ p.seq > Left(s)
Guarded(s, hs, n) == Finds(s, hs) \/ \E p \in s.pending : Open(s, p, n)

\* The callSequences up to which the recovery goes.
Reach(m) ==
  IF m.phase = "not_started" THEN Cardinality(Untried(m.candidates))
  ELSE m.seq + Cardinality(m.task.todo)
Waits(m) == IF m.slot = NoSlot THEN 0 ELSE 1

\* The controller takes requests only while the candidates of the journal are
\* its registry, and each of them took a call of this run of the datasource.
Owns(m, s, hs) ==
  IF m.required
  THEN IsFiniteSet(m.task.todo) /\ Guarded(s, hs, Reach(m)) /\ (m.unknown = 0 => Finds(s, hs))
  ELSE /\ m.unknown = 0 /\ Finds(s, hs) /\ Known(s) \subseteq Handles(m)
       /\ Cardinality(Known(s)) + Waits(m) <= m.seq

\* What a request has found before it calls the terminal.
Doing(m) == IF m.slot.method = "cancel" THEN {Handle(m.slot.id, m.slot.about)} ELSE {}
HasSymbol(m, s) == s \in m.whole.symbols \/ m.singles[s] # 0
TaskInv(m, top) ==
  /\ m.phase = "not_started" => m.seq = 0
  /\ m.task.kind = "unsubscribe" => m.task.desired = {}
  /\ m.task.kind = "sync" /\ ~m.task.failed => Handles(m) \subseteq m.task.todo \cup Doing(m)
  /\ m.slot.id < top /\ \A h \in m.task.todo : h.id < top
CallsFor(m, pending) ==
  /\ m.slot.method = "whole" => Handles(m) = {}
  /\ m.slot.method = "single" => \A s \in m.slot.about : ~HasSymbol(m, s)
  /\ m.slot.method \in {"whole", "single"} => IntentOf(m.slot) \in pending

\* Ids are never given out twice, and a confirmed cancel has left nothing.
IdInv ==
  /\ Ids(live) \cup granted \subseteq 1..nextId - 1
  /\ granted \subseteq Told
  /\ OneEach(live)
  /\ bridge.command.id < nextId /\ late.call.id < nextId
  /\ late.says \in {"true", "false"} /\ late.call.method = "cancel" => late.call.id \notin Ids(live)
  /\ late.says = "id" => /\ late.call.method # "cancel"
                         /\ \A h \in live : h.id = late.id => h.about = late.call.about

Recoverable ==
  /\ IsFiniteSet(Known(Base(journal)))
  /\ intact => Guarded(Base(journal), Ids(Held), 0)
OwnerInv ==
  healthy => /\ Owns(memory, Base(journal), Ids(Held))
             /\ TaskInv(memory, nextId) /\ CallsFor(memory, Base(journal).pending)
OwnInv == JournalInv /\ IdInv /\ Recoverable /\ OwnerInv

\* Records that add no candidate, and the id each of them takes away.
Quiet(r) ==
  \/ r.kind \in {"native_intent", "recovery_result", "recovery_intent", "recovery_terminal"}
  \/ r.kind = "native_result" /\ r.what # "id"
  \/ r.kind = "registry_transition" /\ r.what = "unsubscribed"
IsCall(r) == r.kind \in {"native_intent", "native_result"}
Removes(s, r, x) ==
  \/ /\ r.kind = "recovery_terminal" \/ (r.kind = "registry_transition" /\ r.what = "unsubscribed")
     /\ x = r.id
  \/ /\ r.kind = "native_result" /\ r.what = "false"
     /\ \E p \in s.pending : p.seq = r.seq /\ p.method = "cancel" /\ p.id = x

LEMMA ResolvedCandidates ==
  ASSUME NEW m \in KnownType, NEW id \in Nat
  PROVE  Resolved(m, id).candidates \in {m.candidates, WithoutId(m.candidates, id)}
<1>1. CASE id \notin Ids(m.candidates)
  BY <1>1 DEF Resolved
<1>2. CASE id \in Ids(m.candidates)
  <2> DEFINE c == CHOOSE x \in m.candidates : x.id = id
             w == IF c.about = {} /\ m.whole.id = id THEN NoWhole ELSE m.whole
             ss == [s \in Symbols |-> IF s \in c.about /\ m.singles[s] = id THEN 0 ELSE m.singles[s]]
             rt == m.retained \ {Handle(id, c.about)}
  <2>1. Resolved(m, id) = [m EXCEPT !.candidates = WithoutId(m.candidates, id), !.whole = w,
                                    !.singles = ss, !.retained = rt]
    BY <1>2 DEF Resolved
  <2> HIDE DEF w, ss, rt
  <2> QED
    BY <2>1 DEF KnownType
<1> QED
  BY <1>1, <1>2

LEMMA AttemptCandidates ==
  ASSUME NEW m \in KnownType, NEW id \in Nat
  PROVE  ReplayedAttempt(m, id, {}).candidates \in {m.candidates, Tried(m.candidates, {id})}
<1>1. Unknown(m).candidates = m.candidates
  BY DEF Unknown, KnownType
<1>2. [m EXCEPT !.candidates = Tried(@, {id})].candidates = Tried(m.candidates, {id})
  BY DEF KnownType
<1> QED
  BY <1>1, <1>2 DEF ReplayedAttempt

\* What a quiet record makes of the candidates and of the calls that are pending.
LEMMA QuietStep ==
  ASSUME NEW s \in ReplayType, NEW r \in RecordType, Quiet(r)
  PROVE  /\ \/ Step(s, r).known.candidates = s.known.candidates
            \/ Step(s, r).known.candidates = Tried(s.known.candidates, {r.id})
            \/ \E x \in Nat : /\ Removes(s, r, x)
                              /\ Step(s, r).known.candidates = WithoutId(s.known.candidates, x)
         /\ \A p \in s.pending : (IsCall(r) => p.seq # r.seq) => p \in Step(s, r).pending
<1> DEFINE k == s.known
<1>0. /\ k \in KnownType /\ s.pending \in SUBSET IntentType
      /\ s = [known |-> k, pending |-> s.pending] /\ r.id \in Nat
  BY DEF ReplayType, RecordType
<1>1. CASE r.kind = "native_intent"
  <2>1. Step(s, r) = [s EXCEPT !.pending = Intended(s, r)]
    BY <1>0, <1>1 DEF Step, ReplayedRecord, Intended, Intent
  <2>2. Step(s, r).known = k /\ Step(s, r).pending = Intended(s, r)
    BY <2>1 DEF ReplayType
  <2> QED
    BY <1>1, <2>2 DEF Intended, IsCall
<1>2. CASE r.kind = "recovery_result"
  BY <1>2, StepNothing
<1>3. CASE r.kind = "recovery_intent"
  <2>1. Step(s, r) = [s EXCEPT !.known = ReplayedAttempt(k, r.id, {})]
    BY <1>3 DEF Step, ReplayedRecord
  <2>2. Step(s, r).known = ReplayedAttempt(k, r.id, {}) /\ Step(s, r).pending = s.pending
    BY <2>1 DEF ReplayType
  <2> QED
    BY <1>0, <2>2, AttemptCandidates
<1>4. CASE r.kind = "recovery_terminal" \/ (r.kind = "registry_transition" /\ r.what = "unsubscribed")
  <2>1. Step(s, r) = [s EXCEPT !.known = Resolved(k, r.id)]
    BY <1>4 DEF Step, ReplayedRecord, ReplayedTransition
  <2>2. Step(s, r).known = Resolved(k, r.id) /\ Step(s, r).pending = s.pending
    BY <2>1 DEF ReplayType
  <2>3. Removes(s, r, r.id)
    BY <1>4 DEF Removes
  <2> QED
    BY <1>0, <2>2, <2>3, ResolvedCandidates
<1>5. CASE r.kind = "native_result" /\ r.what # "id" /\ ~\E p \in s.pending : p.seq = r.seq
  <2>1. Step(s, r) = [s EXCEPT !.known = Unknown(k)]
    BY <1>5 DEF Step, ReplayedRecord
  <2>2. Step(s, r).known = Unknown(k) /\ Step(s, r).pending = s.pending
    BY <2>1 DEF ReplayType
  <2>3. Unknown(k).candidates = k.candidates
    BY <1>0 DEF Unknown, KnownType
  <2> QED
    BY <2>2, <2>3
<1>6. CASE r.kind = "native_result" /\ r.what # "id" /\ \E p \in s.pending : p.seq = r.seq
  <2> DEFINE i == About(s, r)
  <2>1. i \in s.pending /\ i.seq = r.seq /\ i \in IntentType
    BY <1>0, <1>6 DEF About
  <2>2. Step(s, r) = [known |-> ReplayedResult(k, i, r.what, r.id), pending |-> s.pending \ {i}]
    BY <1>6 DEF Step, ReplayedRecord, About
  <2>3. Step(s, r).known = ReplayedResult(k, i, r.what, r.id) /\ Step(s, r).pending = s.pending \ {i}
    BY <2>2
  <2> HIDE DEF i
  <2>4. \A p \in s.pending : p.seq # r.seq => p \in Step(s, r).pending
    BY <2>1, <2>3
  <2>5. CASE i.method = "cancel" /\ r.what = "false"
    <3>1. Step(s, r).known = Resolved(k, i.id) /\ i.id \in Nat
      BY <2>1, <2>3, <2>5 DEF ReplayedResult, IntentType
    <3>2. Removes(s, r, i.id)
      BY <1>6, <2>1, <2>5 DEF Removes
    <3> QED
      BY <1>0, <1>6, <2>4, <3>1, <3>2, ResolvedCandidates DEF IsCall
  <2>6. CASE ~(i.method = "cancel" /\ r.what = "false")
    <3>1. Step(s, r).known \in {k, Unknown(k)}
      BY <1>6, <2>3, <2>6 DEF ReplayedResult
    <3>2. Unknown(k).candidates = k.candidates
      BY <1>0 DEF Unknown, KnownType
    <3> QED
      BY <1>6, <2>4, <3>1, <3>2 DEF IsCall
  <2> QED
    BY <2>5, <2>6
<1> QED
  BY <1>1, <1>2, <1>3, <1>4, <1>5, <1>6 DEF Quiet

LEMMA UntriedLess ==
  ASSUME NEW cs \in SUBSET CandidateType
  PROVE  /\ Untried(cs) \subseteq HandlesOf(cs)
         /\ \A ids : Untried(Tried(cs, ids)) \subseteq Untried(cs)
         /\ \A x : Untried(WithoutId(cs, x)) \subseteq Untried(cs)
<1>1. Untried(cs) \subseteq HandlesOf(cs)
  BY DEF Untried, HandlesOf
<1>2. ASSUME NEW ids, NEW h \in Untried(Tried(cs, ids)) PROVE h \in Untried(cs)
  <2>1. PICK d \in Tried(cs, ids) : ~d.tried /\ h = Handle(d.id, d.about)
    BY <1>2 DEF Untried, HandlesOf
  <2>2. PICK c \in cs : d.id = c.id /\ d.about = c.about /\ (d.tried <=> c.tried \/ c.id \in ids)
    BY <2>1, TriedTyped
  <2>3. ~c.tried
    BY <2>1, <2>2
  <2> QED
    BY <2>1, <2>2, <2>3 DEF Untried, HandlesOf
<1>3. \A x : Untried(WithoutId(cs, x)) \subseteq Untried(cs)
  BY DEF Untried, HandlesOf, WithoutId
<1> QED
  BY <1>1, <1>2, <1>3

\* A quiet record adds nothing, and takes the recovery no further.
LEMMA QuietLess ==
  ASSUME NEW s \in ReplayType, NEW r \in RecordType, Quiet(r), IsFiniteSet(Known(s))
  PROVE  /\ Known(Step(s, r)) \subseteq Known(s) /\ IsFiniteSet(Known(Step(s, r)))
         /\ Left(s) \in Nat /\ Left(Step(s, r)) \in Nat /\ Left(Step(s, r)) <= Left(s)
         /\ \A h \in Known(s) : (\A x : Removes(s, r, x) => h.id # x) => h \in Known(Step(s, r))
<1> DEFINE cs == s.known.candidates
           ds == Step(s, r).known.candidates
<1>0. cs \in SUBSET CandidateType
  BY DEF ReplayType, KnownType
<1>1. \/ ds = cs
      \/ ds = Tried(cs, {r.id})
      \/ \E x \in Nat : Removes(s, r, x) /\ ds = WithoutId(cs, x)
  BY QuietStep
<1> HIDE DEF cs, ds
<1>2. /\ HandlesOf(ds) \subseteq HandlesOf(cs) /\ Untried(ds) \subseteq Untried(cs)
      /\ \A h \in HandlesOf(cs) : (\A x : Removes(s, r, x) => h.id # x) => h \in HandlesOf(ds)
  <2>1. CASE ds = cs
    BY <2>1
  <2>2. CASE ds = Tried(cs, {r.id})
    BY <1>0, <2>2, HandlesOfTried, UntriedLess
  <2>3. ASSUME NEW x \in Nat, Removes(s, r, x), ds = WithoutId(cs, x)
        PROVE  /\ HandlesOf(ds) \subseteq HandlesOf(cs) /\ Untried(ds) \subseteq Untried(cs)
               /\ \A h \in HandlesOf(cs) : (\A y : Removes(s, r, y) => h.id # y) => h \in HandlesOf(ds)
    <3>1. HandlesOf(ds) = WithoutId(HandlesOf(cs), x) /\ Untried(ds) \subseteq Untried(cs)
      BY <1>0, <2>3, HandlesOfWithout, UntriedLess
    <3> QED
      BY <2>3, <3>1 DEF WithoutId
  <2> QED
    BY <1>1, <2>1, <2>2, <2>3
<1>3. Untried(cs) \subseteq HandlesOf(cs)
  BY <1>0, UntriedLess
<1>4. IsFiniteSet(HandlesOf(cs)) /\ HandlesOf(cs) = Known(s) /\ HandlesOf(ds) = Known(Step(s, r))
      /\ Left(s) = Cardinality(Untried(cs)) /\ Left(Step(s, r)) = Cardinality(Untried(ds))
  BY DEF Known, Left, cs, ds
<1>5. IsFiniteSet(HandlesOf(ds)) /\ IsFiniteSet(Untried(cs))
  BY <1>2, <1>3, <1>4, FS_Subset
<1>6. IsFiniteSet(Untried(ds)) /\ Cardinality(Untried(ds)) <= Cardinality(Untried(cs))
  BY <1>2, <1>5, FS_Subset
<1>7. Cardinality(Untried(ds)) \in Nat /\ Cardinality(Untried(cs)) \in Nat
  BY <1>5, <1>6, FS_CardinalityType
<1> QED
  BY <1>2, <1>4, <1>5, <1>6, <1>7

LEMMA QuietFinds ==
  ASSUME NEW s \in ReplayType, NEW r \in RecordType, Quiet(r), IsFiniteSet(Known(s)), NEW hs, Finds(s, hs),
         \A x : Removes(s, r, x) => x \notin hs
  PROVE  Finds(Step(s, r), hs)
<1>1. \A h \in Known(s) : h.id \in hs => h \in Known(Step(s, r))
  BY QuietLess
<1>2. \A i \in hs : \E h \in Known(s) : h.id = i
  BY DEF Finds, Ids
<1> QED
  BY <1>1, <1>2 DEF Finds, Ids

LEMMA QuietGuarded ==
  ASSUME NEW s \in ReplayType, NEW r \in RecordType, Quiet(r), IsFiniteSet(Known(s)), NEW hs, NEW n \in Nat,
         Guarded(s, hs, n), IsCall(r) => r.seq <= n, \A x : Removes(s, r, x) => x \notin hs
  PROVE  Guarded(Step(s, r), hs, n)
<1>1. CASE Finds(s, hs)
  BY <1>1, QuietFinds DEF Guarded
<1>2. CASE \E p \in s.pending : Open(s, p, n)
  <2>1. PICK p \in s.pending : Open(s, p, n)
    BY <1>2
  <2>2. p.seq \in Nat /\ r.seq \in Nat
    BY DEF ReplayType, IntentType, RecordType
  <2>3. p.method # "cancel" /\ p.seq > n /\ p.seq > Left(s)
    BY <2>1 DEF Open
  <2>4. p \in Step(s, r).pending
    <3>1. IsCall(r) => p.seq # r.seq
      BY <2>2, <2>3
    <3> QED
      BY <3>1, QuietStep
  <2>5. p.seq > Left(Step(s, r))
    BY <2>2, <2>3, QuietLess
  <2> QED
    BY <2>3, <2>4, <2>5 DEF Guarded, Open
<1> QED
  BY <1>1, <1>2 DEF Guarded

-----------------------------------------------------------------------------
(* What the courses write, and what is found in it.                        *)

\* What is found after each record of a course; what the terminal has of the ids
\* hs is over once the observation is written.
Still(records, hs) == IF Observation \in ToSet(records) THEN {} ELSE hs
WatchedTo(c, hs, n) ==
  LET rs == SubSeq(c.records, 1, n)
  IN  IsFiniteSet(Known(Base(journal \o rs))) /\ Guarded(Base(journal \o rs), Still(rs, hs), 0)
Watched(c, hs) == \A n \in Nat : n <= Len(c.records) => WatchedTo(c, hs, n)
Safe(c, hs, n) == c.records \in Seq(RecordType) /\ Watched(c, hs) /\ Guarded(At(c), hs, n)
Less(c, d, hs) == (Finds(At(c), hs) => Finds(At(d), hs)) /\ Known(At(d)) \subseteq Known(At(c))

LEMMA GuardedLess ==
  ASSUME NEW s \in ReplayType, NEW hs, NEW n \in Nat, Guarded(s, hs, n)
  PROVE  /\ \A some : some \subseteq hs => Guarded(s, some, n)
         /\ \A k \in Nat : k <= n => Guarded(s, hs, k)
<1>1. \A some : some \subseteq hs => (Finds(s, hs) => Finds(s, some))
  BY DEF Finds
<1>2. \A p \in s.pending, k \in Nat : k <= n /\ Open(s, p, n) => Open(s, p, k)
  <2>1. \A p \in s.pending : p.seq \in Nat
    BY DEF ReplayType, IntentType
  <2> QED
    BY <2>1 DEF Open
<1> QED
  BY <1>1, <1>2 DEF Guarded

LEMMA FoundGuards ==
  ASSUME NEW s, NEW hs, Finds(s, hs), NEW n
  PROVE  Guarded(s, hs, n)
  BY DEF Guarded

LEMMA AtIsTyped ==
  ASSUME TypeInv, NEW c, c.records \in Seq(RecordType)
  PROVE  /\ At(c) \in ReplayType
         /\ SubSeq(c.records, 1, Len(c.records)) = c.records /\ Len(c.records) \in Nat
<1> DEFINE n == Len(c.records)
<1>1. n \in Nat /\ n <= Len(c.records) /\ SubSeq(c.records, 1, n) = c.records
  OBVIOUS
<1> HIDE DEF n
<1>2. Readable(journal \o SubSeq(c.records, 1, n))
  BY <1>1, NumbersTyped, ReadableConcat
<1> QED
  BY <1>1, <1>2 DEF At, Readable, Base, n

LEMMA WatchedAt ==
  ASSUME TypeInv, NEW c, c.records \in Seq(RecordType), NEW hs, Watched(c, hs)
  PROVE  IsFiniteSet(Known(At(c))) /\ Guarded(At(c), Still(c.records, hs), 0)
<1> DEFINE n == Len(c.records)
<1>1. n \in Nat /\ n <= Len(c.records) /\ SubSeq(c.records, 1, n) = c.records
  BY AtIsTyped
<1> HIDE DEF n
<1> QED
  BY <1>1 DEF Watched, WatchedTo, At

LEMMA StillLess ==
  ASSUME NEW rs, NEW hs
  PROVE  Still(rs, hs) \subseteq hs /\ Still(<<>>, hs) = hs
<1>1. ToSet(<<>>) = {}
  BY DEF ToSet
<1> QED
  BY <1>1 DEF Still

LEMMA WatchedNothing ==
  ASSUME TypeInv, NEW c, c.records = <<>>, NEW hs, IsFiniteSet(Known(Base(journal))), Guarded(Base(journal), hs, 0)
  PROVE  Watched(c, hs) /\ At(c) = Base(journal)
<1>1. journal \o <<>> = journal
  BY NumbersTyped
<1>2. ASSUME NEW n \in Nat, n <= Len(c.records) PROVE SubSeq(c.records, 1, n) = <<>>
  BY <1>2
<1>3. Still(<<>>, hs) = hs
  BY StillLess
<1> QED
  BY <1>1, <1>2, <1>3 DEF Watched, WatchedTo, At

LEMMA AtAppend ==
  ASSUME TypeInv, NEW c, c.records \in Seq(RecordType), NEW r \in RecordType,
         NEW d, d.records = Append(c.records, r)
  PROVE  At(d) = Step(At(c), r) /\ d.records \in Seq(RecordType)
<1>1. /\ journal \o Append(c.records, r) = Append(journal \o c.records, r)
      /\ journal \o c.records \in Seq(RecordType) /\ Append(c.records, r) \in Seq(RecordType)
  BY NumbersTyped
<1>2. Base(Append(journal \o c.records, r)) = Step(Base(journal \o c.records), r)
  BY <1>1, AfterAppend DEF Base, Step
<1> QED
  BY <1>1, <1>2 DEF At

LEMMA WatchedAppend ==
  ASSUME TypeInv, NEW c, c.records \in Seq(RecordType), NEW hs, Watched(c, hs), NEW r \in RecordType,
         NEW d, d.records = Append(c.records, r),
         IsFiniteSet(Known(At(d))), Guarded(At(d), Still(d.records, hs), 0)
  PROVE  Watched(d, hs)
<1> SUFFICES ASSUME NEW n \in Nat, n <= Len(d.records) PROVE WatchedTo(d, hs, n)
  BY DEF Watched
<1>1. Len(c.records) \in Nat /\ Len(d.records) = Len(c.records) + 1
  OBVIOUS
<1>2. CASE n = Len(c.records) + 1
  <2>1. SubSeq(d.records, 1, n) = d.records
    BY <1>1, <1>2, SubSeqAppend
  <2> QED
    BY <2>1 DEF WatchedTo, At
<1>3. CASE n # Len(c.records) + 1
  <2>1. SubSeq(d.records, 1, n) = SubSeq(c.records, 1, n) /\ n <= Len(c.records)
    BY <1>1, <1>3, SubSeqAppend
  <2> QED
    BY <2>1 DEF Watched, WatchedTo
<1> QED
  BY <1>2, <1>3

LEMMA QuietAppend ==
  ASSUME TypeInv, NEW c, NEW hs, NEW n \in Nat, Safe(c, hs, n), NEW r \in RecordType, Quiet(r),
         IsCall(r) => r.seq <= n, \A x : Removes(At(c), r, x) => x \notin hs,
         NEW d, d.records = Append(c.records, r)
  PROVE  Safe(d, hs, n) /\ Less(c, d, hs) /\ At(d) = Step(At(c), r) /\ At(d) \in ReplayType
<1>1. c.records \in Seq(RecordType) /\ Watched(c, hs) /\ Guarded(At(c), hs, n)
  BY DEF Safe
<1>2. At(c) \in ReplayType /\ IsFiniteSet(Known(At(c)))
  BY <1>1, AtIsTyped, WatchedAt
<1>3. At(d) = Step(At(c), r) /\ d.records \in Seq(RecordType)
  BY <1>1, AtAppend
<1>4. At(d) \in ReplayType
  BY <1>3, AtIsTyped
<1>5. Known(At(d)) \subseteq Known(At(c)) /\ IsFiniteSet(Known(At(d)))
  BY <1>2, <1>3, QuietLess
<1>6. Guarded(At(d), hs, n)
  BY <1>1, <1>2, <1>3, QuietGuarded
<1>7. Finds(At(c), hs) => Finds(At(d), hs)
  BY <1>2, <1>3, QuietFinds
<1>8. Guarded(At(d), Still(d.records, hs), 0)
  <2>1. Guarded(At(d), hs, 0)
    BY <1>4, <1>6, GuardedLess
  <2> QED
    BY <1>4, <2>1, GuardedLess, StillLess
<1>9. Watched(d, hs)
  BY <1>1, <1>3, <1>5, <1>8, WatchedAppend
<1> QED
  BY <1>3, <1>4, <1>5, <1>6, <1>7, <1>9 DEF Safe, Less

-----------------------------------------------------------------------------
(* The next call of a request, and of the recovery.                        *)

Ready(c, hs) ==
  Idle(c) /\ Watched(c, hs) /\ Owns(c.memory, At(c), hs) /\ TaskInv(c.memory, nextId)
Settles(c, hs) ==
  /\ Watched(c, hs) /\ Owns(c.memory, At(c), Still(c.records, hs))
  /\ TaskInv(c.memory, nextId) /\ CallsFor(c.memory, At(c).pending)

LEMMA OwnsLess ==
  ASSUME NEW m \in MemoryType, NEW s \in ReplayType, NEW hs, Owns(m, s, hs), NEW some \in SUBSET hs,
         m.phase # "not_started" \/ IsFiniteSet(Known(s))
  PROVE  Owns(m, s, some)
<1>1. Finds(s, hs) => Finds(s, some)
  BY DEF Finds
<1>2. \A n : Guarded(s, hs, n) => Guarded(s, some, n)
  BY <1>1 DEF Guarded
<1> QED
  BY <1>1, <1>2 DEF Owns

LEMMA CallingIs ==
  ASSUME NEW c, c.memory \in MemoryType, NEW method \in {"cancel", "whole", "single"}, NEW id \in Nat,
         NEW about \in SUBSET Symbols, NEW d, d = Calling(c, method, id, about)
  PROVE  \E r \in RecordType :
           /\ d.records = Append(c.records, r)
           /\ r.kind = "native_intent" /\ r.seq = c.memory.seq + 1 /\ Intent(r) = IntentOf(d.memory.slot)
           /\ d.memory.seq = c.memory.seq + 1 /\ d.memory.slot.method = method
           /\ d.memory.slot.id = id /\ d.memory.slot.about = about /\ d.memory.slot # NoSlot
           /\ d.memory.task = c.memory.task /\ d.memory.phase = c.memory.phase
           /\ d.memory.required = c.memory.required /\ d.memory.unknown = c.memory.unknown
           /\ d.memory.whole = c.memory.whole /\ d.memory.singles = c.memory.singles
           /\ Handles(d.memory) = Handles(c.memory)
<1> DEFINE seq == c.memory.seq + 1
           slot == NewSlot(seq, method, id, about)
           r == Record("native_intent", seq, method, id, about)
<1>0. c.memory.seq \in Nat /\ seq \in Nat /\ method \in Methods
  BY DEF MemoryType, Methods
<1>3. d.memory = [c.memory EXCEPT !.seq = seq, !.slot = slot] /\ d.records = Append(c.records, r)
  BY DEF Calling, Course, NewSlot
<1>4. /\ r \in RecordType /\ r.kind = "native_intent" /\ r.seq = seq
      /\ Intent(r) = IntentOf(slot) /\ slot.seq = seq /\ slot.method = method /\ slot.id = id /\ slot.about = about
  BY <1>0 DEF RecordType, Record, Kinds, Whats, Methods, NewSlot, Intent, IntentOf
<1>6. slot # NoSlot
  BY <1>0, <1>4, ConstantsTyped
<1> HIDE DEF slot, r, seq
<1>5. /\ d.memory.whole = c.memory.whole /\ d.memory.singles = c.memory.singles
      /\ d.memory.required = c.memory.required /\ d.memory.unknown = c.memory.unknown
      /\ d.memory.task = c.memory.task /\ d.memory.phase = c.memory.phase /\ d.memory.slot = slot
      /\ d.memory.seq = seq
  BY <1>0, <1>3 DEF MemoryType
<1>7. Handles(d.memory) = Handles(c.memory)
  BY <1>5 DEF Handles
<1> QED
  BY <1>3, <1>4, <1>5, <1>6, <1>7 DEF seq

\* A call is written to the journal before it is made, under a callSequence
\* that no call of which something is open has.
LEMMA CallingOwned ==
  ASSUME TypeInv, NEW c, Idle(c), NEW hs, Watched(c, hs), NEW method \in {"cancel", "whole", "single"},
         NEW id \in Nat, NEW about \in SUBSET Symbols, NEW d, d = Calling(c, method, id, about),
         IF c.memory.required
         THEN /\ IsFiniteSet(c.memory.task.todo)
              /\ Guarded(At(c), hs, c.memory.seq + 1 + Cardinality(c.memory.task.todo))
              /\ c.memory.unknown = 0 => Finds(At(c), hs)
         ELSE /\ c.memory.unknown = 0 /\ Finds(At(c), hs) /\ Known(At(c)) \subseteq Handles(c.memory)
              /\ Cardinality(Known(At(c))) <= c.memory.seq
  PROVE  /\ Watched(d, hs) /\ Owns(d.memory, At(d), Still(d.records, hs))
         /\ IntentOf(d.memory.slot) \in At(d).pending
<1> DEFINE seq == c.memory.seq + 1
           n == IF c.memory.required THEN seq + Cardinality(c.memory.task.todo) ELSE seq
<1>0. /\ c.memory \in MemoryType /\ c.memory.seq \in Nat /\ c.memory.phase # "not_started"
      /\ c.records \in Seq(RecordType)
  BY DEF Idle, TypedCourse, MemoryType
<1>1. PICK r \in RecordType :
        /\ d.records = Append(c.records, r)
        /\ r.kind = "native_intent" /\ r.seq = seq /\ Intent(r) = IntentOf(d.memory.slot)
        /\ d.memory.seq = seq /\ d.memory.slot # NoSlot
        /\ d.memory.task = c.memory.task /\ d.memory.phase = c.memory.phase
        /\ d.memory.required = c.memory.required /\ d.memory.unknown = c.memory.unknown
        /\ Handles(d.memory) = Handles(c.memory)
  BY <1>0, CallingIs, SMTT(30)
<1>2. n \in Nat /\ seq <= n
  <2>1. c.memory.required => Cardinality(c.memory.task.todo) \in Nat
    BY FS_CardinalityType
  <2> QED
    BY <1>0, <2>1
<1>3. Guarded(At(c), hs, n)
  BY FoundGuards
<1>4. Quiet(r) /\ \A x : ~Removes(At(c), r, x)
  BY <1>1 DEF Quiet, Removes
<1>5. Safe(c, hs, n)
  BY <1>0, <1>3 DEF Safe
<1> HIDE DEF n
<1>6. Safe(d, hs, n) /\ Less(c, d, hs) /\ At(d) = Step(At(c), r) /\ At(d) \in ReplayType
  BY <1>1, <1>2, <1>4, <1>5, QuietAppend
<1>7. IsFiniteSet(Known(At(c))) /\ IsFiniteSet(Known(At(d)))
  BY <1>0, <1>6, WatchedAt DEF Safe
<1>8. Cardinality(Known(At(d))) <= Cardinality(Known(At(c))) /\ Cardinality(Known(At(d))) \in Nat
      /\ Cardinality(Known(At(c))) \in Nat
  BY <1>6, <1>7, FS_Subset, FS_CardinalityType DEF Less
<1>9. Owns(d.memory, At(d), hs)
  <2>1. CASE c.memory.required
    <3>1. Reach(d.memory) = n
      BY <1>0, <1>1, <2>1 DEF Reach, n
    <3> QED
      BY <1>1, <1>6, <2>1, <3>1 DEF Owns, Safe, Less
  <2>2. CASE ~c.memory.required
    <3>1. Waits(d.memory) = 1
      BY <1>1 DEF Waits
    <3>2. Cardinality(Known(At(d))) + 1 <= d.memory.seq
      BY <1>0, <1>1, <1>8, <2>2
    <3> QED
      BY <1>1, <1>6, <2>2, <3>1, <3>2 DEF Owns, Less
  <2> QED
    BY <2>1, <2>2
<1>10. d.memory \in MemoryType
  <2>1. method \in Methods
    BY DEF Methods
  <2> QED
    BY <2>1, NumbersTyped, CallingFollows DEF Follows, TypedCourse
<1>11. Owns(d.memory, At(d), Still(d.records, hs))
  <2>1. Still(d.records, hs) \in SUBSET hs
    BY StillLess
  <2> QED
    BY <1>6, <1>7, <1>9, <1>10, <2>1, OwnsLess
<1>12. IntentOf(d.memory.slot) \in At(d).pending
  <2>1. Step(At(c), r) = [At(c) EXCEPT !.pending = Intended(At(c), r)]
    BY <1>1 DEF Step, ReplayedRecord, Intended, Intent
  <2>2. At(c) \in ReplayType
    BY <1>0, AtIsTyped
  <2>3. At(d).pending = Intended(At(c), r)
    BY <1>6, <2>1, <2>2 DEF ReplayType
  <2> QED
    BY <1>1, <2>3 DEF Intended
<1> QED
  BY <1>6, <1>11, <1>12 DEF Safe

LEMMA NobodyWaits == \A m : m.slot = NoSlot => Waits(m) = 0 /\ Doing(m) = {}
<1>1. NoSlot.method = "none"
  BY DEF NoSlot
<1> QED
  BY <1>1 DEF Waits, Doing

\* A request that is over.
LEMMA EndedSettles ==
  ASSUME TypeInv, NEW c, NEW hs, c.memory \in MemoryType, c.records \in Seq(RecordType), Watched(c, hs),
         ~c.memory.required, c.memory.unknown = 0, Finds(At(c), hs), Known(At(c)) \subseteq Handles(c.memory),
         Cardinality(Known(At(c))) <= c.memory.seq, c.memory.phase # "not_started",
         NEW d, d.memory = Ended(c.memory), d.records = c.records
  PROVE  Settles(d, hs)
<1>1. /\ d.memory.slot = NoSlot /\ d.memory.task = NoTask /\ d.memory.seq = c.memory.seq
      /\ d.memory.phase = c.memory.phase /\ ~d.memory.required /\ d.memory.unknown = 0
      /\ d.memory.whole = c.memory.whole /\ d.memory.singles = c.memory.singles /\ d.memory \in MemoryType
  BY EndedTyped
<1>2. Handles(d.memory) = Handles(c.memory)
  BY <1>1 DEF Handles
<1>3. At(d) = At(c) /\ Watched(d, hs)
  BY DEF At, Watched, WatchedTo
<1>4. c.memory.seq \in Nat /\ IsFiniteSet(Known(At(c))) /\ At(c) \in ReplayType
  BY WatchedAt, AtIsTyped DEF MemoryType
<1>5. Owns(d.memory, At(d), hs)
  <2>1. Cardinality(Known(At(c))) \in Nat
    BY <1>4, FS_CardinalityType
  <2>2. Waits(d.memory) = 0
    BY <1>1, NobodyWaits
  <2>3. Cardinality(Known(At(c))) + Waits(d.memory) <= d.memory.seq
    BY <1>1, <1>4, <2>1, <2>2
  <2> QED
    BY <1>1, <1>2, <1>3, <2>3 DEF Owns
<1>6. Owns(d.memory, At(d), Still(d.records, hs))
  <2>1. Still(d.records, hs) \in SUBSET hs
    BY StillLess
  <2> QED
    BY <1>1, <1>3, <1>4, <1>5, <2>1, OwnsLess
<1>7. TaskInv(d.memory, nextId)
  <2>1. nextId \in Nat \ {0} /\ NoSlot.id = 0 /\ NoTask.todo = {}
    BY DEF TypeInv, StateTypeOK, NoSlot, NoTask, Task
  <2> QED
    BY <1>1, <2>1, ConstantsTyped DEF TaskInv
<1>8. CallsFor(d.memory, At(d).pending)
  BY <1>1 DEF CallsFor, NoSlot
<1> QED
  BY <1>3, <1>6, <1>7, <1>8 DEF Settles

LEMMA NextOfRequestSettles ==
  ASSUME TypeInv, NEW c, NEW may, KeepsUp(c, may), c.memory.task.kind \in {"sync", "unsubscribe"},
         NEW hs, Ready(c, hs), NEW d \in NextOfRequest(c)
  PROVE  Settles(d, hs)
<1> DEFINE t == c.memory.task
<1>0. /\ c.memory \in MemoryType /\ t \in TaskType /\ c.records \in Seq(RecordType) /\ c.memory.slot = NoSlot
      /\ c.memory.phase # "not_started" /\ c.memory.seq \in Nat /\ Idle(c)
  BY DEF KeepsUp, Idle, TypedCourse, MemoryType
<1>1. ~c.memory.required /\ Doing(c.memory) = {} /\ Waits(c.memory) = 0 /\ Watched(c, hs)
  BY <1>0, NobodyWaits DEF KeepsUp, Reads, Ready
<1>2. /\ c.memory.unknown = 0 /\ Finds(At(c), hs) /\ Known(At(c)) \subseteq Handles(c.memory)
      /\ Cardinality(Known(At(c))) <= c.memory.seq
  <2>1. IsFiniteSet(Known(At(c)))
    BY <1>0, WatchedAt DEF Ready
  <2>2. Cardinality(Known(At(c))) \in Nat
    BY <2>1, FS_CardinalityType
  <2> QED
    BY <1>1, <2>2 DEF Ready, Owns
<1>3. /\ t.kind = "unsubscribe" => t.desired = {}
      /\ t.kind = "sync" /\ ~t.failed => Handles(c.memory) \subseteq t.todo
      /\ \A h \in t.todo : h.id < nextId
  BY <1>1 DEF Ready, TaskInv
<1>4. CASE t.todo # {}
  <2>1. PICK h \in First(t.todo) :
          d = Calling(Course([c.memory EXCEPT !.task.todo = @ \ {h}], c.records), "cancel", h.id, h.about)
    BY <1>4 DEF NextOfRequest
  <2>2. h \in HandleType /\ h \in t.todo /\ h.id \in Nat /\ h.about \in SUBSET Symbols
    BY <1>0, FirstOf DEF TaskType, HandleType
  <2> DEFINE u == [t EXCEPT !.todo = t.todo \ {h}]
             e == Course([c.memory EXCEPT !.task = u], c.records)
  <2>3. /\ u \in TaskType /\ u.kind = t.kind /\ u.todo = t.todo \ {h} /\ u.desired = t.desired
        /\ u.failed = t.failed
    BY <1>0 DEF TaskType
  <2>4. [c.memory EXCEPT !.task.todo = @ \ {h}] = [c.memory EXCEPT !.task = u]
    BY <1>0 DEF MemoryType, TaskType
  <2> HIDE DEF u
  <2>5. /\ e.memory \in MemoryType /\ e.memory.task = u /\ e.memory.slot = c.memory.slot
        /\ e.memory.seq = c.memory.seq /\ e.memory.phase = c.memory.phase
        /\ e.memory.whole = c.memory.whole /\ e.memory.singles = c.memory.singles
        /\ e.memory.required = c.memory.required /\ e.memory.unknown = c.memory.unknown
        /\ e.records = c.records
    BY <1>0, <2>3 DEF MemoryType, Course
  <2>6. d = Calling(e, "cancel", h.id, h.about)
    BY <2>1, <2>4
  <2> HIDE DEF e
  <2>7. Idle(e)
    BY <1>0, <2>3, <2>5 DEF Idle, TypedCourse
  <2>8. At(e) = At(c) /\ Watched(e, hs)
    BY <1>1, <2>5 DEF At, Watched, WatchedTo
  <2>9. Handles(e.memory) = Handles(c.memory)
    BY <2>5 DEF Handles
  <2>10. Watched(d, hs) /\ Owns(d.memory, At(d), Still(d.records, hs))
    BY <1>1, <1>2, <2>2, <2>5, <2>6, <2>7, <2>8, <2>9, CallingOwned
  <2>11. /\ d.memory.slot.method = "cancel" /\ d.memory.slot.id = h.id /\ d.memory.slot.about = h.about
         /\ d.memory.task = u /\ d.memory.phase = e.memory.phase /\ Handles(d.memory) = Handles(e.memory)
    BY <2>2, <2>5, <2>6, CallingIs
  <2>12. TaskInv(d.memory, nextId)
    <3>1. Doing(d.memory) = {h}
      BY <2>2, <2>11, HandleAgain DEF Doing
    <3>2. d.memory.phase # "not_started" /\ d.memory.slot.id < nextId /\ \A k \in u.todo : k.id < nextId
      BY <1>0, <1>3, <2>2, <2>3, <2>5, <2>11
    <3>3. u.kind = "sync" /\ ~u.failed => Handles(d.memory) \subseteq u.todo \cup {h}
      BY <1>3, <2>2, <2>3, <2>9, <2>11
    <3>4. u.kind = "unsubscribe" => u.desired = {}
      BY <1>3, <2>3
    <3> QED
      BY <2>11, <3>1, <3>2, <3>3, <3>4 DEF TaskInv
  <2>13. CallsFor(d.memory, At(d).pending)
    BY <2>11 DEF CallsFor
  <2> QED
    BY <2>10, <2>12, <2>13 DEF Settles
<1>5. CASE t.todo = {} /\ (t.failed \/ t.desired = {})
  <2>1. d = Course(Ended(c.memory), c.records)
    BY <1>5 DEF NextOfRequest
  <2>2. d.memory = Ended(c.memory) /\ d.records = c.records
    BY <2>1 DEF Course
  <2> QED
    BY <1>0, <1>1, <1>2, <2>2, EndedSettles
<1>6. CASE t.todo = {} /\ ~(t.failed \/ t.desired = {})
  <2>1. d = Calling(c, "whole", 0, t.desired)
    BY <1>6 DEF NextOfRequest
  <2>2. t.desired \in SUBSET Symbols
    BY <1>0 DEF TaskType
  <2>3. Watched(d, hs) /\ Owns(d.memory, At(d), Still(d.records, hs)) /\ IntentOf(d.memory.slot) \in At(d).pending
    BY <1>0, <1>1, <1>2, <2>1, <2>2, CallingOwned
  <2>4. /\ d.memory.slot.method = "whole" /\ d.memory.slot.id = 0
        /\ d.memory.task = t /\ d.memory.phase = c.memory.phase /\ Handles(d.memory) = Handles(c.memory)
    <3>1. "whole" \in {"cancel", "whole", "single"} /\ 0 \in Nat
      OBVIOUS
    <3> DEFINE about == t.desired
    <3>2. about \in SUBSET Symbols /\ d = Calling(c, "whole", 0, about)
      BY <2>1, <2>2
    <3>3. c.memory \in MemoryType /\ c.memory.task = t
      BY <1>0
    <3> HIDE DEF t, about
    <3>4. \E r \in RecordType :
            /\ d.memory.slot.method = "whole" /\ d.memory.slot.id = 0
            /\ d.memory.task = c.memory.task /\ d.memory.phase = c.memory.phase
            /\ Handles(d.memory) = Handles(c.memory)
      BY <3>1, <3>2, <3>3, CallingIs
    <3> QED
      BY <3>3, <3>4
  <2>5. Handles(c.memory) = {} /\ nextId \in Nat \ {0}
    BY <1>3, <1>6 DEF TypeInv, StateTypeOK
  <2>6. TaskInv(d.memory, nextId)
    BY <1>0, <1>3, <1>6, <2>4, <2>5 DEF TaskInv
  <2>7. CallsFor(d.memory, At(d).pending)
    BY <2>3, <2>4, <2>5 DEF CallsFor
  <2> QED
    BY <2>3, <2>6, <2>7 DEF Settles
<1> QED
  BY <1>4, <1>5, <1>6

\* The observation of a new terminal: nothing of the last one is left.
LEMMA ObservedSettles ==
  ASSUME TypeInv, NEW c, c.records \in Seq(RecordType), NEW hs, Watched(c, hs),
         NEW m \in MemoryType, Waits(m) <= m.seq, m.task.kind \in {"none", "startup"},
         m.slot.method \in {"none", "cancel"}, m.slot.id < nextId, \A h \in m.task.todo : h.id < nextId,
         NEW d, d.memory = Unlocked(m), d.records = Append(c.records, Observation)
  PROVE  Settles(d, hs)
<1>1. Step(At(c), Observation) = Blank
  BY StepObserved, RecordsTyped
<1>2. At(d) = Blank
  BY <1>1, RecordsTyped, AtAppend
<1>3. Known(Blank) = {} /\ IsFiniteSet(Known(Blank)) /\ Cardinality(Known(Blank)) = 0
  <2>1. Known(Blank) = {}
    BY BlankDurable DEF Known, HandlesOf
  <2> QED
    BY <2>1, FS_EmptySet
<1>4. Finds(Blank, {}) /\ Guarded(Blank, {}, 0)
  BY FoundGuards DEF Finds
<1>5. Still(d.records, hs) = {}
  <2>1. Append(c.records, Observation)[Len(c.records) + 1] = Observation
        /\ Len(c.records) + 1 \in DOMAIN Append(c.records, Observation)
    OBVIOUS
  <2>2. Observation \in ToSet(d.records)
    BY <2>1 DEF ToSet
  <2> QED
    BY <2>2 DEF Still
<1>6. Watched(d, hs)
  BY <1>2, <1>3, <1>4, <1>5, RecordsTyped, WatchedAppend
<1>7. /\ d.memory.slot = m.slot /\ d.memory.task = m.task /\ d.memory.seq = m.seq
      /\ d.memory.phase = "completed" /\ ~d.memory.required /\ d.memory.unknown = 0
  BY UnlockedTyped
<1>8. Waits(d.memory) = Waits(m) /\ Waits(m) \in Nat /\ m.seq \in Nat
  BY <1>7 DEF Waits, MemoryType
<1>9. Owns(d.memory, Blank, {})
  BY <1>3, <1>4, <1>7, <1>8 DEF Owns
<1>10. TaskInv(d.memory, nextId) /\ CallsFor(d.memory, At(d).pending)
  BY <1>7 DEF TaskInv, CallsFor
<1> QED
  BY <1>2, <1>5, <1>6, <1>9, <1>10 DEF Settles

LEMMA RecoveredSettles ==
  ASSUME TypeInv, NEW c, NEW may, KeepsUp(c, may), c.memory.task.kind = "startup", NEW hs, Ready(c, hs),
         NEW d, d = Recovered(c)
  PROVE  Settles(d, hs)
<1> DEFINE b == c.memory.candidates # {} \/ c.memory.unknown # 0
           m == [Ended(c.memory) EXCEPT !.required = b]
<1>0. /\ c.memory \in MemoryType /\ c.records \in Seq(RecordType) /\ Watched(c, hs) /\ c.memory.seq \in Nat
      /\ c.memory.unknown \in Nat /\ c.memory.slot = NoSlot /\ c.memory.phase # "not_started"
  BY DEF KeepsUp, Idle, TypedCourse, Ready, MemoryType
<1>1. View(c.memory) = View(At(c).known) /\ (~c.memory.required => c.memory.candidates = {})
  BY DEF KeepsUp, Reads, Recovering
<1>2. IsFiniteSet(Known(At(c))) /\ At(c) \in ReplayType
  BY <1>0, WatchedAt, AtIsTyped
<1>3. c.memory.candidates = {} => Known(At(c)) = {}
  <2>1. HandlesOf(c.memory.candidates) = HandlesOf(At(c).known.candidates)
    BY <1>1 DEF View
  <2> QED
    BY <2>1, HandlesOfIds DEF Known
<1>4. nextId \in Nat \ {0} /\ NoSlot.id = 0 /\ NoTask.todo = {} /\ NoTask.kind = "none" /\ NoSlot.method = "none"
      /\ Cardinality({}) = 0 /\ IsFiniteSet({})
  BY FS_EmptySet DEF TypeInv, StateTypeOK, NoSlot, NoTask, Task
<1>5. ASSUME NEW p \in Phases \ {"not_started"}, d = Course(Over(c.memory, p), c.records)
      PROVE  Settles(d, hs)
  <2> DEFINE n == Over(c.memory, p)
  <2>1. d.memory = n /\ d.records = c.records
    BY <1>5 DEF Course
  <2>2. /\ n.slot = NoSlot /\ n.task = NoTask /\ n.phase = p /\ n.seq = c.memory.seq /\ n \in MemoryType
        /\ n.unknown = c.memory.unknown
        /\ n.required <=> c.memory.candidates # {} \/ c.memory.unknown # 0
    BY <1>0, OverTyped
  <2> HIDE DEF n
  <2>3. At(d) = At(c) /\ Watched(d, hs)
    BY <1>0, <2>1 DEF At, Watched, WatchedTo
  <2>4. Waits(n) = 0
    BY <2>2, NobodyWaits
  <2>5. Owns(n, At(c), hs)
    <3>1. CASE n.required /\ c.memory.required
      <4> DEFINE todo == c.memory.task.todo
      <4>1. /\ IsFiniteSet(todo) /\ Guarded(At(c), hs, Reach(c.memory))
            /\ c.memory.unknown = 0 => Finds(At(c), hs)
        BY <3>1 DEF Ready, Owns
      <4>2. Reach(c.memory) = c.memory.seq + Cardinality(todo)
        BY <1>0 DEF Reach
      <4>3. Cardinality(todo) \in Nat
        BY <4>1, FS_CardinalityType
      <4>4. Reach(c.memory) \in Nat /\ c.memory.seq <= Reach(c.memory)
        BY <1>0, <4>2, <4>3
      <4>5. Guarded(At(c), hs, c.memory.seq)
        BY <1>0, <1>2, <4>1, <4>4, GuardedLess
      <4>6. Reach(n) = c.memory.seq
        <5>1. n.task.todo = {} /\ n.phase # "not_started" /\ n.seq = c.memory.seq
          BY <1>4, <2>2
        <5>2. Reach(n) = c.memory.seq + 0
          BY <1>4, <5>1 DEF Reach
        <5> QED
          BY <1>0, <5>2
      <4> QED
        BY <1>4, <2>2, <3>1, <4>1, <4>5, <4>6 DEF Owns
    <3>2. CASE n.required /\ ~c.memory.required
      BY <1>1, <2>2, <3>2 DEF Ready, Owns
    <3>3. CASE ~n.required
      <4>1. c.memory.candidates = {} /\ n.unknown = 0 /\ c.memory.unknown = 0
        BY <2>2, <3>3
      <4>2. Finds(At(c), hs)
        BY <4>1 DEF Ready, Owns
      <4>3. Known(At(c)) = {}
        BY <1>3, <4>1
      <4>4. Cardinality(Known(At(c))) + Waits(n) <= n.seq
        BY <1>0, <1>4, <2>2, <2>4, <4>3
      <4> QED
        BY <3>3, <4>1, <4>2, <4>3, <4>4 DEF Owns
    <3> QED
      BY <3>1, <3>2, <3>3
  <2>6. Owns(n, At(c), Still(d.records, hs))
    <3>1. Still(d.records, hs) \in SUBSET hs
      BY StillLess
    <3> QED
      BY <1>2, <2>2, <2>5, <3>1, OwnsLess
  <2>7. TaskInv(n, nextId) /\ CallsFor(n, At(c).pending)
    BY <1>4, <2>2 DEF TaskInv, CallsFor
  <2> QED
    BY <2>1, <2>3, <2>6, <2>7 DEF Settles
<1>6. "completed" \in Phases \ {"not_started"} /\ "degraded" \in Phases \ {"not_started"}
  BY DEF Phases
<1>7. ASSUME d = Course(Unlocked(m), Append(c.records, Observation)) PROVE Settles(d, hs)
  <2>1. b \in BOOLEAN
    OBVIOUS
  <2> HIDE DEF b
  <2>2. m \in MemoryType /\ m.slot = NoSlot /\ m.task = NoTask /\ m.seq = c.memory.seq
    BY <1>0, <2>1, EndedTyped DEF MemoryType
  <2> HIDE DEF m
  <2>3. d.memory = Unlocked(m) /\ d.records = Append(c.records, Observation)
    BY <1>7 DEF Course
  <2>4. Waits(m) <= m.seq
    BY <1>0, <2>2, NobodyWaits
  <2> QED
    BY <1>0, <1>4, <2>2, <2>3, <2>4, ObservedSettles
<1> HIDE DEF b
<1> QED
  BY <1>0, <1>5, <1>6, <1>7, RecoveredIs DEF b

LEMMA FirstLess ==
  ASSUME NEW hs, IsFiniteSet(hs), NEW h \in hs
  PROVE  /\ IsFiniteSet(hs \ {h}) /\ Cardinality(hs) \in Nat /\ Cardinality(hs \ {h}) \in Nat
         /\ Cardinality(hs \ {h}) + 1 = Cardinality(hs)
<1>1. IsFiniteSet(hs \ {h}) /\ Cardinality(hs \ {h}) = Cardinality(hs) - 1
  BY FS_RemoveElement
<1> QED
  BY <1>1, FS_CardinalityType

LEMMA NextCleanupSettles ==
  ASSUME TypeInv, NEW c, NEW may, KeepsUp(c, may), c.memory.task.kind = "startup", NEW hs, Ready(c, hs),
         NEW d \in NextCleanup(c)
  PROVE  Settles(d, hs)
<1> DEFINE t == c.memory.task
<1>0. /\ c.memory \in MemoryType /\ t \in TaskType /\ c.records \in Seq(RecordType) /\ Idle(c)
      /\ c.memory.phase # "not_started" /\ c.memory.seq \in Nat /\ c.memory.slot = NoSlot
      /\ Watched(c, hs) /\ Owns(c.memory, At(c), hs)
  BY DEF KeepsUp, Idle, TypedCourse, MemoryType, Ready
<1>1. CASE t.todo = {}
  <2>1. d = Recovered(c)
    BY <1>1 DEF NextCleanup
  <2> QED
    BY <2>1, RecoveredSettles
<1>2. CASE t.todo # {}
  <2>1. PICK h \in First(t.todo) :
          d = Calling(Course([c.memory EXCEPT !.task.todo = @ \ {h}, !.candidates = Tried(@, {h.id})],
                             Append(c.records, Record("recovery_intent", 0, "none", h.id, h.about))),
                      "cancel", h.id, h.about)
    BY <1>2 DEF NextCleanup
  <2>2. h \in HandleType /\ h \in t.todo
    BY <1>0, FirstOf DEF TaskType
  <2>3. h.id \in Nat /\ h.about \in SUBSET Symbols
    BY <2>2 DEF HandleType
  <2> DEFINE u == [t EXCEPT !.todo = t.todo \ {h}]
             cs == Tried(c.memory.candidates, {h.id})
             m == [c.memory EXCEPT !.task = u, !.candidates = cs]
             r == Record("recovery_intent", 0, "none", h.id, h.about)
             e == Course(m, Append(c.records, r))
  <2>4. u \in TaskType /\ u.kind = t.kind /\ u.todo = t.todo \ {h} /\ u.desired = t.desired /\ u.failed = t.failed
    BY <1>0 DEF TaskType
  <2>5. cs \in SUBSET CandidateType
    BY <1>0, TriedTyped DEF MemoryType
  <2>6. [c.memory EXCEPT !.task.todo = @ \ {h}, !.candidates = Tried(@, {h.id})] = m
    BY <1>0 DEF MemoryType, TaskType
  <2>7. r \in RecordType /\ r.kind = "recovery_intent"
    BY <2>3 DEF Record, RecordType, Kinds, Whats, Methods
  <2> HIDE DEF u, cs, r
  <2>8. m \in MemoryType /\ m.slot = c.memory.slot /\ m.seq = c.memory.seq /\ m.task = u
        /\ m.phase = c.memory.phase /\ m.whole = c.memory.whole /\ m.singles = c.memory.singles
        /\ m.required = c.memory.required /\ m.unknown = c.memory.unknown
    BY <1>0, <2>4, <2>5 DEF MemoryType
  <2> HIDE DEF m
  <2>9. e.memory = m /\ e.records = Append(c.records, r)
    BY DEF Course
  <2>10. d = Calling(e, "cancel", h.id, h.about)
    BY <2>1, <2>6 DEF r
  <2>11. Idle(e)
    BY <1>0, <2>4, <2>7, <2>8, <2>9, AppendTyped DEF Idle, TypedCourse
  <2> HIDE DEF e
  <2>12. Handles(m) = Handles(c.memory)
    BY <2>8 DEF Handles
  <2> DEFINE n == IF c.memory.required THEN c.memory.seq + Cardinality(t.todo) ELSE 0
  <2>13. n \in Nat /\ Guarded(At(c), hs, n)
    <3>1. CASE c.memory.required
      <4>1. IsFiniteSet(t.todo) /\ Guarded(At(c), hs, Reach(c.memory))
        BY <1>0, <3>1 DEF Owns
      <4>2. Cardinality(t.todo) \in Nat
        BY <4>1, FS_CardinalityType
      <4> QED
        BY <1>0, <3>1, <4>1, <4>2 DEF Reach
    <3>2. CASE ~c.memory.required
      BY <1>0, <3>2, FoundGuards DEF Owns
    <3> QED
      BY <3>1, <3>2
  <2>14. Quiet(r) /\ ~IsCall(r) /\ \A x : ~Removes(At(c), r, x)
    BY <2>7 DEF Quiet, IsCall, Removes
  <2>15. Safe(c, hs, n)
    BY <1>0, <2>13 DEF Safe
  <2> HIDE DEF n
  <2>16. Safe(e, hs, n) /\ Less(c, e, hs) /\ At(e) \in ReplayType
    BY <2>7, <2>9, <2>13, <2>14, <2>15, QuietAppend
  <2>17. IF m.required
         THEN /\ IsFiniteSet(m.task.todo)
              /\ Guarded(At(e), hs, m.seq + 1 + Cardinality(m.task.todo))
              /\ m.unknown = 0 => Finds(At(e), hs)
         ELSE /\ m.unknown = 0 /\ Finds(At(e), hs) /\ Known(At(e)) \subseteq Handles(m)
              /\ Cardinality(Known(At(e))) <= m.seq
    <3>1. CASE m.required
      <4>1. IsFiniteSet(t.todo) /\ (m.unknown = 0 => Finds(At(c), hs)) /\ Guarded(At(e), hs, n)
        BY <1>0, <2>8, <2>16, <3>1 DEF Owns, Safe
      <4>2. IsFiniteSet(u.todo) /\ Cardinality(u.todo) \in Nat /\ Cardinality(u.todo) + 1 = Cardinality(t.todo)
            /\ Cardinality(t.todo) \in Nat
        <5>1. IsFiniteSet(t.todo) /\ h \in t.todo
          BY <2>2, <4>1
        <5>2. /\ IsFiniteSet(t.todo \ {h}) /\ Cardinality(t.todo) \in Nat
              /\ Cardinality(t.todo \ {h}) \in Nat
              /\ Cardinality(t.todo \ {h}) + 1 = Cardinality(t.todo)
          <6> HIDE DEF t
          <6> QED
            BY <5>1, FirstLess
        <5>3. u.todo = t.todo \ {h}
          BY <2>4
        <5> QED
          BY <5>2, <5>3
      <4>3. n = m.seq + 1 + Cardinality(u.todo)
        BY <1>0, <2>8, <3>1, <4>2 DEF n
      <4> QED
        BY <2>8, <2>16, <3>1, <4>1, <4>2, <4>3 DEF Less
    <3>2. CASE ~m.required
      <4>1. /\ m.unknown = 0 /\ Finds(At(c), hs) /\ Known(At(c)) \subseteq Handles(m)
            /\ Cardinality(Known(At(c))) + 0 <= m.seq
        BY <1>0, <2>8, <2>12, <3>2, NobodyWaits DEF Owns
      <4>2. IsFiniteSet(Known(At(c)))
        BY <1>0, WatchedAt
      <4>3. /\ Cardinality(Known(At(e))) <= Cardinality(Known(At(c))) /\ Cardinality(Known(At(e))) \in Nat
            /\ Cardinality(Known(At(c))) \in Nat
        BY <2>16, <4>2, FS_Subset, FS_CardinalityType DEF Less
      <4> QED
        BY <1>0, <2>8, <2>16, <3>2, <4>1, <4>3 DEF Less
    <3> QED
      BY <3>1, <3>2
  <2>18. Watched(d, hs) /\ Owns(d.memory, At(d), Still(d.records, hs))
    BY <2>3, <2>9, <2>10, <2>11, <2>16, <2>17, CallingOwned DEF Safe
  <2>19. /\ d.memory.slot.method = "cancel" /\ d.memory.slot.id = h.id
         /\ d.memory.task = u /\ d.memory.phase = m.phase
    BY <2>3, <2>8, <2>9, <2>10, CallingIs
  <2>20. h.id < nextId /\ \A k \in u.todo : k.id < nextId
    BY <2>2, <2>4 DEF Ready, TaskInv
  <2>21. TaskInv(d.memory, nextId) /\ CallsFor(d.memory, At(d).pending)
    BY <1>0, <2>4, <2>8, <2>19, <2>20 DEF TaskInv, CallsFor
  <2> QED
    BY <2>18, <2>21 DEF Settles
<1> QED
  BY <1>1, <1>2

-----------------------------------------------------------------------------
(* The reply to a call, and its absence, and what is found then.           *)

Holding(hs) ==
  /\ IsFiniteSet(Known(Base(journal))) /\ Guarded(Base(journal), hs, 0)
  /\ Owns(memory, Base(journal), hs) /\ TaskInv(memory, nextId) /\ CallsFor(memory, Base(journal).pending)

\* The callSequence up to which the calls of this run go.
Bound == IF memory.required THEN Reach(memory) ELSE memory.seq

LEMMA HoldingBusy ==
  ASSUME NEW may, InStep(may), memory.slot # NoSlot, NEW hs, Holding(hs)
  PROVE  /\ TypeInv /\ memory \in MemoryType /\ memory.slot \in SlotType /\ memory.slot.seq = memory.seq
         /\ memory.phase # "not_started" /\ memory.task.kind # "none" /\ memory.seq \in Nat /\ memory.unknown \in Nat
         /\ Waits(memory) = 1 /\ Base(journal) \in ReplayType /\ OneCall(Base(journal), memory.slot)
         /\ Bound \in Nat /\ memory.seq <= Bound /\ Guarded(Base(journal), hs, Bound)
<1>1. /\ TypeInv /\ memory \in MemoryType /\ memory.phase # "not_started" /\ memory.task.kind # "none"
      /\ memory.slot \in SlotType
  BY BusyStarted, NumbersTyped DEF InStep
<1>2. memory.slot.seq = memory.seq /\ memory.seq \in Nat /\ memory.unknown \in Nat /\ Waits(memory) = 1
  BY <1>1 DEF TypeInv, CallInv, MemoryType, Waits
<1>3. OneCall(Base(journal), memory.slot) /\ Base(journal) \in ReplayType
  BY <1>1, BaseTyped DEF InStep, SlotInv, OneCall
<1>4. CASE memory.required
  <2>1. IsFiniteSet(memory.task.todo) /\ Guarded(Base(journal), hs, Reach(memory))
    BY <1>4 DEF Holding, Owns
  <2>2. Cardinality(memory.task.todo) \in Nat
    BY <2>1, FS_CardinalityType
  <2>3. Reach(memory) \in Nat /\ memory.seq <= Reach(memory)
    BY <1>1, <1>2, <2>2 DEF Reach
  <2> QED
    BY <1>1, <1>2, <1>3, <1>4, <2>1, <2>3 DEF Bound
<1>5. CASE ~memory.required
  <2>1. Guarded(Base(journal), hs, memory.seq)
    BY <1>5, FoundGuards DEF Holding, Owns
  <2> QED
    BY <1>1, <1>2, <1>3, <1>5, <2>1 DEF Bound
<1> QED
  BY <1>4, <1>5

LEMMA NothingSafe ==
  ASSUME NEW may, InStep(may), memory.slot # NoSlot, NEW hs, Holding(hs), NEW c, c.records = <<>>
  PROVE  Safe(c, hs, Bound) /\ At(c) = Base(journal) /\ c.records \in Seq(RecordType)
<1>1. TypeInv /\ Guarded(Base(journal), hs, Bound)
  BY HoldingBusy
<1>2. Watched(c, hs) /\ At(c) = Base(journal)
  BY <1>1, WatchedNothing DEF Holding
<1>3. c.records \in Seq(RecordType)
  OBVIOUS
<1> QED
  BY <1>1, <1>2, <1>3 DEF Safe

\* A result other than a new id.
LEMMA ResultSafe ==
  ASSUME NEW may, InStep(may), memory.slot # NoSlot, NEW hs, Holding(hs), NEW says \in Says \ {"id"}, NEW id \in Nat,
         memory.slot.method = "cancel" /\ Confirms(says) => memory.slot.id \notin hs,
         NEW c, c.records = <<ResultOf(memory.slot, says, id)>>
  PROVE  /\ Safe(c, hs, Bound) /\ (Finds(Base(journal), hs) => Finds(At(c), hs))
         /\ Known(At(c)) \subseteq Known(Base(journal)) /\ At(c) \in ReplayType
<1> DEFINE r == ResultOf(memory.slot, says, id)
           e == Course(memory, <<>>)
<1>0. /\ memory.slot \in SlotType /\ TypeInv /\ memory.slot.seq = memory.seq /\ Bound \in Nat /\ memory.seq <= Bound
      /\ OneCall(Base(journal), memory.slot)
  BY HoldingBusy
<1>1. r \in RecordType /\ r.kind = "native_result" /\ r.seq = memory.slot.seq /\ r.what = says
  BY <1>0 DEF ResultOf, Record, RecordType, Kinds, Whats, SlotType
<1>2. e.records = <<>>
  BY DEF Course
<1> HIDE DEF e, r
<1>3. Safe(e, hs, Bound) /\ At(e) = Base(journal)
  BY <1>2, NothingSafe
<1>4. Quiet(r)
  BY <1>1 DEF Quiet
<1>5. \A x : Removes(At(e), r, x) => x \notin hs
  <2>1. ASSUME NEW x, Removes(At(e), r, x) PROVE x \notin hs
    <3>1. says = "false" /\ \E p \in Base(journal).pending : p.seq = r.seq /\ p.method = "cancel" /\ p.id = x
      BY <1>1, <1>3, <2>1 DEF Removes
    <3>2. memory.slot.method = "cancel" /\ memory.slot.id = x
      BY <1>0, <1>1, <3>1 DEF OneCall, IntentOf
    <3> QED
      BY <3>1, <3>2 DEF Confirms
  <2> QED
    BY <2>1
<1>6. c.records = Append(e.records, r)
  BY <1>2 DEF r
<1>7. r.seq <= Bound
  BY <1>0, <1>1
<1>8. Safe(c, hs, Bound) /\ Less(e, c, hs) /\ At(c) \in ReplayType
  BY <1>0, <1>1, <1>3, <1>4, <1>5, <1>6, <1>7, QuietAppend
<1> QED
  BY <1>3, <1>8 DEF Less

\* The controller that goes on after a reply.
LEMMA OwnsOn ==
  ASSUME NEW may, InStep(may), memory.slot # NoSlot, NEW hs, Holding(hs), NEW c, Safe(c, hs, Bound),
         Finds(Base(journal), hs) => Finds(At(c), hs), Known(At(c)) \subseteq Known(Base(journal)),
         NEW m, m.slot = NoSlot, m.required = memory.required, m.unknown = memory.unknown,
         m.seq = memory.seq, m.phase = memory.phase, m.task.todo = memory.task.todo,
         ~memory.required => Known(At(c)) \subseteq Handles(m)
  PROVE  Owns(m, At(c), hs) /\ Watched(c, hs) /\ (~memory.required => Cardinality(Known(At(c))) <= m.seq)
<1>0. memory.phase # "not_started" /\ memory.seq \in Nat /\ Waits(memory) = 1 /\ Waits(m) = 0
  BY HoldingBusy, NobodyWaits
<1>1. CASE memory.required
  <2>1. Reach(m) = Reach(memory)
    BY <1>0 DEF Reach
  <2> QED
    BY <1>1, <2>1 DEF Holding, Owns, Safe, Bound
<1>2. CASE ~memory.required
  <2>1. IsFiniteSet(Known(Base(journal))) /\ Cardinality(Known(Base(journal))) + 1 <= memory.seq
        /\ memory.unknown = 0 /\ Finds(Base(journal), hs)
    BY <1>0, <1>2 DEF Holding, Owns
  <2>2. /\ Cardinality(Known(At(c))) <= Cardinality(Known(Base(journal)))
        /\ Cardinality(Known(At(c))) \in Nat /\ Cardinality(Known(Base(journal))) \in Nat
    BY <2>1, FS_Subset, FS_CardinalityType
  <2>3. Cardinality(Known(At(c))) + Waits(m) <= m.seq /\ Cardinality(Known(At(c))) <= m.seq
    BY <1>0, <2>1, <2>2
  <2> QED
    BY <1>2, <2>1, <2>3 DEF Owns, Safe
<1> QED
  BY <1>1, <1>2

\* What the end of a cleanup attempt d writes after the result.
CleansUp(says, id, d) ==
  /\ Confirms(says) =>
       /\ d.memory = Resolved(Freed(memory), memory.slot.id)
       /\ d.records = Append(Append(Append(<<ResultOf(memory.slot, says, id)>>,
                                           Note(memory.slot, "recovery_result", "confirmed")),
                                    Note(memory.slot, "registry_transition", "unsubscribed")),
                             Note(memory.slot, "recovery_terminal", "confirmed"))
  /\ ~Confirms(says) =>
       /\ d.memory = Freed(memory)
       /\ d.records = Append(<<ResultOf(memory.slot, says, id)>>,
                             Note(memory.slot, "recovery_result", "unconfirmed"))

LEMMA CleanedWrites ==
  ASSUME memory \in MemoryType, NEW says, NEW id,
         NEW c, c = Cleaned(Freed(memory), memory.slot, Confirms(says)),
         NEW d, d = Course(c.memory, <<ResultOf(memory.slot, says, id)>> \o c.records)
  PROVE  CleansUp(says, id, d)
<1> DEFINE r == ResultOf(memory.slot, says, id)
           m == Freed(memory)
           n0 == Note(memory.slot, "recovery_result", "unconfirmed")
           n1 == Note(memory.slot, "recovery_result", "confirmed")
           n2 == Note(memory.slot, "registry_transition", "unsubscribed")
           n3 == Note(memory.slot, "recovery_terminal", "confirmed")
<1>1. /\ Confirms(says) => c = Course(Resolved(m, memory.slot.id), <<n1, n2, n3>>)
      /\ ~Confirms(says) => c = Course(m, <<n0>>)
  BY CleanedIs
<1> HIDE DEF r, m, n0, n1, n2, n3
<1>2. \A x, y : Course(x, y).memory = x /\ Course(x, y).records = y
  BY DEF Course
<1>3. d = Course(c.memory, <<r>> \o c.records)
  BY Zenon DEF r
<1>4. CASE Confirms(says)
  <2>1. c.memory = Resolved(m, memory.slot.id) /\ c.records = <<n1, n2, n3>>
    <3> DEFINE x == Resolved(m, memory.slot.id)
               y == <<n1, n2, n3>>
    <3>1. c = Course(x, y)
      BY <1>1, <1>4
    <3> HIDE DEF x, y
    <3>2. c.memory = x /\ c.records = y
      BY <1>2, <3>1, ZenonT(30)
    <3> QED
      BY <3>2 DEF x, y
  <2>2. d.memory = c.memory /\ d.records = <<r>> \o <<n1, n2, n3>>
    <3> DEFINE z == <<r>> \o c.records
               y == c.memory
    <3>1. d = Course(y, z)
      BY <1>3
    <3> HIDE DEF z, y
    <3>2. d.memory = y /\ d.records = z
      BY <1>2, <3>1, ZenonT(30)
    <3> QED
      BY <2>1, <3>2 DEF z, y
  <2>3. d.records = Append(Append(Append(<<r>>, n1), n2), n3)
    BY <2>2, Spliced
  <2> QED
    BY <1>4, <2>1, <2>2, <2>3 DEF CleansUp, r, m, n0, n1, n2, n3
<1>5. CASE ~Confirms(says)
  <2>1. c.memory = m /\ c.records = <<n0>>
    <3> DEFINE y == <<n0>>
    <3>1. c = Course(m, y)
      BY <1>1, <1>5
    <3> HIDE DEF y
    <3>2. c.memory = m /\ c.records = y
      BY <1>2, <3>1, ZenonT(30)
    <3> QED
      BY <3>2 DEF y
  <2>2. d.memory = m /\ d.records = <<r>> \o <<n0>>
    <3> DEFINE z == <<r>> \o c.records
               y == c.memory
    <3>1. d = Course(y, z)
      BY <1>3
    <3> HIDE DEF z, y
    <3>2. d.memory = y /\ d.records = z
      BY <1>2, <3>1, ZenonT(30)
    <3> QED
      BY <2>1, <3>2 DEF z, y
  <2>3. d.records = Append(<<r>>, n0)
    BY <2>2, Spliced
  <2> QED
    BY <1>5, <2>2, <2>3 DEF CleansUp, r, m, n0, n1, n2, n3
<1> QED
  BY <1>4, <1>5

\* What the recovery goes on with.
LEMMA CleanedReady ==
  ASSUME NEW may, InStep(may), memory.slot # NoSlot, memory.task.kind = "startup", NEW hs, Holding(hs),
         NEW says \in Says \ {"id"}, NEW id \in Nat, Confirms(says) => memory.slot.id \notin hs,
         NEW c, c = Cleaned(Freed(memory), memory.slot, Confirms(says)),
         NEW d, d = Course(c.memory, <<ResultOf(memory.slot, says, id)>> \o c.records), Idle(d)
  PROVE  Ready(d, hs)
<1> DEFINE slot == memory.slot
           r == ResultOf(slot, says, id)
           e == Course(memory, <<r>>)
           m == Freed(memory)
           n0 == Note(slot, "recovery_result", "unconfirmed")
           n1 == Note(slot, "recovery_result", "confirmed")
           n2 == Note(slot, "registry_transition", "unsubscribed")
           n3 == Note(slot, "recovery_terminal", "confirmed")
<1>0. /\ TypeInv /\ memory \in MemoryType /\ slot \in SlotType /\ slot.id \in Nat /\ slot.method = "cancel"
      /\ Bound \in Nat /\ (~memory.required => memory.candidates = {})
  BY HoldingBusy DEF InStep, SlotInv, SlotType, Reads
<1>1. e.records = <<r>>
  BY DEF Course
<1>2. /\ m \in MemoryType /\ m.slot = NoSlot /\ m.task = memory.task /\ m.required = memory.required
      /\ m.unknown = memory.unknown /\ m.seq = memory.seq /\ m.phase = memory.phase
      /\ m.candidates = memory.candidates /\ Handles(m) = Handles(memory)
  BY <1>0, FreedTyped, FreedView
<1>3. /\ n0 \in RecordType /\ n0.kind = "recovery_result" /\ n1 \in RecordType /\ n1.kind = "recovery_result"
      /\ n2 \in RecordType /\ n2.kind = "registry_transition" /\ n2.what = "unsubscribed" /\ n2.id = slot.id
      /\ n3 \in RecordType /\ n3.kind = "recovery_terminal" /\ n3.id = slot.id
  BY <1>0, NotesTyped DEF Kinds
<1>4. /\ Confirms(says) => /\ d.memory = Resolved(m, slot.id)
                           /\ d.records = Append(Append(Append(<<r>>, n1), n2), n3)
      /\ ~Confirms(says) => d.memory = m /\ d.records = Append(<<r>>, n0)
  <2>1. CleansUp(says, id, d)
    BY <1>0, CleanedWrites
  <2> QED
    BY <2>1 DEF CleansUp
<1> HIDE DEF e, r, m, n0, n1, n2, n3
<1>5. /\ Safe(e, hs, Bound) /\ (Finds(Base(journal), hs) => Finds(At(e), hs))
      /\ Known(At(e)) \subseteq Known(Base(journal)) /\ At(e) \in ReplayType
  BY <1>0, <1>1, ResultSafe DEF r
<1>6. CASE Confirms(says)
  <2> DEFINE c1 == Course(memory, Append(e.records, n1))
             c2 == Course(memory, Append(c1.records, n2))
  <2>1. c1.records = Append(e.records, n1) /\ c2.records = Append(c1.records, n2) /\ d.records = Append(c2.records, n3)
    BY <1>1, <1>4, <1>6 DEF Course
  <2> HIDE DEF c1, c2
  <2>2. slot.id \notin hs
    BY <1>6
  <2>3. Quiet(n1) /\ ~IsCall(n1) /\ \A x : ~Removes(At(e), n1, x)
    BY <1>3 DEF Quiet, IsCall, Removes
  <2>4. Safe(c1, hs, Bound) /\ Less(e, c1, hs)
    BY <1>0, <1>3, <1>5, <2>1, <2>3, QuietAppend
  <2>5. Quiet(n2) /\ ~IsCall(n2) /\ \A x : Removes(At(c1), n2, x) => x \notin hs
    BY <1>3, <2>2 DEF Quiet, IsCall, Removes
  <2>6. Safe(c2, hs, Bound) /\ Less(c1, c2, hs)
    BY <1>0, <1>3, <2>1, <2>4, <2>5, QuietAppend
  <2>7. Quiet(n3) /\ ~IsCall(n3) /\ \A x : Removes(At(c2), n3, x) => x \notin hs
    BY <1>3, <2>2 DEF Quiet, IsCall, Removes
  <2>8. Safe(d, hs, Bound) /\ Less(c2, d, hs)
    BY <1>0, <1>3, <2>1, <2>6, <2>7, QuietAppend
  <2>9. (Finds(Base(journal), hs) => Finds(At(d), hs)) /\ Known(At(d)) \subseteq Known(Base(journal))
    BY <1>5, <2>4, <2>6, <2>8 DEF Less
  <2>10. /\ d.memory.slot = m.slot /\ d.memory.required = m.required /\ d.memory.unknown = m.unknown
         /\ d.memory.seq = m.seq /\ d.memory.phase = m.phase /\ d.memory.task = m.task
    <3> DEFINE x == Resolved(m, slot.id)
    <3>1. /\ x.slot = m.slot /\ x.required = m.required /\ x.unknown = m.unknown
          /\ x.seq = m.seq /\ x.phase = m.phase /\ x.task = m.task
      BY <1>0, <1>2, MemoryResolvedTyped
    <3>2. d.memory = x
      BY <1>4, <1>6
    <3> HIDE DEF x
    <3> QED
      BY <3>1, <3>2
  <2>11. ~memory.required => Known(At(d)) \subseteq Handles(d.memory)
    <3> SUFFICES ASSUME ~memory.required PROVE Known(At(d)) \subseteq Handles(d.memory)
      OBVIOUS
    <3>1. d.memory = m
      BY <1>0, <1>2, <1>4, <1>6 DEF Resolved, Ids
    <3> QED
      BY <1>2, <2>9, <3>1 DEF Holding, Owns
  <2>12. Owns(d.memory, At(d), hs) /\ Watched(d, hs)
    BY <1>2, <2>8, <2>9, <2>10, <2>11, OwnsOn
  <2>13. TaskInv(d.memory, nextId)
    <3>1. NoSlot.id = 0 /\ nextId \in Nat \ {0}
      BY <1>0 DEF NoSlot, TypeInv, StateTypeOK
    <3>2. memory.phase # "not_started" /\ \A h \in memory.task.todo : h.id < nextId
      BY HoldingBusy DEF Holding, TaskInv
    <3>3. /\ d.memory.slot = NoSlot /\ d.memory.phase = memory.phase /\ d.memory.task = memory.task
      BY <1>2, <2>10
    <3>4. d.memory.task.kind = "startup" /\ d.memory.slot.id < nextId /\ d.memory.phase # "not_started"
      BY <3>1, <3>2, <3>3
    <3> QED
      BY <3>2, <3>3, <3>4, ZenonT(30) DEF TaskInv
  <2> QED
    BY <2>12, <2>13 DEF Ready
<1>7. CASE ~Confirms(says)
  <2>1. d.records = Append(e.records, n0)
    BY <1>1, <1>4, <1>7
  <2>2. Quiet(n0) /\ ~IsCall(n0) /\ \A x : ~Removes(At(e), n0, x)
    BY <1>3 DEF Quiet, IsCall, Removes
  <2>3. Safe(d, hs, Bound) /\ Less(e, d, hs)
    BY <1>0, <1>3, <1>5, <2>1, <2>2, QuietAppend
  <2>4. (Finds(Base(journal), hs) => Finds(At(d), hs)) /\ Known(At(d)) \subseteq Known(Base(journal))
    BY <1>5, <2>3 DEF Less
  <2>5. ~memory.required => Known(At(d)) \subseteq Handles(d.memory)
    BY <1>2, <1>4, <1>7, <2>4 DEF Holding, Owns
  <2>6. Owns(d.memory, At(d), hs) /\ Watched(d, hs)
    BY <1>2, <1>4, <1>7, <2>3, <2>4, <2>5, OwnsOn
  <2>7. TaskInv(d.memory, nextId)
    <3>1. NoSlot.id = 0 /\ nextId \in Nat \ {0}
      BY <1>0 DEF NoSlot, TypeInv, StateTypeOK
    <3>2. memory.phase # "not_started" /\ \A h \in memory.task.todo : h.id < nextId
      BY HoldingBusy DEF Holding, TaskInv
    <3>3. /\ d.memory.slot = NoSlot /\ d.memory.phase = memory.phase /\ d.memory.task = memory.task
      BY <1>2, <1>4, <1>7
    <3>4. d.memory.task.kind = "startup" /\ d.memory.slot.id < nextId /\ d.memory.phase # "not_started"
      BY <3>1, <3>2, <3>3
    <3> QED
      BY <3>2, <3>3, <3>4 DEF TaskInv
  <2> QED
    BY <2>6, <2>7 DEF Ready
<1> QED
  BY <1>6, <1>7

LEMMA UncleanedReady ==
  ASSUME NEW may, InStep(may), memory.slot # NoSlot, memory.task.kind = "startup", NEW hs, Holding(hs),
         NEW d, d = Cleaned(Freed(memory), memory.slot, FALSE), Idle(d)
  PROVE  Ready(d, hs)
<1> DEFINE m == Freed(memory)
           n0 == Note(memory.slot, "recovery_result", "unconfirmed")
           e == Course(memory, <<>>)
<1>0. /\ TypeInv /\ memory \in MemoryType /\ memory.slot \in SlotType /\ Bound \in Nat
  BY HoldingBusy
<1>1. d = Course(m, <<n0>>)
  BY CleanedIs
<1>2. /\ m.slot = NoSlot /\ m.task = memory.task /\ m.required = memory.required
      /\ m.unknown = memory.unknown /\ m.seq = memory.seq /\ m.phase = memory.phase /\ Handles(m) = Handles(memory)
  BY <1>0, FreedTyped, FreedView
<1>3. n0 \in RecordType /\ n0.kind = "recovery_result"
  BY <1>0, NotesTyped DEF Kinds
<1> HIDE DEF m, n0
<1>4. d.memory = m /\ d.records = Append(e.records, n0) /\ e.records = <<>>
  <2>1. d.memory = m /\ d.records = <<n0>> /\ e.records = <<>>
    <3> DEFINE y == <<n0>>
    <3>1. d = Course(m, y)
      BY <1>1
    <3>2. \A x, z : Course(x, z).memory = x /\ Course(x, z).records = z
      BY DEF Course
    <3> HIDE DEF y
    <3>3. d.memory = m /\ d.records = y /\ e.records = <<>>
      BY <3>1, <3>2, ZenonT(30) DEF e
    <3> QED
      BY <3>3 DEF y
  <2> QED
    BY <2>1, Spliced
<1> HIDE DEF e
<1>5. Safe(e, hs, Bound) /\ At(e) = Base(journal)
  BY <1>4, NothingSafe
<1>6. Quiet(n0) /\ ~IsCall(n0) /\ \A x : ~Removes(At(e), n0, x)
  BY <1>3 DEF Quiet, IsCall, Removes
<1>7. Safe(d, hs, Bound) /\ Less(e, d, hs)
  BY <1>0, <1>3, <1>4, <1>5, <1>6, QuietAppend
<1>8. (Finds(Base(journal), hs) => Finds(At(d), hs)) /\ Known(At(d)) \subseteq Known(Base(journal))
  BY <1>5, <1>7 DEF Less
<1>9. ~memory.required => Known(At(d)) \subseteq Handles(d.memory)
  BY <1>2, <1>4, <1>8 DEF Holding, Owns
<1>10. Owns(d.memory, At(d), hs) /\ Watched(d, hs)
  BY <1>2, <1>4, <1>7, <1>8, <1>9, OwnsOn
<1>11. TaskInv(d.memory, nextId)
  <2>1. NoSlot.id = 0 /\ nextId \in Nat \ {0}
    BY <1>0 DEF NoSlot, TypeInv, StateTypeOK
  <2>2. memory.phase # "not_started" /\ \A h \in memory.task.todo : h.id < nextId
    BY HoldingBusy DEF Holding, TaskInv
  <2>3. d.memory.slot = NoSlot /\ d.memory.phase = memory.phase /\ d.memory.task = memory.task
    BY <1>2, <1>4
  <2>4. d.memory.task.kind = "startup" /\ d.memory.phase # "not_started"
    BY <2>2, <2>3
  <2>5. d.memory.slot.id < nextId
    <3>1. d.memory.slot.id = 0
      <4>1. NoSlot.id = 0
        BY <2>1
      <4>2. d.memory.slot = NoSlot
        BY <2>3
      <4> QED
        BY <4>1, <4>2, Zenon
    <3>2. 0 < nextId
      <4>1. nextId \in Nat \ {0}
        BY <2>1
      <4> QED
        BY <4>1
    <3> QED
      BY <3>1, <3>2
  <2> QED
    BY <2>2, <2>3, <2>4, <2>5 DEF TaskInv
<1> QED
  BY <1>10, <1>11 DEF Ready

LEMMA StartupSettles ==
  ASSUME NEW may, InStep(may), memory.slot # NoSlot, memory.task.kind = "startup", NEW hs, Holding(hs),
         NEW says \in Says \ {"id"}, NEW id \in Nat, Confirms(says) => memory.slot.id \notin hs,
         NEW c \in Answers(says, id)
  PROVE  Settles(c, hs)
<1> DEFINE e == Cleaned(Freed(memory), memory.slot, Confirms(says))
           d == Course(e.memory, <<ResultOf(memory.slot, says, id)>> \o e.records)
<1>1. c \in NextCleanup(d) \cup {Recovered(d)}
  BY DEF Answers, ResultOf, Freed
<1>2. Acceptable(says, id, may)
  BY DEF Acceptable
<1>3. KeepsUp(d, may) /\ d.memory.task.kind = "startup"
  BY <1>2, CleanedKeepsUp
<1>4. Idle(d)
  BY <1>3 DEF KeepsUp
<1>5. Ready(d, hs)
  BY <1>4, CleanedReady
<1>6. TypeInv
  BY DEF InStep
<1> HIDE DEF d
<1> QED
  BY <1>1, <1>3, <1>5, <1>6, NextCleanupSettles, RecoveredSettles
CancelCourse(says, id) ==
  IF Confirms(says)
  THEN Course(Dropped(Freed(memory), memory.slot),
              Append(<<ResultOf(memory.slot, says, id)>>, Note(memory.slot, "registry_transition", "unsubscribed")))
  ELSE Course([Freed(memory) EXCEPT !.task = [memory.task EXCEPT !.failed = TRUE]],
              <<ResultOf(memory.slot, says, id)>>)

\* What is left of the registry when a handle is dropped.
LEMMA DroppedLess ==
  ASSUME NEW m \in MemoryType, NEW slot \in SlotType, Handle(slot.id, slot.about) \in Handles(m)
  PROVE  /\ Handles(Dropped(m, slot)) \subseteq Handles(m) \ {Handle(slot.id, slot.about)}
         /\ Dropped(m, slot).unknown = m.unknown
<1> DEFINE h == Handle(slot.id, slot.about)
           d == Dropped(m, slot)
           ss == [s \in Symbols |-> IF s \in slot.about THEN 0 ELSE m.singles[s]]
<1>0. m.whole \in WholeType /\ m.singles \in [Symbols -> Nat] /\ h.id = slot.id /\ h.about = slot.about
      /\ slot.about \in SUBSET Symbols
  BY HandleParts DEF MemoryType, SlotType
<1>1. CASE slot.about = {}
  <2>1. d = [m EXCEPT !.whole = NoWhole]
    BY <1>1 DEF Dropped
  <2>2. d.whole = NoWhole /\ d.singles = m.singles /\ d.unknown = m.unknown
    BY <2>1 DEF MemoryType
  <2> HIDE DEF d, h
  <2>3. ASSUME NEW k \in Handles(d) PROVE k \in Handles(m) /\ k # h
    <3>0. \/ d.whole # NoWhole /\ k = Handle(d.whole.id, {})
          \/ \E s \in Symbols : d.singles[s] # 0 /\ k = Handle(d.singles[s], {s})
      BY <2>3, InHandles
    <3>1. PICK s \in Symbols : m.singles[s] # 0 /\ k = Handle(m.singles[s], {s})
      BY <2>2, <3>0
    <3>2. k.about = {s}
      BY <3>1, HandleParts
    <3>3. k \in Handles(m)
      BY <3>1, InHandles
    <3> QED
      BY <1>0, <1>1, <3>2, <3>3
  <2> QED
    BY <2>2, <2>3 DEF d, h
<1>2. CASE slot.about # {}
  <2>1. d = [m EXCEPT !.singles = ss]
    BY <1>2 DEF Dropped, MemoryType
  <2> HIDE DEF ss
  <2>2. d.whole = m.whole /\ d.singles = ss /\ d.unknown = m.unknown
    BY <2>1 DEF MemoryType
  <2> HIDE DEF d, h
  <2>3. ASSUME NEW k \in Handles(d) PROVE k \in Handles(m) /\ k # h
    <3>1. CASE m.whole # NoWhole /\ k = Handle(m.whole.id, {})
      <4>1. k.about = {} /\ k \in Handles(m)
        BY <3>1, HandleParts, InHandles
      <4> QED
        BY <1>0, <1>2, <4>1
    <3>2. ASSUME NEW s \in Symbols, ss[s] # 0, k = Handle(ss[s], {s}) PROVE k \in Handles(m) /\ k # h
      <4>1. s \notin slot.about /\ ss[s] = m.singles[s]
        BY <3>2 DEF ss
      <4>2. k.about = {s}
        BY <3>2, HandleParts
      <4>3. k \in Handles(m)
        BY <3>2, <4>1, InHandles
      <4> QED
        BY <1>0, <4>1, <4>2, <4>3
    <3>3. \/ d.whole # NoWhole /\ k = Handle(d.whole.id, {})
          \/ \E s \in Symbols : d.singles[s] # 0 /\ k = Handle(d.singles[s], {s})
      BY <2>3, InHandles
    <3> QED
      BY <2>2, <3>1, <3>2, <3>3
  <2> QED
    BY <2>2, <2>3 DEF d, h
<1> QED
  BY <1>1, <1>2

LEMMA ShornKnown ==
  ASSUME NEW v, OneEach(v.known), NEW id
  PROVE  Shorn(v, id).known = WithoutId(v.known, id)
<1>1. CASE id \in Ids(v.known)
  <2>1. PICK h \in v.known : h.id = id
    BY <1>1 DEF Ids
  <2>2. Shorn(v, h.id) = Cleared(v, h)
    BY <2>1, ShornIs
  <2> QED
    BY <2>1, <2>2 DEF Cleared
<1>2. CASE id \notin Ids(v.known)
  BY <1>2 DEF Shorn, Ids, WithoutId
<1> QED
  BY <1>1, <1>2

\* The reply to a cancel of a request.
LEMMA CancelReady ==
  ASSUME NEW may, InStep(may), memory.slot # NoSlot, memory.task.kind # "startup", memory.slot.method = "cancel",
         NEW hs, Holding(hs), NEW says \in Says \ {"id"}, NEW id \in Nat,
         Confirms(says) => memory.slot.id \notin hs,
         NEW d, d = CancelCourse(says, id), Idle(d)
  PROVE  Ready(d, hs)
<1> DEFINE slot == memory.slot
           r == ResultOf(slot, says, id)
           e == Course(memory, <<r>>)
           m == Freed(memory)
           t == Note(slot, "registry_transition", "unsubscribed")
           u == [memory.task EXCEPT !.failed = TRUE]
           h == Handle(slot.id, slot.about)
           n == [m EXCEPT !.task = u]
           drop == Dropped(m, slot)
<1>0. /\ TypeInv /\ memory \in MemoryType /\ slot \in SlotType /\ slot.id \in Nat /\ memory.task \in TaskType
      /\ Bound \in Nat /\ ~memory.required /\ memory.phase # "not_started" /\ nextId \in Nat \ {0}
      /\ memory.task.kind \in {"sync", "unsubscribe"} /\ h \in Handles(memory)
      /\ memory.whole = View(Base(journal).known).whole /\ memory.singles = View(Base(journal).known).singles
      /\ View(Base(journal).known) \in ViewType /\ Sound(View(Base(journal).known), may)
  BY HoldingBusy, InStepRequest DEF SlotType, MemoryType, TypeInv, StateTypeOK
<1>1. e.records = <<r>>
  BY DEF Course
<1>2. /\ m \in MemoryType /\ m.slot = NoSlot /\ m.task = memory.task /\ m.required = memory.required
      /\ m.unknown = memory.unknown /\ m.seq = memory.seq /\ m.phase = memory.phase
      /\ m.whole = memory.whole /\ m.singles = memory.singles /\ Handles(m) = Handles(memory)
  BY <1>0, FreedTyped, FreedView
<1>3. t \in RecordType /\ t.kind = "registry_transition" /\ t.what = "unsubscribed" /\ t.id = slot.id
  BY <1>0, NotesTyped DEF Kinds
<1>4. Acceptable(says, id, may)
  BY DEF Acceptable
<1>5. /\ memory.unknown = 0 /\ Known(Base(journal)) \subseteq Handles(memory)
      /\ memory.task.kind = "unsubscribe" => memory.task.desired = {}
      /\ memory.task.kind = "sync" /\ ~memory.task.failed => Handles(memory) \subseteq memory.task.todo \cup {h}
      /\ \A k \in memory.task.todo : k.id < nextId
  BY <1>0 DEF Holding, Owns, TaskInv, Doing
<1>6. /\ Confirms(says) => /\ d.memory = drop
                           /\ d.records = Append(<<r>>, t)
      /\ ~Confirms(says) => d.memory = n /\ d.records = <<r>>
  BY DEF CancelCourse, Course
<1>7. NoSlot.id = 0 /\ 0 < nextId
  <2>1. NoSlot.id = 0
    BY DEF NoSlot
  <2>2. 0 < nextId
    BY <1>0
  <2> QED
    BY <2>1, <2>2
<1>8. u \in TaskType /\ u.kind = memory.task.kind /\ u.todo = memory.task.todo /\ u.desired = memory.task.desired
      /\ u.failed
  BY <1>0 DEF TaskType
<1> HIDE DEF u, m
<1>9. /\ n.slot = NoSlot /\ n.task = u /\ n.seq = m.seq /\ n.phase = m.phase
      /\ n.required = m.required /\ n.unknown = m.unknown
      /\ n.whole = m.whole /\ n.singles = m.singles
  BY <1>2, <1>8 DEF MemoryType
<1>10. /\ drop.required = m.required /\ drop.task = m.task /\ drop.phase = m.phase
       /\ drop.slot = m.slot /\ drop.seq = m.seq /\ drop.unknown = m.unknown
       /\ \A k \in Handles(m) : k # h => k \in Handles(drop)
       /\ Handles(drop) \subseteq Handles(m) \ {h}
  BY <1>0, <1>2, DroppedIs, DroppedLess
<1> HIDE DEF e, r, n, drop, t, h
<1>11. /\ Safe(e, hs, Bound) /\ (Finds(Base(journal), hs) => Finds(At(e), hs))
       /\ Known(At(e)) \subseteq Known(Base(journal)) /\ At(e) \in ReplayType
  BY <1>0, <1>1, ResultSafe DEF r
<1>12. CASE Confirms(says)
  <2>1. d.records = Append(e.records, t) /\ d.memory = drop
    BY <1>1, <1>6, <1>12
  <2>2. Quiet(t) /\ ~IsCall(t) /\ \A x : Removes(At(e), t, x) => x \notin hs
    BY <1>3, <1>12 DEF Quiet, IsCall, Removes
  <2>3. Safe(d, hs, Bound) /\ Less(e, d, hs) /\ At(d) = Step(At(e), t)
    BY <1>0, <1>3, <1>11, <2>1, <2>2, QuietAppend
  <2>4. (Finds(Base(journal), hs) => Finds(At(d), hs)) /\ Known(At(d)) \subseteq Known(Base(journal))
    BY <1>11, <2>3 DEF Less
  <2>5. Known(At(d)) = WithoutId(Known(At(e)), slot.id)
    <3>1. Durable(At(e), may)
      BY <1>1, <1>4, ResultKept DEF r
    <3>2. View(Step(At(e), t).known) = Shorn(View(At(e).known), slot.id)
      BY <1>3, <1>11, <3>1, StepResolved
    <3>3. OneEach(View(At(e).known).known)
      BY <3>1 DEF Durable, Sound
    <3>4. View(At(d).known).known = WithoutId(View(At(e).known).known, slot.id)
      BY <2>3, <3>2, <3>3, ShornKnown
    <3> QED
      BY <3>4 DEF View, Known
  <2>6. Known(At(d)) \subseteq Handles(drop)
    <3>1. ASSUME NEW k \in Known(At(d)) PROVE k \in Handles(drop)
      <4>1. k.id # slot.id
        BY <2>5, <3>1 DEF WithoutId
      <4>2. k \in Handles(m)
        BY <1>2, <1>5, <2>4, <3>1
      <4>3. k # h
        BY <4>1, HandleParts DEF h
      <4> QED
        BY <1>10, <4>2, <4>3
    <3> QED
      BY <3>1
  <2>7. /\ d.memory.slot = NoSlot /\ d.memory.required = memory.required /\ d.memory.unknown = memory.unknown
        /\ d.memory.seq = memory.seq /\ d.memory.phase = memory.phase /\ d.memory.task = memory.task
    BY <1>2, <1>10, <2>1
  <2>8. Owns(d.memory, At(d), hs) /\ Watched(d, hs)
    BY <2>1, <2>3, <2>4, <2>6, <2>7, OwnsOn
  <2>9. TaskInv(d.memory, nextId)
    <3>1. d.memory.phase # "not_started" /\ d.memory.slot.id < nextId
      BY <1>0, <1>7, <2>7
    <3>2. memory.task.kind = "sync" /\ ~memory.task.failed => Handles(d.memory) \subseteq memory.task.todo
      BY <1>2, <1>5, <1>10, <2>1
    <3> QED
      BY <1>5, <2>7, <3>1, <3>2 DEF TaskInv
  <2> QED
    BY <2>8, <2>9 DEF Ready
<1>13. CASE ~Confirms(says)
  <2>1. d.memory = n /\ d.records = e.records
    BY <1>1, <1>6, <1>13
  <2>2. At(d) = At(e) /\ Safe(d, hs, Bound)
    BY <1>11, <2>1 DEF Safe, At, Watched, WatchedTo
  <2>3. /\ d.memory.slot = NoSlot /\ d.memory.required = memory.required /\ d.memory.unknown = memory.unknown
        /\ d.memory.seq = memory.seq /\ d.memory.phase = memory.phase /\ d.memory.task = u
        /\ d.memory.whole = m.whole /\ d.memory.singles = m.singles
    BY <1>2, <1>9, <2>1
  <2>4. Handles(d.memory) = Handles(memory)
    BY <1>2, <2>3 DEF Handles
  <2>5. Known(At(d)) \subseteq Handles(d.memory)
    BY <1>5, <1>11, <2>2, <2>4
  <2>6. Owns(d.memory, At(d), hs) /\ Watched(d, hs)
    BY <1>8, <1>11, <2>2, <2>3, <2>5, OwnsOn
  <2>7. TaskInv(d.memory, nextId)
    <3>1. d.memory.phase # "not_started" /\ d.memory.slot.id < nextId
      BY <1>0, <1>7, <2>3
    <3> QED
      BY <1>0, <1>5, <1>8, <2>3, <3>1 DEF TaskInv
  <2> QED
    BY <2>6, <2>7 DEF Ready
<1> QED
  BY <1>12, <1>13

LEMMA CancelKeepsUp ==
  ASSUME NEW may, InStep(may), memory.slot # NoSlot, memory.task.kind # "startup",
         memory.slot.method = "cancel", NEW says \in Says, NEW id \in Nat, Acceptable(says, id, may),
         NEW next, next = CancelCourse(says, id)
  PROVE  KeepsUp(next, may) /\ next.memory.task.kind \in {"sync", "unsubscribe"}
<1> DEFINE slot == memory.slot
           m == Freed(memory)
           result == ResultOf(slot, says, id)
           e == Course(m, <<result>>)
           v == View(Base(journal).known)
           h == Handle(slot.id, slot.about)
           t == Note(slot, "registry_transition", "unsubscribed")
           u == [memory.task EXCEPT !.failed = TRUE]
<1>0. /\ TypeInv /\ memory \in MemoryType /\ slot \in SlotType
      /\ ~memory.required /\ memory.candidates = {} /\ ~Recovering(memory)
      /\ memory.whole = v.whole /\ memory.singles = v.singles
      /\ memory.task.kind \in {"sync", "unsubscribe"} /\ h \in Handles(memory) \ memory.task.todo
      /\ v \in ViewType /\ Sound(v, may) /\ memory.phase # "not_started"
  BY InStepRequest DEF Recovering
<1>1. slot.id \in Nat /\ slot.about \in SUBSET Symbols /\ memory.task \in TaskType
  BY <1>0 DEF SlotType, MemoryType
<1>2. /\ m \in MemoryType /\ m.slot = NoSlot /\ m.task = memory.task /\ m.seq = memory.seq
      /\ m.phase = memory.phase /\ m.required = memory.required /\ m.candidates = memory.candidates
      /\ m.whole = v.whole /\ m.singles = v.singles /\ Handles(m) = Handles(memory)
  BY <1>0, FreedTyped, FreedView
<1>3. next = IF Confirms(says) THEN Course(Dropped(m, slot), Append(<<result>>, t))
             ELSE Course([m EXCEPT !.task = u], <<result>>)
  BY DEF CancelCourse
<1>4. e.records = <<result>>
  BY DEF Course
<1>5. /\ e.records \in Seq(RecordType) /\ Prefixed(e, may) /\ At(e) \in ReplayType /\ Durable(At(e), may)
      /\ e.records[1].kind = "native_result"
      /\ View(At(e).known) = v \/ (says = "false" /\ View(At(e).known) = Shorn(v, slot.id))
  <2> HIDE DEF e
  <2> QED
    BY <1>0, <1>4, ResultKept
<1> HIDE DEF e, m, v, h, result
<1>6. CASE Confirms(says)
  <2>1. t \in RecordType /\ t.kind = "registry_transition" /\ t.what = "unsubscribed" /\ t.id = slot.id
    BY <1>0, NotesTyped DEF Kinds
  <2> HIDE DEF t
  <2>2. next.memory = Dropped(m, slot) /\ next.records = Append(e.records, t)
    BY <1>3, <1>4, <1>6 DEF Course
  <2> DEFINE d == Dropped(m, slot)
  <2>3. /\ d \in MemoryType /\ d.whole = Shorn(v, slot.id).whole /\ d.singles = Shorn(v, slot.id).singles
        /\ d.candidates = m.candidates /\ d.required = m.required
        /\ d.task = m.task /\ d.phase = m.phase /\ d.slot = m.slot /\ d.seq = m.seq
        /\ \A k \in Handles(m) : k # h => k \in Handles(d)
    BY <1>0, <1>2, DroppedIs DEF h
  <2> HIDE DEF d
  <2>4. next.memory = d
    BY <2>2 DEF d
  <2>5. View(Step(At(e), t).known) = Shorn(View(At(e).known), slot.id) /\ Durable(Step(At(e), t), may)
    BY <1>5, <2>1, StepResolved
  <2>6. View(Step(At(e), t).known) = Shorn(v, slot.id)
    BY <1>0, <1>5, <2>5, SoundShorn
  <2>7. At(next) = Step(At(e), t) /\ Prefixed(next, may) /\ next.records \in Seq(RecordType)
    BY <1>0, <1>5, <2>1, <2>2, <2>5, PrefixedAppend
  <2>8. next.records # <<>> /\ next.records[1].kind # "registry_transition"
    <3>1. e.records # <<>>
      BY <1>4
    <3> QED
      BY <1>5, <2>1, <2>2, <3>1, AppendTyped
  <2>9. Idle(next)
    BY <1>0, <1>2, <2>3, <2>4, <2>7, <2>8 DEF Idle, TypedCourse
  <2>10. Reads(next.memory, At(next).known)
    <3>1. At(next).known.whole = Shorn(v, slot.id).whole /\ At(next).known.singles = Shorn(v, slot.id).singles
      BY <2>6, <2>7 DEF View
    <3>2. ~Recovering(next.memory) /\ ~next.memory.required /\ next.memory.candidates = {}
      BY <1>0, <1>2, <2>3, <2>4 DEF Recovering
    <3> QED
      BY <2>3, <2>4, <3>1, <3>2 DEF Reads
  <2>11. TodoInv(next.memory)
    <3>1. next.memory.task.todo = memory.task.todo /\ memory.task.todo \subseteq Handles(m)
      BY <1>0, <1>2, <2>3, <2>4 DEF InStep, TodoInv
    <3> QED
      BY <1>0, <2>3, <2>4, <3>1 DEF TodoInv
  <2>12. KeepsUp(next, may)
    BY <2>7, <2>9, <2>10, <2>11 DEF KeepsUp
  <2>13. next.memory.task.kind \in {"sync", "unsubscribe"}
    BY <1>0, <1>2, <2>3, <2>4
  <2> QED
    BY <2>12, <2>13
<1>7. CASE ~Confirms(says)
  <2>1. u \in TaskType /\ u.kind = memory.task.kind /\ u.todo = memory.task.todo
    BY <1>1 DEF TaskType
  <2> HIDE DEF u
  <2> DEFINE n == [m EXCEPT !.task = u]
  <2>2. /\ n \in MemoryType /\ n.slot = NoSlot /\ n.task = u /\ n.seq = memory.seq /\ n.phase = memory.phase
        /\ n.required = memory.required /\ n.candidates = memory.candidates
        /\ n.whole = m.whole /\ n.singles = m.singles
    BY <1>2, <2>1 DEF MemoryType
  <2>3. next.memory = n /\ next.records = e.records
    BY <1>3, <1>4, <1>7 DEF Course
  <2> HIDE DEF n
  <2>4. At(next) = At(e) /\ Prefixed(next, may)
    BY <1>5, <2>3 DEF At, Prefixed
  <2>5. View(At(e).known) = v
    BY <1>5, <1>7 DEF Confirms
  <2>6. Idle(next)
    BY <1>0, <1>5, <2>1, <2>2, <2>3 DEF Idle, TypedCourse
  <2>7. Reads(next.memory, At(next).known)
    <3>1. At(next).known.whole = v.whole /\ At(next).known.singles = v.singles
      BY <2>4, <2>5 DEF View
    <3>2. ~Recovering(next.memory) /\ ~next.memory.required /\ next.memory.candidates = {}
      BY <1>0, <2>1, <2>2, <2>3 DEF Recovering
    <3> QED
      BY <1>2, <2>2, <2>3, <3>1, <3>2 DEF Reads
  <2>8. TodoInv(next.memory)
    <3>1. Handles(n) = Handles(m)
      BY <2>2 DEF Handles
    <3> QED
      BY <1>0, <1>2, <2>1, <2>2, <2>3, <3>1 DEF InStep, TodoInv
  <2>9. KeepsUp(next, may)
    BY <2>4, <2>6, <2>7, <2>8 DEF KeepsUp
  <2> QED
    BY <1>0, <2>1, <2>2, <2>3, <2>9
<1> QED
  BY <1>6, <1>7

LEMMA CancelGoesOn ==
  ASSUME memory.task.kind # "startup", memory.slot.method = "cancel", memory \in MemoryType,
         NEW says, NEW id, NEW c \in Answers(says, id)
  PROVE  c \in NextOfRequest(CancelCourse(says, id))
<1> DEFINE m == Freed(memory)
           u == [memory.task EXCEPT !.failed = TRUE]
<1>1. m \in MemoryType /\ m.task = memory.task
  BY FreedTyped
<1>2. [m EXCEPT !.task.failed = TRUE] = [m EXCEPT !.task = u]
  BY <1>1 DEF MemoryType, TaskType
<1> QED
  BY <1>2 DEF Answers, Freed, ResultOf, CancelCourse, Note

CancelLost == Course([Freed(memory) EXCEPT !.task = [memory.task EXCEPT !.failed = TRUE]], <<>>)

LEMMA LostKeepsUp ==
  ASSUME NEW may, InStep(may), memory.slot # NoSlot, memory.task.kind # "startup",
         memory.slot.method = "cancel", NEW next, next = CancelLost
  PROVE  KeepsUp(next, may) /\ next.memory.task.kind \in {"sync", "unsubscribe"}
<1> DEFINE m == Freed(memory)
           u == [memory.task EXCEPT !.failed = TRUE]
           n == [m EXCEPT !.task = u]
<1>0. /\ TypeInv /\ Durable(Base(journal), may) /\ memory \in MemoryType
      /\ ~memory.required /\ memory.candidates = {} /\ memory.phase # "not_started"
      /\ memory.whole = Base(journal).known.whole /\ memory.singles = Base(journal).known.singles
      /\ memory.task \in TaskType /\ memory.task.kind \in {"sync", "unsubscribe"}
  BY InStepRequest DEF Recovering, View, MemoryType, InStep
<1>1. /\ m \in MemoryType /\ m.slot = NoSlot /\ m.task = memory.task /\ m.seq = memory.seq
      /\ m.phase = memory.phase /\ m.required = memory.required /\ m.candidates = memory.candidates
      /\ m.whole = memory.whole /\ m.singles = memory.singles /\ Handles(m) = Handles(memory)
  BY <1>0, FreedTyped, FreedView
<1>2. next = Course(n, <<>>)
  BY DEF CancelLost
<1>3. u \in TaskType /\ u.kind = memory.task.kind /\ u.todo = memory.task.todo
  BY <1>0 DEF TaskType
<1> HIDE DEF u, m
<1>4. /\ n \in MemoryType /\ n.slot = NoSlot /\ n.task = u /\ n.seq = memory.seq
      /\ n.phase = memory.phase /\ n.required = memory.required /\ n.candidates = memory.candidates
      /\ n.whole = memory.whole /\ n.singles = memory.singles
  BY <1>1, <1>3 DEF MemoryType
<1>5. next.memory = n /\ next.records = <<>> /\ next.records \in Seq(RecordType)
  BY <1>2 DEF Course
<1> HIDE DEF n
<1>6. At(next) = Base(journal) /\ Prefixed(next, may)
  BY <1>0, <1>5, PrefixedNothing
<1>7. Idle(next)
  BY <1>0, <1>3, <1>4, <1>5 DEF Idle, TypedCourse
<1>8. Reads(next.memory, At(next).known)
  BY <1>0, <1>3, <1>4, <1>5, <1>6 DEF Reads, Recovering
<1>9. TodoInv(next.memory)
  <2>1. Handles(n) = Handles(memory)
    BY <1>4 DEF Handles
  <2> QED
    BY <1>3, <1>4, <1>5, <2>1 DEF InStep, TodoInv
<1> QED
  BY <1>0, <1>3, <1>4, <1>5, <1>6, <1>7, <1>8, <1>9 DEF KeepsUp

LEMMA LostGoesOn ==
  ASSUME memory.task.kind # "startup", memory.slot.method = "cancel", memory \in MemoryType,
         NEW c \in Timeouts
  PROVE  c \in NextOfRequest(CancelLost)
<1> DEFINE m == Freed(memory)
           u == [memory.task EXCEPT !.failed = TRUE]
<1>1. m \in MemoryType /\ m.task = memory.task
  BY FreedTyped
<1>2. [m EXCEPT !.task.failed = TRUE] = [m EXCEPT !.task = u]
  BY <1>1 DEF MemoryType, TaskType
<1> QED
  BY <1>2 DEF Timeouts, Freed, CancelLost

LEMMA LostReady ==
  ASSUME NEW may, InStep(may), memory.slot # NoSlot, memory.task.kind # "startup", memory.slot.method = "cancel",
         NEW hs, Holding(hs), NEW d, d = CancelLost, Idle(d)
  PROVE  Ready(d, hs)
<1> DEFINE m == Freed(memory)
           u == [memory.task EXCEPT !.failed = TRUE]
           n == [m EXCEPT !.task = u]
<1>0. /\ TypeInv /\ memory \in MemoryType /\ memory.task \in TaskType
      /\ ~memory.required /\ memory.phase # "not_started" /\ nextId \in Nat \ {0}
      /\ memory.task.kind \in {"sync", "unsubscribe"}
  BY HoldingBusy, InStepRequest DEF MemoryType, TypeInv, StateTypeOK
<1>1. d = Course(n, <<>>)
  BY DEF CancelLost
<1>2. /\ m \in MemoryType /\ m.slot = NoSlot /\ m.required = memory.required
      /\ m.unknown = memory.unknown /\ m.seq = memory.seq /\ m.phase = memory.phase
      /\ m.whole = memory.whole /\ m.singles = memory.singles
  BY <1>0, FreedTyped
<1>3. u.kind = memory.task.kind /\ u.todo = memory.task.todo /\ u.desired = memory.task.desired /\ u.failed
  BY <1>0 DEF TaskType
<1> HIDE DEF u, m
<1>4. /\ n.slot = NoSlot /\ n.task = u /\ n.seq = memory.seq /\ n.phase = memory.phase
      /\ n.required = memory.required /\ n.unknown = memory.unknown
      /\ n.whole = memory.whole /\ n.singles = memory.singles
  BY <1>2 DEF MemoryType
<1>5. d.memory = n /\ d.records = <<>>
  BY <1>1 DEF Course
<1> HIDE DEF n
<1>6. Safe(d, hs, Bound) /\ At(d) = Base(journal)
  BY <1>5, NothingSafe
<1>7. Handles(d.memory) = Handles(memory)
  BY <1>4, <1>5, ZenonT(30) DEF Handles
<1>8. /\ Known(At(d)) \subseteq Handles(d.memory)
      /\ memory.task.kind = "unsubscribe" => memory.task.desired = {}
      /\ \A k \in memory.task.todo : k.id < nextId
  BY <1>0, <1>6, <1>7 DEF Holding, Owns, TaskInv
<1>9. Owns(d.memory, At(d), hs) /\ Watched(d, hs)
  BY <1>3, <1>4, <1>5, <1>6, <1>8, OwnsOn
<1>10. TaskInv(d.memory, nextId)
  <2>1. NoSlot.id = 0
    BY DEF NoSlot
  <2>2. 0 < nextId
    BY <1>0
  <2>3. d.memory.phase # "not_started" /\ d.memory.slot.id < nextId
    BY <1>0, <1>4, <1>5, <2>1, <2>2
  <2> QED
    BY <1>0, <1>3, <1>4, <1>5, <1>8, <2>3 DEF TaskInv
<1> QED
  BY <1>9, <1>10 DEF Ready

LEMMA CancelSettles ==
  ASSUME NEW may, InStep(may), memory.slot # NoSlot, memory.task.kind # "startup", memory.slot.method = "cancel",
         NEW hs, Holding(hs), NEW says \in Says \ {"id"}, NEW id \in Nat,
         Confirms(says) => memory.slot.id \notin hs, NEW c \in Answers(says, id)
  PROVE  Settles(c, hs)
<1> DEFINE d == CancelCourse(says, id)
<1>1. TypeInv /\ memory \in MemoryType
  BY HoldingBusy
<1>2. c \in NextOfRequest(d)
  BY <1>1, CancelGoesOn
<1>3. Acceptable(says, id, may)
  BY DEF Acceptable
<1>4. KeepsUp(d, may) /\ d.memory.task.kind \in {"sync", "unsubscribe"}
  BY <1>3, CancelKeepsUp
<1>5. Idle(d)
  BY <1>4 DEF KeepsUp
<1>6. Ready(d, hs)
  BY <1>5, CancelReady
<1> HIDE DEF d
<1> QED
  BY <1>1, <1>2, <1>4, <1>6, NextOfRequestSettles

\* A request whose subscription was refused or not answered.
LEMMA FailedSettles ==
  ASSUME NEW may, InStep(may), memory.slot # NoSlot, memory.task.kind # "startup", NEW hs, Holding(hs),
         NEW c, c.memory = Ended(Freed(memory)), Safe(c, hs, Bound),
         Finds(Base(journal), hs) => Finds(At(c), hs), Known(At(c)) \subseteq Known(Base(journal))
  PROVE  Settles(c, hs)
<1> DEFINE m == Freed(memory)
           b == Course(m, c.records)
<1>0. /\ TypeInv /\ memory \in MemoryType /\ memory.phase # "not_started" /\ ~memory.required
      /\ c.records \in Seq(RecordType) /\ Watched(c, hs)
  BY HoldingBusy, InStepRequest DEF Safe
<1>1. /\ m \in MemoryType /\ m.slot = NoSlot /\ m.task = memory.task /\ m.required = memory.required
      /\ m.unknown = memory.unknown /\ m.seq = memory.seq /\ m.phase = memory.phase /\ Handles(m) = Handles(memory)
  BY <1>0, FreedTyped, FreedView
<1> HIDE DEF m
<1>2. b.memory = m /\ b.records = c.records
  BY DEF Course
<1> HIDE DEF b
<1>3. At(b) = At(c) /\ Watched(b, hs)
  BY <1>0, <1>2 DEF At, Watched, WatchedTo
<1>4. Known(At(c)) \subseteq Handles(m)
  BY <1>0, <1>1 DEF Holding, Owns
<1>5. Owns(m, At(c), hs) /\ Cardinality(Known(At(c))) <= m.seq
  BY <1>0, <1>1, <1>4, OwnsOn
<1>6. m.unknown = 0 /\ Finds(At(c), hs)
  BY <1>0, <1>1, <1>5 DEF Owns
<1>7. c.memory = Ended(m)
  BY DEF m
<1> QED
  BY <1>0, <1>1, <1>2, <1>3, <1>4, <1>5, <1>6, <1>7, EndedSettles

\* The new id is found from its result on.
LEMMA StepGranted ==
  ASSUME NEW s \in ReplayType, NEW r \in RecordType, r.kind = "native_result", r.what = "id",
         NEW slot \in SlotType, r.seq = slot.seq, OneCall(s, slot), IntentOf(slot) \in s.pending,
         slot.method # "cancel"
  PROVE  \E about : Known(Step(s, r)) = WithoutId(Known(s), r.id) \cup {Handle(r.id, about)}
<1> DEFINE i == About(s, r)
           about == IF i.method = "whole" THEN {} ELSE i.about
<1>0. s.known \in KnownType /\ s.pending \in SUBSET IntentType /\ r.id \in Nat
  BY DEF ReplayType, RecordType
<1>1. i \in s.pending /\ i.seq = r.seq /\ i \in IntentType
  BY <1>0 DEF About, IntentOf
<1>2. i = IntentOf(slot)
  BY <1>1 DEF OneCall
<1>3. i.method # "cancel" /\ about \in SUBSET Symbols
  BY <1>1, <1>2 DEF IntentOf, IntentType
<1>4. Step(s, r) = [known |-> ReplayedResult(s.known, i, r.what, r.id), pending |-> s.pending \ {i}]
  BY <1>1 DEF Step, ReplayedRecord, About
<1> HIDE DEF i
<1>5. Step(s, r).known = Found(s.known, r.id, about)
  BY <1>3, <1>4 DEF ReplayedResult
<1> HIDE DEF about
<1>6. View(Step(s, r).known) = Added(View(s.known), r.id, about)
  BY <1>0, <1>3, <1>5, ViewFound
<1> QED
  BY <1>6 DEF View, Added, Known

LEMMA RegisteredHandles ==
  ASSUME NEW m \in MemoryType, NEW slot \in SlotType, NEW id \in Nat \ {0}, slot.method \in {"whole", "single"},
         slot.method = "whole" => Handles(m) = {},
         slot.method = "single" => \E x \in Symbols : slot.about = {x} /\ m.singles[x] = 0,
         NEW n, n = Registered(m, slot, id)
  PROVE  /\ Handles(m) \cup {Handle(id, IF slot.method = "whole" THEN {} ELSE slot.about)} \subseteq Handles(n)
         /\ n \in MemoryType /\ n.required = m.required /\ n.unknown = m.unknown /\ n.seq = m.seq /\ n.phase = m.phase
<1>0. m.whole \in WholeType /\ m.singles \in [Symbols -> Nat] /\ slot.about \in SUBSET Symbols
  BY DEF MemoryType, SlotType
<1>1. CASE slot.method = "whole"
  <2> DEFINE w == [id |-> id, symbols |-> slot.about]
  <2>1. n = [m EXCEPT !.whole = w] /\ w \in WholeType /\ w.id = id
    BY <1>0, <1>1 DEF Registered, WholeType
  <2>2. w # NoWhole
    BY <2>1 DEF NoWhole
  <2> HIDE DEF w
  <2>3. /\ n \in MemoryType /\ n.required = m.required /\ n.unknown = m.unknown /\ n.seq = m.seq /\ n.phase = m.phase
        /\ n.whole = w
    BY <2>1 DEF MemoryType
  <2>4. Handle(id, {}) \in Handles(n)
    <3>1. n.whole # NoWhole /\ Handle(id, {}) = Handle(n.whole.id, {})
      BY <2>1, <2>2, <2>3
    <3> QED
      BY <3>1, InHandles
  <2> QED
    BY <1>1, <2>3, <2>4
<1>2. CASE slot.method = "single"
  <2>1. PICK x \in Symbols : slot.about = {x} /\ m.singles[x] = 0
    BY <1>2
  <2> DEFINE ss == [s \in Symbols |-> IF s \in slot.about THEN id ELSE m.singles[s]]
  <2>2. n = [m EXCEPT !.singles = ss] /\ ss \in [Symbols -> Nat]
    BY <1>0, <1>2 DEF Registered, MemoryType
  <2>3. ss[x] = id /\ \A s \in Symbols : s # x => ss[s] = m.singles[s]
    BY <2>1
  <2> HIDE DEF ss
  <2>4. /\ n \in MemoryType /\ n.required = m.required /\ n.unknown = m.unknown /\ n.seq = m.seq /\ n.phase = m.phase
        /\ n.whole = m.whole /\ n.singles = ss
    BY <2>2 DEF MemoryType
  <2>5. Handle(id, {x}) \in Handles(n)
    <3>1. n.singles[x] # 0 /\ Handle(id, {x}) = Handle(n.singles[x], {x})
      BY <2>3, <2>4
    <3> QED
      BY <3>1, InHandles
  <2>6. ASSUME NEW k \in Handles(m) PROVE k \in Handles(n)
    <3>1. CASE m.whole # NoWhole /\ k = Handle(m.whole.id, {})
      <4>1. n.whole # NoWhole /\ k = Handle(n.whole.id, {})
        BY <2>4, <3>1
      <4> QED
        BY <4>1, InHandles
    <3>2. ASSUME NEW s \in Symbols, m.singles[s] # 0, k = Handle(m.singles[s], {s}) PROVE k \in Handles(n)
      <4>1. s # x
        BY <2>1, <3>2
      <4>2. n.singles[s] # 0 /\ k = Handle(n.singles[s], {s})
        BY <2>3, <2>4, <3>2, <4>1
      <4> QED
        BY <4>2, InHandles
    <3>3. \/ m.whole # NoWhole /\ k = Handle(m.whole.id, {})
          \/ \E s \in Symbols : m.singles[s] # 0 /\ k = Handle(m.singles[s], {s})
      BY <2>6, InHandles
    <3> QED
      BY <3>1, <3>2, <3>3
  <2> QED
    BY <1>2, <2>1, <2>4, <2>5, <2>6
<1> QED
  BY <1>1, <1>2

LEMMA AddedFinds ==
  ASSUME NEW s, NEW t, NEW id, NEW about, Known(t) = WithoutId(Known(s), id) \cup {Handle(id, about)},
         NEW hs, Finds(s, hs) \/ Finds(s, hs \cup {id})
  PROVE  Finds(t, hs \cup {id})
<1> SUFFICES ASSUME NEW i \in hs \cup {id} PROVE i \in Ids(Known(t))
  BY DEF Finds
<1>1. CASE i = id
  <2>1. Handle(id, about) \in Known(t) /\ Handle(id, about).id = i
    BY <1>1, HandleParts
  <2> QED
    BY <2>1 DEF Ids
<1>2. CASE i # id
  <2>1. PICK h \in Known(s) : h.id = i
    BY <1>2 DEF Finds, Ids
  <2>2. h \in Known(t)
    BY <1>2, <2>1 DEF WithoutId
  <2> QED
    BY <2>1, <2>2 DEF Ids
<1> QED
  BY <1>1, <1>2

LEMMA AddedFinite ==
  ASSUME NEW hs, IsFiniteSet(hs), NEW id, NEW about, NEW ks, ks = WithoutId(hs, id) \cup {Handle(id, about)}
  PROVE  /\ IsFiniteSet(ks) /\ Cardinality(ks) \in Nat /\ Cardinality(hs) \in Nat
         /\ Cardinality(ks) <= Cardinality(hs) + 1
<1> DEFINE ls == WithoutId(hs, id)
<1>1. ls \subseteq hs
  BY DEF WithoutId
<1> HIDE DEF ls
<1>2. IsFiniteSet(ls) /\ Cardinality(ls) <= Cardinality(hs)
  BY <1>1, FS_Subset
<1>3. Cardinality(ls) \in Nat /\ Cardinality(hs) \in Nat
  BY <1>2, FS_CardinalityType
<1>4. ks = ls \cup {Handle(id, about)}
  BY DEF ls
<1>5. IsFiniteSet(ks) /\ (Cardinality(ks) = Cardinality(ls) \/ Cardinality(ks) = Cardinality(ls) + 1)
  BY <1>2, <1>4, FS_AddElement
<1> QED
  BY <1>2, <1>3, <1>5

\* The id of a subscription is found at once, in the pending call before the
\* journal has the result.
LEMMA GrantedSettles ==
  ASSUME NEW may, InStep(may), memory.slot # NoSlot, memory.task.kind # "startup", memory.slot.method # "cancel",
         NEW hs, Holding(hs), NEW id \in Nat \ {0}, Acceptable("id", id, may), NEW c \in Answers("id", id)
  PROVE  Settles(c, hs \cup {id})
<1> DEFINE slot == memory.slot
           m == Freed(memory)
           r == ResultOf(slot, "id", id)
           e == Course(m, <<r>>)
           z == Course(m, <<>>)
           t == Record("registry_transition", 0, slot.method, id, slot.about)
           n == Registered(m, slot, id)
           b == Course(n, c.records)
           s == Base(journal)
           all == hs \cup {id}
           h == Handle(id, IF slot.method = "whole" THEN {} ELSE slot.about)
<1>0. /\ TypeInv /\ memory \in MemoryType /\ slot \in SlotType /\ slot.seq = memory.seq /\ memory.seq \in Nat
      /\ ~memory.required /\ memory.phase # "not_started" /\ Waits(memory) = 1
      /\ slot.method \in {"whole", "single"} /\ (slot.method = "single" => \E x \in Symbols : slot.about = {x})
      /\ s \in ReplayType /\ OneCall(s, slot)
      /\ View(s.known) \in ViewType
  BY HoldingBusy, InStepRequest
<1>1. /\ memory.unknown = 0 /\ Finds(s, hs) /\ Known(s) \subseteq Handles(memory) /\ IsFiniteSet(Known(s))
      /\ Cardinality(Known(s)) + 1 <= memory.seq
      /\ slot.method = "whole" => Handles(memory) = {}
      /\ slot.method = "single" => \A x \in slot.about : ~HasSymbol(memory, x)
      /\ IntentOf(slot) \in s.pending
  BY <1>0 DEF Holding, Owns, CallsFor
<1>2. /\ m \in MemoryType /\ m.phase = memory.phase /\ m.required = memory.required /\ m.seq = memory.seq
      /\ m.unknown = memory.unknown /\ m.singles = memory.singles /\ Handles(m) = Handles(memory)
  BY <1>0, FreedTyped, FreedView
<1>3. c = Course(Ended(n), Append(<<r>>, t))
  BY <1>0 DEF Answers, Freed, ResultOf
<1>4. e.records = <<r>> /\ z.records = <<>> /\ b.records = c.records /\ b.memory = n /\ e.records = Append(z.records, r)
  <2>1. e.records = <<r>> /\ z.records = <<>> /\ b.records = c.records /\ b.memory = n
    BY DEF Course
  <2> QED
    BY <2>1, Spliced
<1>5. /\ e.records \in Seq(RecordType) /\ At(e) \in ReplayType /\ Durable(At(e), may)
  <2>1. "id" \in Says
    BY DEF Says
  <2> HIDE DEF e
  <2> QED
    BY <1>0, <1>4, <2>1, ResultKept
<1>6. c.memory = Ended(n) /\ c.records = Append(e.records, t)
  BY <1>3, <1>4 DEF Course
<1>7. r \in RecordType /\ r.kind = "native_result" /\ r.seq = slot.seq /\ r.what = "id" /\ r.id = id
  BY <1>0 DEF ResultOf, Record, RecordType, Kinds, Whats, Says, SlotType
<1>8. /\ t \in RecordType /\ t.kind = "registry_transition" /\ t.what = slot.method
      /\ t.id = id /\ t.about = slot.about
  BY <1>0 DEF Record, RecordType, Kinds, Whats, Methods, SlotType
<1>9. /\ Handles(m) \cup {h} \subseteq Handles(n)
      /\ n \in MemoryType /\ n.required = m.required /\ n.unknown = m.unknown /\ n.seq = m.seq /\ n.phase = m.phase
  <2>1. slot.method = "whole" => Handles(m) = {}
    BY <1>1, <1>2
  <2>2. slot.method = "single" => \E x \in Symbols : slot.about = {x} /\ m.singles[x] = 0
    BY <1>0, <1>1, <1>2 DEF HasSymbol
  <2> HIDE DEF n, m
  <2> QED
    BY <1>0, <1>2, <2>1, <2>2, RegisteredHandles DEF n
<1> HIDE DEF e, z, r, m, t, n, b, s, all
<1>10. Guarded(s, all, 0)
  <2> DEFINE p == IntentOf(slot)
  <2>1. p.method # "cancel" /\ p.seq = memory.seq
    BY <1>0 DEF IntentOf
  <2>2. Left(s) <= Cardinality(Known(s)) /\ Left(s) \in Nat /\ Cardinality(Known(s)) \in Nat
    <3>1. s.known.candidates \in SUBSET CandidateType
      BY <1>0 DEF ReplayType, KnownType
    <3>2. Untried(s.known.candidates) \subseteq Known(s)
      BY <3>1, UntriedLess DEF Known
    <3>3. IsFiniteSet(Untried(s.known.candidates)) /\ Cardinality(Untried(s.known.candidates)) <= Cardinality(Known(s))
      BY <1>1, <3>2, FS_Subset
    <3> QED
      BY <1>1, <3>3, FS_CardinalityType DEF Left
  <2>3. memory.seq > 0 /\ memory.seq > Left(s)
    BY <1>0, <1>1, <2>2
  <2>4. Open(s, p, 0)
    BY <1>1, <2>1, <2>3 DEF Open
  <2> HIDE DEF p
  <2>5. p \in s.pending
    BY <1>1 DEF p
  <2> QED
    BY <2>4, <2>5 DEF Guarded
<1>11. Watched(z, all) /\ At(z) = s
  BY <1>0, <1>1, <1>4, <1>10, WatchedNothing DEF s
<1>12. At(e) = Step(s, r) /\ z.records \in Seq(RecordType)
  <2>1. z.records \in Seq(RecordType)
    BY <1>4
  <2> QED
    BY <1>0, <1>4, <1>7, <1>11, <2>1, AtAppend
<1>13. Finds(At(e), all) /\ IsFiniteSet(Known(At(e)))
  <2>1. PICK about : Known(At(e)) = WithoutId(Known(s), id) \cup {Handle(id, about)}
    BY <1>0, <1>1, <1>7, <1>12, StepGranted
  <2> QED
    BY <1>1, <2>1, AddedFinds, AddedFinite DEF all
<1>14. Watched(e, all)
  <2>1. Guarded(At(e), Still(e.records, all), 0)
    <3>1. Finds(At(e), Still(e.records, all))
      BY <1>13, StillLess DEF Finds
    <3> QED
      BY <3>1, FoundGuards
  <2> QED
    BY <1>0, <1>4, <1>7, <1>11, <1>12, <1>13, <2>1, WatchedAppend
<1>15. At(c) = Step(At(e), t) /\ c.records \in Seq(RecordType)
  BY <1>0, <1>5, <1>6, <1>8, AtAppend
<1>16. Known(At(c)) = WithoutId(Known(At(e)), id) \cup {h}
  <2>1. id \in may /\ Fresh(View(At(e).known), id)
    <3>1. id \in may /\ Fresh(View(s.known), id)
      BY DEF Acceptable, s
    <3>2. Handles(View(At(e).known)) = Handles(View(s.known))
      <4>1. \/ View(At(e).known) = View(s.known)
            \/ \E about : View(At(e).known) = Added(View(s.known), id, about)
        <5>1. "id" \in Says
          BY DEF Says
        <5> QED
          BY <1>0, <1>4, <5>1, ResultKept DEF r, s
      <4>2. View(At(e).known).whole = View(s.known).whole /\ View(At(e).known).singles = View(s.known).singles
        <5> DEFINE k == View(At(e).known)
                   v == View(s.known)
        <5>1. k = v \/ \E about : k = Added(v, id, about)
          BY <4>1
        <5> HIDE DEF k, v
        <5>2. ASSUME NEW about, k = Added(v, id, about) PROVE k.whole = v.whole /\ k.singles = v.singles
          BY <5>2 DEF Added
        <5>3. k.whole = v.whole /\ k.singles = v.singles
          BY <5>1, <5>2
        <5> QED
          BY <5>3 DEF k, v
      <4> QED
        BY <4>2 DEF Handles
    <3> QED
      BY <3>1, <3>2 DEF Fresh
  <2>2. CASE slot.method = "whole"
    <3>1. View(At(c).known) = Added(Wholly(View(At(e).known), id, slot.about), id, {})
      BY <1>5, <1>8, <1>15, <2>1, <2>2, StepWhole
    <3> QED
      BY <2>2, <3>1 DEF View, Added, Wholly, Known
  <2>3. CASE slot.method = "single"
    <3>1. PICK x \in Symbols : slot.about = {x}
      BY <1>0, <2>3
    <3>2. View(At(c).known) = Added(Singly(View(At(e).known), id, {x}), id, {x})
      BY <1>5, <1>8, <1>15, <2>1, <2>3, <3>1, StepSingle
    <3> QED
      BY <2>3, <3>1, <3>2 DEF View, Added, Singly, Known
  <2> QED
    BY <1>0, <2>2, <2>3
<1>17. Known(At(c)) = WithoutId(Known(s), id) \cup {h}
  <2>1. PICK about : Known(At(e)) = WithoutId(Known(s), id) \cup {Handle(id, about)}
    BY <1>0, <1>1, <1>7, <1>12, StepGranted
  <2>2. Handle(id, about).id = id
    BY HandleParts
  <2>3. WithoutId(Known(At(e)), id) = WithoutId(Known(s), id)
    BY <2>1, <2>2 DEF WithoutId
  <2> QED
    BY <1>16, <2>3
<1>18. /\ Finds(At(c), all) /\ IsFiniteSet(Known(At(c))) /\ Cardinality(Known(At(c))) <= n.seq
       /\ Known(At(c)) \subseteq Handles(n)
  <2>1. Finds(At(c), all)
    BY <1>1, <1>17, AddedFinds DEF all
  <2>2. /\ IsFiniteSet(Known(At(c))) /\ Cardinality(Known(At(c))) \in Nat /\ Cardinality(Known(s)) \in Nat
        /\ Cardinality(Known(At(c))) <= Cardinality(Known(s)) + 1
    BY <1>1, <1>17, AddedFinite
  <2>3. Cardinality(Known(At(c))) <= n.seq
    BY <1>0, <1>1, <1>2, <1>9, <2>2
  <2>4. Known(At(c)) \subseteq Handles(n)
    BY <1>1, <1>2, <1>9, <1>17 DEF WithoutId
  <2> QED
    BY <2>1, <2>2, <2>3, <2>4
<1>19. Watched(c, all)
  <2>1. Guarded(At(c), Still(c.records, all), 0)
    <3>1. Finds(At(c), Still(c.records, all))
      BY <1>18, StillLess DEF Finds
    <3> QED
      BY <3>1, FoundGuards
  <2> QED
    BY <1>0, <1>5, <1>6, <1>8, <1>14, <1>18, <2>1, WatchedAppend
<1>20. At(b) = At(c) /\ Watched(b, all)
  BY <1>4, <1>19 DEF At, Watched, WatchedTo
<1>21. Settles(c, all)
  BY <1>0, <1>1, <1>2, <1>4, <1>6, <1>9, <1>15, <1>18, <1>20, EndedSettles
<1> QED
  BY <1>21 DEF all

LEMMA AnswersSettle ==
  ASSUME NEW may, InStep(may), memory.slot # NoSlot, NEW hs, Holding(hs), NEW says \in Says, NEW id \in Nat,
         Acceptable(says, id, may), says = "id" => id # 0 /\ memory.slot.method # "cancel",
         memory.slot.method = "cancel" /\ Confirms(says) => memory.slot.id \notin hs,
         NEW c \in Answers(says, id)
  PROVE  Settles(c, IF says = "id" THEN hs \cup {id} ELSE hs)
<1>0. memory.task.kind = "startup" => memory.slot.method = "cancel"
  BY DEF InStep, SlotInv
<1>1. CASE says # "id" /\ memory.task.kind = "startup"
  BY <1>0, <1>1, StartupSettles
<1>2. CASE says # "id" /\ memory.task.kind # "startup" /\ memory.slot.method = "cancel"
  BY <1>2, CancelSettles
<1>3. CASE says # "id" /\ memory.task.kind # "startup" /\ memory.slot.method # "cancel"
  <2>1. c = Course(Ended(Freed(memory)), <<ResultOf(memory.slot, says, id)>>)
    BY <1>3 DEF Answers, Freed, ResultOf
  <2>2. c.memory = Ended(Freed(memory)) /\ c.records = <<ResultOf(memory.slot, says, id)>>
    <3> DEFINE x == Ended(Freed(memory))
               y == <<ResultOf(memory.slot, says, id)>>
    <3>1. c = Course(x, y)
      BY <2>1
    <3> HIDE DEF x, y
    <3>2. c.memory = x /\ c.records = y
      BY <3>1 DEF Course
    <3> QED
      BY <3>2 DEF x, y
  <2>3. /\ Safe(c, hs, Bound) /\ (Finds(Base(journal), hs) => Finds(At(c), hs))
        /\ Known(At(c)) \subseteq Known(Base(journal))
    BY <1>3, <2>2, ResultSafe
  <2> QED
    BY <1>3, <2>2, <2>3, FailedSettles
<1>4. CASE says = "id"
  BY <1>0, <1>4, GrantedSettles
<1> QED
  BY <1>1, <1>2, <1>3, <1>4

LEMMA TimeoutsSettle ==
  ASSUME NEW may, InStep(may), memory.slot # NoSlot, NEW hs, Holding(hs), NEW c \in Timeouts
  PROVE  Settles(c, hs)
<1>0. TypeInv /\ memory \in MemoryType
  BY HoldingBusy
<1>1. CASE memory.task.kind = "startup"
  <2> DEFINE d == Cleaned(Freed(memory), memory.slot, FALSE)
  <2>1. c \in NextCleanup(d) \cup {Recovered(d)}
    BY <1>1 DEF Timeouts, Freed
  <2>2. KeepsUp(d, may) /\ d.memory.task.kind = "startup"
    BY <1>1, UncleanedKeepsUp
  <2>3. Idle(d)
    BY <2>2 DEF KeepsUp
  <2>4. Ready(d, hs)
    BY <1>1, <2>3, UncleanedReady
  <2> HIDE DEF d
  <2> QED
    BY <1>0, <2>1, <2>2, <2>4, NextCleanupSettles, RecoveredSettles
<1>2. CASE memory.task.kind # "startup" /\ memory.slot.method = "cancel"
  <2> DEFINE d == CancelLost
  <2>1. c \in NextOfRequest(d)
    BY <1>0, <1>2, LostGoesOn
  <2>2. KeepsUp(d, may) /\ d.memory.task.kind \in {"sync", "unsubscribe"}
    BY <1>2, LostKeepsUp
  <2>3. Idle(d)
    BY <2>2 DEF KeepsUp
  <2>4. Ready(d, hs)
    BY <1>2, <2>3, LostReady
  <2> HIDE DEF d
  <2> QED
    BY <1>0, <2>1, <2>2, <2>4, NextOfRequestSettles
<1>3. CASE memory.task.kind # "startup" /\ memory.slot.method # "cancel"
  <2>1. c = Course(Ended(Freed(memory)), <<>>)
    BY <1>3 DEF Timeouts, Freed
  <2>2. c.memory = Ended(Freed(memory)) /\ c.records = <<>>
    BY <2>1 DEF Course
  <2>3. Safe(c, hs, Bound) /\ At(c) = Base(journal)
    BY <2>2, NothingSafe
  <2> QED
    BY <1>3, <2>2, <2>3, FailedSettles
<1> QED
  BY <1>1, <1>2, <1>3

-----------------------------------------------------------------------------
(* A step takes one of these courses, or breaks off.                       *)

\* What the datasource has been told of in a state, as Held says.
HeldOf(told) == Ids({h \in live' : h.id \in told})

LEMMA HoldingLess ==
  ASSUME TypeInv, NEW hs, Holding(hs), NEW some \in SUBSET hs
  PROVE  Holding(some)
<1>1. memory \in MemoryType /\ Base(journal) \in ReplayType
  BY NumbersTyped, BaseTyped
<1>2. Guarded(Base(journal), some, 0)
  BY <1>1, GuardedLess DEF Holding
<1>3. Owns(memory, Base(journal), some)
  BY <1>1, OwnsLess DEF Holding
<1> QED
  BY <1>2, <1>3 DEF Holding

LEMMA TaskLater ==
  ASSUME NEW m \in MemoryType, NEW top \in Nat, NEW more \in Nat, top <= more, TaskInv(m, top)
  PROVE  TaskInv(m, more)
<1>1. m.slot.id \in Nat /\ \A h \in m.task.todo : h.id \in Nat
  BY DEF MemoryType, SlotType, TaskType, HandleType
<1>2. m.slot.id < more /\ \A h \in m.task.todo : h.id < more
  BY <1>1 DEF TaskInv
<1> QED
  BY <1>2 DEF TaskInv

\* The journal after the step has the records of the course, or some of them.
LEMMA TakesRecords ==
  ASSUME TypeInv, NEW c, TypedCourse(c), NEW told \in SUBSET Nat, NEW breaks \in BOOLEAN,
         Takes(c, told, breaks), NEW hs, Watched(c, hs), HeldOf(told) \subseteq hs
  PROVE  /\ Recoverable' /\ granted' \subseteq told /\ intact' \in BOOLEAN
         /\ breaks => ~healthy'
         /\ ~breaks => /\ memory' = c.memory /\ Base(journal') = At(c)
                       /\ Ids(Held)' \subseteq Still(c.records, hs)
<1> DEFINE hs1 == Ids(Held)'
<1>0. c.records \in Seq(RecordType) /\ c.memory \in MemoryType
  BY DEF TypedCourse
<1>1. PICK kept \in Seq(RecordType), n \in Nat :
        /\ n <= Len(c.records) /\ kept = SubSeq(c.records, 1, n) /\ journal' = journal \o kept
        /\ granted' = IF Observation \in ToSet(kept) THEN {} ELSE told
        /\ ~breaks => kept = c.records
  <2>1. CASE ~breaks
    <3> DEFINE n == Len(c.records)
    <3>1. n \in Nat /\ n <= Len(c.records) /\ SubSeq(c.records, 1, n) = c.records
      BY <1>0, AtIsTyped
    <3> HIDE DEF n
    <3>2. journal' = journal \o c.records /\ granted' = IF Observation \in ToSet(c.records) THEN {} ELSE told
      BY <2>1 DEF Takes, Written
    <3> QED
      BY <1>0, <3>1, <3>2
  <2>2. CASE breaks
    <3>1. PICK k \in 0..(Len(c.records) - 1), tail \in {"none", "half", "whole"} :
            LET kept == SubSeq(c.records, 1, IF tail = "whole" THEN k + 1 ELSE k)
            IN  /\ journal' = journal \o kept
                /\ granted' = IF Observation \in ToSet(kept) THEN {} ELSE told
      BY <2>2 DEF Takes, Broken
    <3> DEFINE n == IF tail = "whole" THEN k + 1 ELSE k
    <3>2. n \in Nat /\ n <= Len(c.records)
      BY <1>0
    <3>3. SubSeq(c.records, 1, n) \in Seq(RecordType)
      BY <1>0, <3>2
    <3> QED
      BY <2>2, <3>1, <3>2, <3>3
  <2> QED
    BY <2>1, <2>2
<1>2. Base(journal') \in ReplayType
  <2>1. Readable(journal \o SubSeq(c.records, 1, n))
    BY <1>0, <1>1, NumbersTyped, ReadableConcat
  <2>2. Readable(journal')
    BY <1>1, <2>1
  <2> QED
    BY <2>2 DEF Readable, Base
<1>3. hs1 \subseteq Still(kept, hs) /\ granted' \subseteq told
  <2>1. hs1 = Ids({h \in live' : h.id \in granted'})
    BY DEF Held
  <2>2. CASE Observation \in ToSet(kept)
    <3>1. hs1 = {}
      BY <1>1, <2>1, <2>2 DEF Ids
    <3> QED
      BY <1>1, <2>2, <3>1
  <2>3. CASE Observation \notin ToSet(kept)
    <3>1. granted' = told
      BY <1>1, <2>3
    <3>2. hs1 \subseteq hs
      BY <2>1, <3>1 DEF HeldOf
    <3>3. Still(kept, hs) = hs
      BY <2>3 DEF Still
    <3> QED
      BY <3>1, <3>2, <3>3
  <2> QED
    BY <2>2, <2>3
<1>4. Recoverable'
  <2>1. WatchedTo(c, hs, n)
    BY <1>1 DEF Watched
  <2>2. IsFiniteSet(Known(Base(journal'))) /\ Guarded(Base(journal'), Still(kept, hs), 0)
    BY <1>1, <2>1 DEF WatchedTo
  <2>3. Guarded(Base(journal'), hs1, 0)
    BY <1>2, <1>3, <2>2, GuardedLess
  <2> QED
    BY <2>2, <2>3 DEF Recoverable
<1>5. breaks => ~healthy' /\ intact' \in BOOLEAN
  BY DEF Takes, Broken
<1>6. ~breaks => memory' = c.memory /\ Base(journal') = At(c) /\ intact' \in BOOLEAN /\ kept = c.records
  BY <1>1 DEF Takes, Written, At, TypeInv, StateTypeOK
<1> QED
  BY <1>3, <1>4, <1>5, <1>6

LEMMA TakesOwned ==
  ASSUME TypeInv, NEW c, TypedCourse(c), NEW told \in SUBSET Nat, NEW breaks \in BOOLEAN,
         Takes(c, told, breaks), NEW hs, Settles(c, hs), HeldOf(told) \subseteq hs,
         nextId' \in Nat, nextId <= nextId'
  PROVE  Recoverable' /\ OwnerInv' /\ granted' \subseteq told
<1>1. /\ Recoverable' /\ granted' \subseteq told
      /\ breaks => ~healthy'
      /\ ~breaks => /\ memory' = c.memory /\ Base(journal') = At(c)
                    /\ Ids(Held)' \subseteq Still(c.records, hs)
  BY TakesRecords DEF Settles
<1>2. ASSUME healthy' PROVE OwnerInv'
  <2>1. memory' = c.memory /\ Base(journal') = At(c) /\ Ids(Held)' \subseteq Still(c.records, hs)
    BY <1>1, <1>2
  <2>2. Owns(memory', Base(journal'), Still(c.records, hs)) /\ TaskInv(memory', nextId)
        /\ CallsFor(memory', Base(journal').pending)
    BY <2>1 DEF Settles
  <2>3. Owns(memory', Base(journal'), Ids(Held)')
    <3>1. Finds(Base(journal'), Still(c.records, hs)) => Finds(Base(journal'), Ids(Held)')
      BY <2>1 DEF Finds
    <3>2. \A k : Guarded(Base(journal'), Still(c.records, hs), k) => Guarded(Base(journal'), Ids(Held)', k)
      BY <3>1 DEF Guarded
    <3> QED
      BY <2>2, <3>1, <3>2 DEF Owns
  <2>4. TaskInv(memory', nextId')
    BY <2>1, <2>2, TaskLater DEF TypedCourse, TypeInv, StateTypeOK
  <2> QED
    BY <2>2, <2>3, <2>4 DEF OwnerInv
<1>3. ASSUME ~healthy' PROVE OwnerInv'
  BY <1>3 DEF OwnerInv
<1> QED
  BY <1>1, <1>2, <1>3

\* A step of the bridge or the terminal that the datasource sees nothing of.
LEMMA StillOwned ==
  ASSUME TypeInv, Recoverable, OwnerInv, UNCHANGED <<memory, journalVars>>,
         Ids(Held)' \subseteq Ids(Held), nextId' \in Nat, nextId <= nextId'
  PROVE  Recoverable' /\ OwnerInv'
<1>1. memory \in MemoryType /\ Base(journal) \in ReplayType /\ nextId \in Nat
  BY NumbersTyped, BaseTyped DEF TypeInv, StateTypeOK
<1>2. memory' = memory /\ journal' = journal /\ healthy' = healthy /\ intact' = intact
  BY DEF journalVars
<1>3. Recoverable'
  <2>1. Guarded(Base(journal), Ids(Held), 0) => Guarded(Base(journal), Ids(Held)', 0)
    BY <1>1, GuardedLess
  <2> QED
    BY <1>2, <2>1 DEF Recoverable
<1>4. ASSUME healthy PROVE OwnerInv'
  <2>1. Owns(memory, Base(journal), Ids(Held)) /\ TaskInv(memory, nextId) /\ CallsFor(memory, Base(journal).pending)
        /\ IsFiniteSet(Known(Base(journal)))
    BY <1>4 DEF OwnerInv, Recoverable
  <2>2. Owns(memory, Base(journal), Ids(Held)')
    BY <1>1, <2>1, OwnsLess
  <2>3. TaskInv(memory, nextId')
    BY <1>1, <2>1, TaskLater
  <2> QED
    BY <1>2, <2>1, <2>2, <2>3 DEF OwnerInv
<1>5. ASSUME ~healthy PROVE OwnerInv'
  BY <1>2, <1>5 DEF OwnerInv
<1> QED
  BY <1>3, <1>4, <1>5

-----------------------------------------------------------------------------
(* Every step keeps what is found.                                         *)

Owned == IdInv /\ Recoverable /\ OwnerInv

LEMMA OwnHolding ==
  ASSUME OwnInv, healthy
  PROVE  /\ InStep(Told) /\ TypeInv /\ intact /\ Holding(Ids(Held)) /\ nextId \in Nat \ {0}
         /\ granted \in SUBSET Nat
<1>1. TypeInv /\ intact /\ nextId \in Nat \ {0} /\ granted \in SUBSET Nat
  BY DEF OwnInv, JournalInv, TypeInv, StateTypeOK
<1>2. InStep(Told)
  BY HealthyInStep DEF OwnInv
<1>3. Holding(Ids(Held))
  BY <1>1 DEF OwnInv, Recoverable, OwnerInv, Holding
<1> QED
  BY <1>1, <1>2, <1>3

\* Neither the terminal nor a reply under way moves.
LEMMA AloneIds ==
  ASSUME IdInv, UNCHANGED <<terminalVars, late>>, bridge'.command.id < nextId, granted' \subseteq granted
  PROVE  IdInv'
<1>1. live' = live /\ nextId' = nextId /\ late' = late /\ Told' = Told
  BY DEF terminalVars, Told
<1> QED
  BY <1>1 DEF IdInv

LEMMA AloneHeld ==
  ASSUME UNCHANGED terminalVars
  PROVE  /\ HeldOf(granted) = Ids(Held) /\ nextId' = nextId
         /\ granted' = granted => Ids(Held)' = Ids(Held)
  BY DEF HeldOf, Held, terminalVars

LEMMA CourseOwned ==
  ASSUME OwnInv, healthy, NEW c, TypedCourse(c), Settles(c, Ids(Held)), NEW breaks \in BOOLEAN,
         Takes(c, granted, breaks), UNCHANGED <<terminalVars, late, bridge>>
  PROVE  Owned'
<1>1. TypeInv /\ nextId \in Nat \ {0} /\ granted \in SUBSET Nat /\ IdInv
  BY OwnHolding DEF OwnInv
<1>2. HeldOf(granted) = Ids(Held) /\ nextId' = nextId
  BY AloneHeld
<1>3. Recoverable' /\ OwnerInv' /\ granted' \subseteq granted
  BY <1>1, <1>2, TakesOwned
<1>4. bridge'.command.id < nextId
  BY <1>1 DEF IdInv
<1> QED
  BY <1>1, <1>3, <1>4, AloneIds DEF Owned

\* The controller that starts on a request owns what it did.
LEMMA ControlReady ==
  ASSUME OwnInv, MayControl, NEW kind \in {"subscribe", "unsubscribe", "sync"},
         NEW todo \in SUBSET HandleType, todo \subseteq Handles(memory), NEW desired \in SUBSET Symbols,
         kind = "unsubscribe" => desired = {}, kind = "sync" => todo = Handles(memory),
         NEW c, c = Course([memory EXCEPT !.task = Task(kind, todo, desired)], <<>>)
  PROVE  Ready(c, Ids(Held)) /\ At(c) = Base(journal) /\ Handles(c.memory) = Handles(memory)
         /\ c.memory.required = memory.required /\ c.memory.unknown = memory.unknown /\ c.memory.seq = memory.seq
         /\ c.memory.task = Task(kind, todo, desired) /\ c.memory.singles = memory.singles
         /\ c.memory.whole = memory.whole
<1> DEFINE task == Task(kind, todo, desired)
           n == [memory EXCEPT !.task = task]
<1>0. /\ InStep(Told) /\ TypeInv /\ healthy /\ memory.task = NoTask /\ ~memory.required
      /\ memory \in MemoryType /\ memory.phase \notin {"not_started", "running"} /\ memory.slot = NoSlot
  BY ControlInStep DEF OwnInv
<1>1. Holding(Ids(Held)) /\ nextId \in Nat \ {0}
  BY <1>0, OwnHolding
<1>2. task.kind = kind /\ task.todo = todo /\ task.desired = desired
  BY DEF Task
<1>3. Idle(c)
  BY <1>0, ControlIdle
<1> HIDE DEF task
<1>4. /\ n.task = task /\ n.phase = memory.phase /\ n.required = memory.required /\ n.unknown = memory.unknown
      /\ n.seq = memory.seq /\ n.slot = memory.slot
      /\ n.candidates = memory.candidates /\ n.whole = memory.whole /\ n.singles = memory.singles
  BY <1>0 DEF MemoryType
<1>5. c.memory = n /\ c.records = <<>>
  BY DEF Course, task
<1> HIDE DEF n
<1>6. Handles(n) = Handles(memory) /\ Waits(n) = Waits(memory) /\ Doing(n) = {}
  BY <1>0, <1>4, NobodyWaits DEF Handles
<1>7. Watched(c, Ids(Held)) /\ At(c) = Base(journal)
  BY <1>0, <1>1, <1>5, WatchedNothing DEF Holding
<1>8. Owns(n, Base(journal), Ids(Held))
  BY <1>0, <1>1, <1>4, <1>6 DEF Holding, Owns
<1>9. \A h \in todo : h.id < nextId
  <2> DEFINE v == View(Base(journal).known)
  <2>1. Ids(v.known) \subseteq Told /\ Handles(v) \subseteq v.known
    BY <1>0 DEF InStep, Durable, Sound
  <2>2. Handles(v) = Handles(memory)
    <3>1. memory.whole = v.whole /\ memory.singles = v.singles
      BY <1>0 DEF InStep, Reads, View
    <3> HIDE DEF v
    <3> QED
      BY <3>1 DEF Handles
  <2> HIDE DEF v
  <2>3. \A h \in todo : h.id \in Told
    BY <2>1, <2>2 DEF Ids
  <2> QED
    BY <1>1, <2>3 DEF Told
<1>10. TaskInv(n, nextId)
  <2>1. NoSlot.id = 0
    BY DEF NoSlot
  <2>2. n.slot.id < nextId
    BY <1>0, <1>1, <1>4, <2>1
  <2> QED
    BY <1>0, <1>2, <1>4, <1>6, <1>9, <2>2 DEF TaskInv
<1> QED
  BY <1>3, <1>4, <1>5, <1>6, <1>7, <1>8, <1>10 DEF Ready, task

LEMMA RequestsOwned ==
  ASSUME OwnInv, NEW courses, Requests(courses), \A c \in courses : TypedCourse(c) /\ Settles(c, Ids(Held))
  PROVE  Owned'
<1>1. PICK c \in courses, breaks \in BOOLEAN : Takes(c, granted, breaks)
  BY DEF Requests
<1>2. healthy
  BY DEF Requests, MayControl
<1>3. UNCHANGED <<terminalVars, late, bridge>>
  BY DEF Requests
<1> QED
  BY <1>1, <1>2, <1>3, CourseOwned

LEMMA SubscribeOwned ==
  ASSUME OwnInv, NEW s \in Symbols, Subscribe(s)
  PROVE  Owned'
<1> DEFINE c == Course([memory EXCEPT !.task = Task("subscribe", {}, {})], <<>>)
           d == Calling(c, "single", 0, {s})
           hs == Ids(Held)
<1>1. Requests({d}) /\ ~ContainsSymbol(s)
  BY DEF Subscribe
<1>2. MayControl
  BY <1>1 DEF Requests
<1>3. /\ TypeInv /\ ~memory.required /\ Holding(hs) /\ nextId \in Nat \ {0} /\ memory \in MemoryType
      /\ memory.slot = NoSlot /\ memory.seq \in Nat
  BY <1>2, ControlInStep, OwnHolding DEF OwnInv, MemoryType
<1>4. /\ Ready(c, hs) /\ At(c) = Base(journal) /\ Handles(c.memory) = Handles(memory)
      /\ c.memory.required = memory.required /\ c.memory.unknown = memory.unknown /\ c.memory.seq = memory.seq
      /\ c.memory.task = Task("subscribe", {}, {}) /\ c.memory.singles = memory.singles
      /\ c.memory.whole = memory.whole
  <2>1. {} \in SUBSET HandleType /\ {} \subseteq Handles(memory) /\ {} \in SUBSET Symbols
    OBVIOUS
  <2> QED
    BY <1>2, <2>1, ControlReady, SMTT(30)
<1>5. Idle(c) /\ c.memory \in MemoryType /\ Watched(c, hs)
  BY <1>4 DEF Ready, Idle, TypedCourse
<1>6. {s} \in SUBSET Symbols /\ 0 \in Nat /\ "single" \in {"cancel", "whole", "single"} /\ "single" \in Methods
  BY DEF Methods
<1> HIDE DEF c, hs
<1>7. Follows(d)
  BY <1>3, <1>5, <1>6, CallingFollows
<1>8. /\ d.memory.slot.method = "single" /\ d.memory.slot.id = 0 /\ d.memory.slot.about = {s}
      /\ d.memory.task = c.memory.task /\ d.memory.phase = c.memory.phase /\ Handles(d.memory) = Handles(c.memory)
      /\ d.memory.whole = c.memory.whole /\ d.memory.singles = c.memory.singles
  BY <1>5, <1>6, CallingIs
<1>9. Watched(d, hs) /\ Owns(d.memory, At(d), Still(d.records, hs)) /\ IntentOf(d.memory.slot) \in At(d).pending
  <2>1. /\ c.memory.unknown = 0 /\ Finds(At(c), hs) /\ Known(At(c)) \subseteq Handles(c.memory)
        /\ Cardinality(Known(At(c))) + 0 <= c.memory.seq /\ IsFiniteSet(Known(At(c)))
    BY <1>3, <1>4, NobodyWaits DEF Holding, Owns
  <2>2. Cardinality(Known(At(c))) \in Nat
    BY <2>1, FS_CardinalityType
  <2>3. Cardinality(Known(At(c))) <= c.memory.seq /\ ~c.memory.required
    BY <1>3, <1>4, <2>1, <2>2
  <2> QED
    BY <1>3, <1>5, <1>6, <2>1, <2>3, CallingOwned
<1>10. TaskInv(d.memory, nextId)
  <2>1. Task("subscribe", {}, {}).kind = "subscribe" /\ Task("subscribe", {}, {}).todo = {}
    BY DEF Task
  <2>2. c.memory.phase # "not_started"
    BY <1>5 DEF Idle
  <2>3. d.memory.task.kind = "subscribe" /\ d.memory.task.todo = {} /\ d.memory.phase # "not_started"
    BY <1>4, <1>8, <2>1, <2>2
  <2>4. d.memory.slot.id < nextId
    BY <1>3, <1>8
  <2> HIDE DEF d
  <2> QED
    BY <2>3, <2>4 DEF TaskInv
<1>11. CallsFor(d.memory, At(d).pending)
  BY <1>1, <1>4, <1>8, <1>9 DEF CallsFor, HasSymbol, ContainsSymbol
<1>12. Settles(d, hs) /\ TypedCourse(d)
  BY <1>7, <1>9, <1>10, <1>11 DEF Settles, Follows
<1> QED
  BY <1>1, <1>12, RequestsOwned DEF hs

LEMMA UnsubscribeOwned ==
  ASSUME OwnInv, NEW s \in Symbols, Unsubscribe(s)
  PROVE  Owned'
<1> DEFINE h == Handle(memory.singles[s], {s})
           todo == {h}
           c == Course([memory EXCEPT !.task = Task("unsubscribe", todo, {})], <<>>)
           hs == Ids(Held)
<1>0. JournalInv /\ memory \in MemoryType
  BY NumbersTyped DEF OwnInv, JournalInv
<1>1. Requests(NextOfRequest(c)) /\ memory.singles[s] # 0
  BY DEF Unsubscribe
<1>2. MayControl /\ TypeInv
  BY <1>0, <1>1 DEF Requests, JournalInv
<1>3. todo \in SUBSET HandleType
  BY <1>0 DEF MemoryType, Handle, HandleType
<1>4. todo \subseteq Handles(memory)
  BY <1>1, InHandles
<1> HIDE DEF todo
<1>5. KeepsUp(c, Told) /\ c.memory.task.kind = "unsubscribe" /\ Ready(c, hs)
  <2>1. {} \in SUBSET Symbols
    OBVIOUS
  <2>2. "unsubscribe" \in {"subscribe", "unsubscribe", "sync"} /\ "unsubscribe" # "sync"
    OBVIOUS
  <2>3. KeepsUp(c, Told) /\ c.memory.task.kind = "unsubscribe"
    BY <1>0, <1>2, <1>3, <1>4, <2>1, <2>2, ControlKeepsUp
  <2>4. c = Course([memory EXCEPT !.task = Task("unsubscribe", todo, {})], <<>>)
    OBVIOUS
  <2> HIDE DEF c
  <2>5. Ready(c, Ids(Held))
    BY <1>2, <1>3, <1>4, <2>1, <2>2, <2>4, ControlReady
  <2> QED
    BY <2>3, <2>5
<1> HIDE DEF c, hs
<1>6. \A d \in NextOfRequest(c) : TypedCourse(d) /\ Settles(d, hs)
  <2>1. Idle(c)
    BY <1>5 DEF Ready
  <2> QED
    BY <1>0, <1>2, <1>5, <2>1, NextOfRequestFollows, NextOfRequestSettles DEF Follows
<1> QED
  BY <1>1, <1>6, RequestsOwned DEF hs

LEMMA SyncOwned ==
  ASSUME OwnInv, NEW desired \in SUBSET Symbols, Sync(desired)
  PROVE  Owned'
<1> DEFINE todo == Handles(memory)
           c == Course([memory EXCEPT !.task = Task("sync", todo, desired)], <<>>)
           hs == Ids(Held)
<1>0. JournalInv /\ memory \in MemoryType
  BY NumbersTyped DEF OwnInv, JournalInv
<1>1. Requests(NextOfRequest(c))
  BY DEF Sync
<1>2. MayControl /\ TypeInv
  BY <1>0, <1>1 DEF Requests, JournalInv
<1>3. todo \in SUBSET HandleType /\ todo \subseteq Handles(memory) /\ todo = Handles(memory)
  BY <1>0, HandlesTyped
<1> HIDE DEF todo
<1>4. KeepsUp(c, Told) /\ c.memory.task.kind = "sync" /\ Ready(c, hs)
  <2>1. "sync" \in {"subscribe", "unsubscribe", "sync"} /\ "unsubscribe" # "sync"
    OBVIOUS
  <2>2. KeepsUp(c, Told) /\ c.memory.task.kind = "sync"
    BY <1>0, <1>2, <1>3, <2>1, ControlKeepsUp
  <2>3. c = Course([memory EXCEPT !.task = Task("sync", todo, desired)], <<>>)
    OBVIOUS
  <2> HIDE DEF c
  <2>4. Ready(c, Ids(Held))
    BY <1>2, <1>3, <2>1, <2>3, ControlReady
  <2> QED
    BY <2>2, <2>4
<1> HIDE DEF c, hs
<1>5. \A d \in NextOfRequest(c) : TypedCourse(d) /\ Settles(d, hs)
  <2>1. Idle(c)
    BY <1>4 DEF Ready
  <2> QED
    BY <1>0, <1>2, <1>4, <2>1, NextOfRequestFollows, NextOfRequestSettles DEF Follows
<1> QED
  BY <1>1, <1>5, RequestsOwned DEF hs

LEMMA TimesOutOwned ==
  ASSUME OwnInv, CallTimesOut
  PROVE  Owned'
<1>1. PICK c \in Timeouts, breaks \in BOOLEAN : Takes(c, granted, breaks)
  BY DEF CallTimesOut
<1>2. memory.slot # NoSlot /\ healthy
  BY DEF CallTimesOut, OwnInv, JournalInv, HealthyInv
<1>3. InStep(Told) /\ TypeInv /\ Holding(Ids(Held))
  BY <1>2, OwnHolding
<1>4. Settles(c, Ids(Held))
  BY <1>2, <1>3, TimeoutsSettle
<1>5. TypedCourse(c)
  BY <1>2, <1>3, BusyStarted, TimeoutsFollow DEF Follows
<1>6. UNCHANGED <<terminalVars, late, bridge>>
  BY DEF CallTimesOut
<1> QED
  BY <1>1, <1>2, <1>4, <1>5, <1>6, CourseOwned

\* The recovery begins with what the journal finds.
LEMMA StartupReady ==
  ASSUME OwnInv, healthy, memory.phase = "not_started",
         NEW b, Idle(b), b.records = <<>>, b.memory.task = Task("startup", Untried(memory.candidates), {}),
         b.memory.slot = memory.slot, b.memory.required = memory.required, b.memory.unknown = memory.unknown,
         b.memory.seq = memory.seq, b.memory.whole = memory.whole, b.memory.singles = memory.singles
  PROVE  Ready(b, Ids(Held))
<1> DEFINE hs == Ids(Held)
           s == Base(journal)
           todo == Untried(memory.candidates)
<1>1. /\ InStep(Told) /\ TypeInv /\ Holding(hs) /\ nextId \in Nat \ {0} /\ memory \in MemoryType
  BY OwnHolding, NumbersTyped
<1>2. IsFiniteSet(Known(s)) /\ Guarded(s, hs, 0) /\ Owns(memory, s, hs) /\ TaskInv(memory, nextId)
  BY <1>1 DEF Holding
<1>3. memory.slot = NoSlot
  BY <1>1, ConstantsTyped DEF TypeInv, CallInv
<1>4. HandlesOf(memory.candidates) = Known(s) /\ Ids(Known(s)) \subseteq Told
  <2>1. View(memory) = View(s.known) /\ Sound(View(s.known), Told)
    BY <1>1 DEF InStep, Reads, Recovering, Durable
  <2> HIDE DEF s
  <2> QED
    BY <2>1 DEF View, Known, Sound
<1>5. todo \subseteq Known(s) /\ IsFiniteSet(todo)
  <2>1. memory.candidates \in SUBSET CandidateType
    BY <1>1 DEF MemoryType
  <2>2. todo \subseteq Known(s)
    BY <1>4, <2>1, UntriedLess
  <2> QED
    BY <1>2, <2>2, FS_Subset
<1> HIDE DEF todo, s, hs
<1>6. b.memory.task.kind = "startup" /\ b.memory.task.todo = todo
  BY DEF Task, todo
<1>7. Watched(b, hs) /\ At(b) = s
  BY <1>1, <1>2, WatchedNothing DEF s
<1>8. Owns(b.memory, s, hs)
  <2>1. b.memory.phase # "not_started"
    BY DEF Idle
  <2>2. memory.seq = 0
    BY <1>2 DEF TaskInv
  <2>3. Cardinality(todo) \in Nat
    BY <1>5, FS_CardinalityType
  <2>4. Reach(b.memory) = Reach(memory)
    BY <1>6, <2>1, <2>2, <2>3 DEF Reach, todo
  <2>5. Handles(b.memory) = Handles(memory) /\ Waits(b.memory) = Waits(memory)
    BY DEF Handles, Waits
  <2> QED
    BY <1>2, <1>5, <1>6, <2>4, <2>5 DEF Owns
<1>9. TaskInv(b.memory, nextId)
  <2>1. \A h \in todo : h.id < nextId
    <3>1. \A i \in Told : i < nextId
      BY <1>1 DEF Told
    <3>2. \A h \in todo : h.id \in Told
      BY <1>4, <1>5 DEF Ids
    <3> QED
      BY <3>1, <3>2
  <2>2. b.memory.slot.id < nextId
    BY <1>1, <1>3 DEF NoSlot
  <2>3. b.memory.phase # "not_started"
    BY DEF Idle
  <2> QED
    BY <1>6, <2>1, <2>2, <2>3 DEF TaskInv
<1> QED
  BY <1>7, <1>8, <1>9 DEF Ready, hs

LEMMA ReconcileOwned ==
  ASSUME OwnInv, ReconcileStartup
  PROVE  Owned'
<1> DEFINE todo == {Handle(c.id, c.about) : c \in {x \in memory.candidates : ~x.tried}}
           task == Task("startup", todo, {})
           start == [memory EXCEPT !.phase = "running", !.task = task]
           b == Course(start, <<>>)
<1>0. JournalInv /\ IdInv /\ Recoverable
  BY DEF OwnInv
<1>1. memory.phase = "not_started" /\ memory \in MemoryType /\ TypeInv
  BY <1>0, NumbersTyped DEF ReconcileStartup, JournalInv
<1>2. memory.slot = NoSlot
  BY <1>1, ConstantsTyped DEF TypeInv, CallInv
<1>3. todo \in SUBSET HandleType
  BY <1>1 DEF MemoryType, CandidateType, Handle, HandleType
<1>4. PICK c \in NextCleanup(b), breaks \in BOOLEAN :
        /\ breaks => c.records # <<>>
        /\ c.records # <<>> => healthy
        /\ Takes(c, granted, breaks)
  BY DEF ReconcileStartup
<1>5. UNCHANGED <<terminalVars, late, bridge>>
  BY DEF ReconcileStartup
<1>6. CASE healthy
  <2>0. todo = Untried(memory.candidates)
    BY DEF Untried, HandlesOf
  <2> HIDE DEF todo
  <2>1. task \in TaskType /\ task.kind = "startup"
    BY <1>3 DEF Task, TaskType
  <2>2. start = Begun(memory, task, "running")
    BY <1>1 DEF Begun, MemoryType
  <2>3. task = Task("startup", Untried(memory.candidates), {})
    BY <2>0
  <2> HIDE DEF task
  <2>4. /\ start.task = task /\ start.required = memory.required /\ start.slot = memory.slot
        /\ start.candidates = memory.candidates /\ start.whole = memory.whole /\ start.singles = memory.singles
        /\ start.unknown = memory.unknown /\ start.seq = memory.seq
    BY <1>1 DEF MemoryType
  <2> HIDE DEF start
  <2>5. Idle(b)
    BY <1>1, <1>2, <2>1, <2>2, BegunIdle DEF Phases
  <2>6. b.memory = start /\ b.records = <<>>
    BY DEF Course
  <2> HIDE DEF b
  <2>7. InStep(Told)
    BY <1>6, OwnHolding
  <2>8. Prefixed(b, Told) /\ At(b) = Base(journal)
    BY <1>1, <2>6, <2>7, PrefixedNothing DEF InStep
  <2>9. Reads(b.memory, At(b).known)
    <3>1. View(start) = View(memory)
      BY <2>4 DEF View
    <3>2. Reads(memory, Base(journal).known) /\ Recovering(memory)
      BY <1>1, <2>7 DEF InStep, Recovering
    <3> QED
      BY <2>1, <2>4, <2>6, <2>8, <3>1, <3>2 DEF Reads
  <2>10. KeepsUp(b, Told) /\ b.memory.task.kind = "startup"
    BY <2>1, <2>4, <2>5, <2>6, <2>8, <2>9 DEF KeepsUp, TodoInv
  <2>11. Ready(b, Ids(Held))
    BY <1>1, <1>6, <2>3, <2>4, <2>5, <2>6, StartupReady
  <2>12. Settles(c, Ids(Held))
    BY <1>1, <1>4, <2>10, <2>11, NextCleanupSettles
  <2>13. TypedCourse(c)
    BY <1>1, <1>4, <2>5, NextCleanupFollows DEF Follows
  <2> QED
    BY <1>4, <1>5, <1>6, <2>12, <2>13, CourseOwned
<1>7. CASE ~healthy
  <2> HIDE DEF b
  <2>1. c.records = <<>> /\ ~breaks
    BY <1>4, <1>7
  <2>2. /\ journal' = journal \o <<>> /\ healthy' = healthy /\ intact' = intact
        /\ granted' = granted
    <3>1. Observation \notin ToSet(c.records)
      BY <2>1 DEF ToSet
    <3> QED
      BY <1>4, <2>1, <3>1 DEF Takes, Written
  <2>3. journal' = journal
    BY <1>1, <2>2, NumbersTyped
  <2>4. Ids(Held)' = Ids(Held)
    BY <1>5, <2>2, AloneHeld
  <2>5. Recoverable' /\ OwnerInv'
    BY <1>0, <1>7, <2>2, <2>3, <2>4 DEF Recoverable, OwnerInv
  <2>6. bridge'.command.id < nextId
    BY <1>0, <1>5 DEF IdInv
  <2>7. IdInv'
    BY <1>0, <1>5, <2>2, <2>6, AloneIds
  <2> QED
    BY <2>5, <2>7 DEF Owned
<1> QED
  BY <1>6, <1>7

-----------------------------------------------------------------------------
(* The bridge and the terminal keep what is found. *)

\* The late reply is over.
LEMMA ReplyGone ==
  ASSUME IdInv, UNCHANGED terminalVars, late' = NoReply, bridge'.command.id < nextId,
         nextId \in Nat \ {0}, granted' \subseteq 1..nextId - 1
  PROVE  IdInv'
<1>1. live' = live /\ nextId' = nextId /\ Told' = 1..nextId - 1
  BY DEF terminalVars, Told, NoReply, Reply
<1>2. late'.says = "none" /\ late'.call.id = 0
  BY DEF NoReply, Reply, NoCommand
<1>3. granted' \subseteq Told' /\ nextId' \in Nat
  BY <1>1
<1>4. Ids(live') \cup granted' \subseteq 1..nextId' - 1 /\ OneEach(live') /\ bridge'.command.id < nextId'
  BY <1>1 DEF IdInv
<1>5. late'.call.id < nextId' /\ late'.says \notin {"true", "false", "id"}
  BY <1>1, <1>2
<1> QED
  BY <1>3, <1>4, <1>5 DEF IdInv

\* The observation that the terminal has started again.
LEMMA ObservationSettles ==
  ASSUME OwnInv, healthy, memory.required, NEW c, c = Course(Unlocked(memory), <<Observation>>)
  PROVE  Settles(c, Ids(Held)) /\ TypedCourse(c)
<1> DEFINE e == Course(memory, <<>>)
           hs == Ids(Held)
<1>1. /\ InStep(Told) /\ TypeInv /\ Holding(hs) /\ nextId \in Nat \ {0} /\ memory \in MemoryType
  BY OwnHolding, NumbersTyped
<1>2. e.records = <<>> /\ <<>> \in Seq(RecordType)
  BY DEF Course
<1>3. c.memory = Unlocked(memory) /\ c.records = <<Observation>> /\ <<Observation>> = Append(<<>>, Observation)
  BY DEF Course
<1> HIDE DEF e, hs
<1>4. Watched(e, hs)
  BY <1>1, <1>2, WatchedNothing DEF Holding
<1>5. memory.task.kind \in {"none", "startup"}
  BY <1>1 DEF InStep, Reads
<1>6. Waits(memory) <= memory.seq /\ memory.slot.method \in {"none", "cancel"}
  <2>1. CASE memory.slot = NoSlot
    <3>1. NoSlot.method = "none" /\ Waits(memory) = 0 /\ memory.seq \in Nat
      BY <1>1, <2>1 DEF NoSlot, Waits, MemoryType
    <3> QED
      BY <2>1, <3>1
  <2>2. CASE memory.slot # NoSlot
    <3>1. memory.task.kind = "startup"
      BY <1>1, <1>5, <2>2, BusyStarted
    <3>2. memory.slot.method = "cancel"
      BY <1>1, <2>2, <3>1 DEF InStep, SlotInv
    <3>3. memory.seq \in Nat /\ memory.seq # 0 /\ Waits(memory) = 1
      BY <1>1, <2>2 DEF TypeInv, CallInv, MemoryType, Waits
    <3> QED
      BY <3>2, <3>3
  <2> QED
    BY <2>1, <2>2
<1>7. memory.slot.id < nextId /\ \A h \in memory.task.todo : h.id < nextId
  BY <1>1 DEF Holding, TaskInv
<1>8. Settles(c, hs)
  BY <1>1, <1>2, <1>3, <1>4, <1>5, <1>6, <1>7, ObservedSettles
<1>9. TypedCourse(c)
  <2>1. c.memory \in MemoryType
    BY <1>1, <1>3, UnlockedTyped
  <2>2. c.records \in Seq(RecordType) /\ c.records[1].kind # "registry_transition"
    <3>1. \A r \in RecordType : <<r>> \in Seq(RecordType) /\ <<r>>[1] = r
      OBVIOUS
    <3> QED
      BY <1>3, <3>1, RecordsTyped
  <2> QED
    BY <2>1, <2>2 DEF TypedCourse
<1> QED
  BY <1>8, <1>9 DEF hs

LEMMA RegisterOwned ==
  ASSUME OwnInv, RegisterBridge
  PROVE  Owned'
<1>0. JournalInv /\ IdInv /\ Recoverable /\ OwnerInv /\ TypeInv /\ nextId \in Nat \ {0} /\ granted \in SUBSET Nat
  BY DEF OwnInv, JournalInv, TypeInv, StateTypeOK
<1>1. late' = NoReply /\ UNCHANGED terminalVars /\ nextId' = nextId /\ nextId' \in Nat /\ nextId <= nextId'
  BY <1>0 DEF RegisterBridge, terminalVars
<1>2. bridge'.command = bridge.command
  <2>1. bridge \in [started : Nat, lease : Nat, command : CommandType]
    BY <1>0 DEF TypeInv, StateTypeOK
  <2>2. bridge' = [bridge EXCEPT !.lease = boot] \/ bridge' = bridge
    BY DEF RegisterBridge
  <2> QED
    BY <2>1, <2>2
<1>3. HeldOf(granted) = Ids(Held) /\ (granted' = granted => Ids(Held)' = Ids(Held))
  BY <1>1, AloneHeld
<1>4. Recoverable' /\ OwnerInv' /\ granted' \subseteq granted
  <2>1. CASE UNCHANGED <<memory, journalVars, granted>>
    <3>1. UNCHANGED <<memory, journalVars>> /\ granted' = granted /\ Ids(Held)' \subseteq Ids(Held)
      BY <1>3, <2>1
    <3> QED
      BY <1>0, <1>1, <3>1, StillOwned
  <2>2. CASE /\ memory.required /\ healthy
             /\ Written(Course(Unlocked(memory), <<Observation>>), granted)
    <3> DEFINE c == Course(Unlocked(memory), <<Observation>>)
    <3>1. Settles(c, Ids(Held)) /\ TypedCourse(c)
      BY <2>2, ObservationSettles
    <3>2. Takes(c, granted, FALSE)
      BY <2>2 DEF Takes
    <3> HIDE DEF c
    <3> QED
      BY <1>0, <1>1, <1>3, <3>1, <3>2, TakesOwned
  <2>3. CASE /\ memory.required /\ healthy
             /\ Broken(Course(memory, <<Observation>>), granted)
    <3> DEFINE c == Course(memory, <<Observation>>)
               d == Course(Unlocked(memory), <<Observation>>)
    <3>1. Watched(d, Ids(Held)) /\ d.records \in Seq(RecordType) /\ d.records[1].kind # "registry_transition"
      <4>1. Settles(d, Ids(Held)) /\ TypedCourse(d)
        BY <2>3, ObservationSettles
      <4>2. d.records # <<>>
        BY DEF Course
      <4> HIDE DEF d
      <4> QED
        BY <4>1, <4>2 DEF Settles, TypedCourse
    <3>2. d.records = c.records /\ c.memory = memory
      BY DEF Course
    <3>3. Takes(c, granted, TRUE)
      BY <2>3 DEF Takes
    <3> HIDE DEF c, d
    <3>4. Watched(c, Ids(Held))
      BY <3>1, <3>2 DEF Watched, WatchedTo
    <3>5. TypedCourse(c)
      BY <1>0, <3>1, <3>2, NumbersTyped DEF TypedCourse
    <3>6. Recoverable' /\ granted' \subseteq granted /\ ~healthy'
      <4>1. \A breaks \in BOOLEAN : Takes(c, granted, breaks) =>
              Recoverable' /\ granted' \subseteq granted /\ (breaks => ~healthy')
        BY <1>0, <1>3, <3>4, <3>5, TakesRecords
      <4> QED
        BY <3>3, <4>1
    <3> QED
      BY <3>6 DEF OwnerInv
  <2> QED
    BY <2>1, <2>2, <2>3 DEF RegisterBridge
<1>5. bridge'.command.id < nextId /\ granted' \subseteq 1..nextId - 1
  BY <1>0, <1>2, <1>4 DEF IdInv
<1>6. IdInv'
  BY <1>0, <1>1, <1>5, ReplyGone
<1> QED
  BY <1>4, <1>6 DEF Owned

LEMMA PollOwned ==
  ASSUME OwnInv, PollCommand
  PROVE  Owned'
<1> DEFINE slot == [memory.slot EXCEPT !.exposed = TRUE]
           n == [memory EXCEPT !.slot = slot]
<1>0. /\ memory \in MemoryType /\ memory.slot \in SlotType /\ memory.slot # NoSlot /\ healthy /\ TypeInv
      /\ IdInv /\ Recoverable
  BY NumbersTyped DEF PollCommand, JournalInv, HealthyInv, OwnInv
<1>1. /\ slot.seq = memory.slot.seq /\ slot.method = memory.slot.method
      /\ slot.id = memory.slot.id /\ slot.about = memory.slot.about /\ slot # NoSlot
  BY <1>0 DEF SlotType, NoSlot
<1>2. memory' = n
  BY <1>0 DEF PollCommand, MemoryType, SlotType
<1> HIDE DEF slot
<1>3. /\ n.slot = slot /\ n.task = memory.task /\ n.phase = memory.phase /\ n.required = memory.required
      /\ n.candidates = memory.candidates /\ n.whole = memory.whole /\ n.singles = memory.singles
      /\ n.unknown = memory.unknown /\ n.seq = memory.seq
  BY <1>0 DEF MemoryType
<1> HIDE DEF n
<1>4. /\ journal' = journal /\ healthy' = healthy /\ intact' = intact /\ UNCHANGED <<terminalVars, late>>
      /\ granted' = granted
  BY DEF PollCommand, journalVars
<1>5. Ids(Held)' = Ids(Held) /\ nextId' = nextId
  BY <1>4, AloneHeld
<1>6. Holding(Ids(Held))
  BY <1>0, OwnHolding
<1>7. /\ Handles(n) = Handles(memory) /\ IntentOf(slot) = IntentOf(memory.slot) /\ Waits(n) = Waits(memory)
      /\ Reach(n) = Reach(memory) /\ Doing(n) = Doing(memory)
      /\ \A s : HasSymbol(n, s) <=> HasSymbol(memory, s)
  BY <1>0, <1>1, <1>3 DEF Handles, IntentOf, Waits, Reach, Doing, HasSymbol
<1>8. Owns(n, Base(journal), Ids(Held))
  BY <1>3, <1>6, <1>7 DEF Holding, Owns
<1>9. TaskInv(n, nextId)
  BY <1>1, <1>3, <1>6, <1>7 DEF Holding, TaskInv
<1>10. CallsFor(n, Base(journal).pending)
  BY <1>1, <1>3, <1>6, <1>7 DEF Holding, CallsFor
<1>11. Recoverable' /\ OwnerInv'
  BY <1>0, <1>2, <1>4, <1>5, <1>8, <1>9, <1>10 DEF Recoverable, OwnerInv
<1>12. bridge'.command.id < nextId
  <2>1. bridge' = bridge \/ bridge'.command.id = memory.slot.id
    <3>1. bridge \in [started : Nat, lease : Nat, command : CommandType]
      BY <1>0 DEF TypeInv, StateTypeOK
    <3> QED
      BY <3>1 DEF PollCommand
  <2> QED
    BY <1>0, <1>6, <2>1 DEF IdInv, Holding, TaskInv
<1>13. IdInv'
  BY <1>0, <1>4, <1>12, AloneIds
<1> QED
  BY <1>11, <1>13 DEF Owned

\* A reply that is posted, of a terminal that has told the truth.
LEMMA PostOwned ==
  ASSUME OwnInv, NEW may, Told \subseteq may, NEW reply \in ReplyType,
         reply.says = "id" => /\ reply.id \in may \ Told /\ reply.id # 0
                              /\ reply.call.method # "cancel",
         reply.call.method = "cancel" /\ Confirms(reply.says) => reply.call.id \notin HeldOf(granted),
         reply.call # NoCommand, CallKnown(reply.call, reply.lease),
         NEW breaks \in BOOLEAN, PostResult(reply, breaks),
         HeldOf(granted) \subseteq Ids(Held), nextId' \in Nat, nextId <= nextId'
  PROVE  /\ Recoverable' /\ OwnerInv'
         /\ granted' \subseteq granted \cup {i \in {reply.id} : reply.says = "id"}
<1> DEFINE told == IF reply.says = "id" THEN granted \cup {reply.id} ELSE granted
           hs == HeldOf(granted)
           more == IF reply.says = "id" THEN hs \cup {reply.id} ELSE hs
<1>0. JournalInv /\ TypeInv /\ Recoverable /\ OwnerInv /\ granted \in SUBSET Nat
  BY DEF OwnInv, JournalInv, TypeInv, StateTypeOK
<1>1. reply.says \in Says /\ reply.id \in Nat
  BY DEF ReplyType
<1>2. CASE Accepts(reply)
  <2>1. PICK c \in Answers(reply.says, reply.id) : Takes(c, told, breaks)
    BY <1>2 DEF PostResult
  <2>2. memory.slot # NoSlot /\ memory.slot.seq = reply.call.seq /\ reply.lease = boot
    BY <1>2, ConstantsTyped DEF Accepts
  <2>3. Answering(reply.call)
    BY <2>2 DEF CallKnown
  <2>4. healthy
    BY <1>0, <2>2 DEF JournalInv, HealthyInv
  <2>5. InStep(may) /\ InStep(Told)
    BY <1>0, <2>4, HealthyInStep
  <2>6. Acceptable(reply.says, reply.id, may)
    <3> DEFINE v == View(Base(journal).known)
    <3>1. Ids(v.known) \subseteq Told /\ Handles(v) \subseteq v.known
      BY <2>5 DEF InStep, Durable, Sound
    <3> HIDE DEF v
    <3>2. Ids(Handles(v)) \subseteq Told
      BY <3>1 DEF Ids
    <3> QED
      BY <3>2 DEF Acceptable, Fresh, v
  <2>7. Holding(hs)
    <3>1. Holding(Ids(Held))
      BY <2>4, OwnHolding
    <3> QED
      BY <1>0, <3>1, HoldingLess
  <2>8. /\ reply.says = "id" => memory.slot.method # "cancel"
        /\ memory.slot.method = "cancel" /\ Confirms(reply.says) => memory.slot.id \notin hs
    BY <2>3 DEF Answering
  <2> HIDE DEF hs
  <2>9. Settles(c, more)
    BY <1>1, <2>1, <2>2, <2>5, <2>6, <2>7, <2>8, AnswersSettle
  <2>10. TypedCourse(c)
    BY <1>0, <1>1, <2>1, <2>2, BusyStarted, AnswersFollow DEF Follows
  <2>11. HeldOf(told) \subseteq more
    BY DEF HeldOf, Ids, hs
  <2>12. told \in SUBSET Nat
    BY <1>0, <1>1
  <2> HIDE DEF told, more
  <2>13. Recoverable' /\ OwnerInv' /\ granted' \subseteq told
    BY <1>0, <2>1, <2>9, <2>10, <2>11, <2>12, TakesOwned
  <2> QED
    BY <2>13 DEF told
<1>3. CASE ~Accepts(reply)
  <2>1. UNCHANGED <<memory, journalVars>> /\ granted' = granted
    BY <1>3 DEF PostResult
  <2>2. Ids(Held)' = HeldOf(granted)
    BY <2>1 DEF Held, HeldOf
  <2>3. Recoverable' /\ OwnerInv'
    BY <1>0, <2>1, <2>2, StillOwned
  <2> QED
    BY <2>1, <2>3
<1> QED
  BY <1>2, <1>3

\* What the terminal does, and what its answer then says of it.
LEMMA ExecutesIds ==
  ASSUME IdInv, nextId \in Nat \ {0}, live \subseteq HandleType,
         NEW command, command.id < nextId, NEW does \in BOOLEAN,
         NEW says \in {"id", "true", "false", "other", "failure"},
         Possible(command, does, says), Executes(command, does)
  PROVE  /\ nextId' \in Nat \ {0} /\ nextId <= nextId'
         /\ \A h \in live' : h \in live \/ (h = Handle(nextId, command.about) /\ nextId' = nextId + 1)
         /\ says = "id" => nextId' = nextId + 1 /\ command.method # "cancel"
         /\ command.method = "cancel" /\ Confirms(says) => command.id \notin Ids(live')
<1>1. CASE ~does
  <2>1. live' = live /\ nextId' = nextId
    BY <1>1 DEF Executes, terminalVars
  <2>2. says # "id"
    BY <1>1 DEF Possible, Sensible
  <2>3. command.method = "cancel" /\ Confirms(says) => command.id \notin Ids(live)
    BY <1>1 DEF Possible, Sensible, Confirms
  <2> QED
    BY <2>1, <2>2, <2>3
<1>2. CASE does /\ command.method = "cancel"
  <2>1. live' = WithoutId(live, command.id) /\ nextId' = nextId
    BY <1>2 DEF Executes
  <2>2. says # "id"
    BY <1>2 DEF Possible, Sensible
  <2>3. command.id \notin Ids(live') /\ live' \subseteq live
    BY <2>1 DEF WithoutId, Ids
  <2> QED
    BY <2>1, <2>2, <2>3
<1>3. CASE does /\ command.method # "cancel"
  <2>1. live' = live \cup {Handle(nextId, command.about)} /\ nextId' = nextId + 1
    BY <1>3 DEF Executes
  <2> QED
    BY <1>3, <2>1
<1> QED
  BY <1>1, <1>2, <1>3

LEMMA ExecutesOwned ==
  ASSUME OwnInv, BridgeExecutes
  PROVE  Owned'
<1> DEFINE command == bridge.command
<1>1. PICK does \in BOOLEAN, delayed \in BOOLEAN, breaks \in BOOLEAN,
           says \in {"id", "true", "false", "other", "failure"} :
        LET reply == Reply(command, says, IF says = "id" THEN nextId ELSE 0, bridge.lease)
        IN  /\ Possible(command, does, says)
            /\ Executes(command, does)
            /\ IF delayed
               THEN late' = reply /\ ~breaks /\ UNCHANGED <<memory, journalVars, granted>>
               ELSE PostResult(reply, breaks) /\ UNCHANGED late
  BY DEF BridgeExecutes
<1> DEFINE reply == Reply(command, says, IF says = "id" THEN nextId ELSE 0, bridge.lease)
<1>0. JournalInv /\ TypeInv /\ Recoverable /\ OwnerInv /\ IdInv /\ LateInv
  BY DEF OwnInv, JournalInv
<1>2. /\ nextId \in Nat \ {0} /\ bridge.lease \in Nat /\ command \in CommandType /\ late.id \in Nat
      /\ live \subseteq HandleType /\ granted \in SUBSET Nat
  BY <1>0 DEF TypeInv, StateTypeOK, ReplyType
<1>3. /\ reply \in ReplyType /\ reply.says = says /\ reply.id = IF says = "id" THEN nextId ELSE 0
      /\ reply.call = command /\ reply.lease = bridge.lease
  BY <1>2 DEF Reply, ReplyType, Says
<1>4. command # NoCommand /\ CallKnown(command, bridge.lease) /\ bridge'.command = NoCommand /\ command.id < nextId
  <2>1. bridge \in [started : Nat, lease : Nat, command : CommandType]
    BY <1>0 DEF TypeInv, StateTypeOK
  <2> QED
    BY <1>0, <2>1 DEF BridgeExecutes, TypeInv, CallInv, IdInv
<1>5. \/ late' = reply /\ UNCHANGED <<memory, journalVars, granted>>
      \/ PostResult(reply, breaks) /\ late' = late
  BY <1>1
<1>6. Possible(command, does, says) /\ Executes(command, does)
  BY <1>1
<1> HIDE DEF reply, command
<1>7. /\ nextId' \in Nat \ {0} /\ nextId <= nextId'
      /\ \A h \in live' : h \in live \/ (h = Handle(nextId, command.about) /\ nextId' = nextId + 1)
      /\ says = "id" => nextId' = nextId + 1 /\ command.method # "cancel"
      /\ command.method = "cancel" /\ Confirms(says) => command.id \notin Ids(live')
  BY <1>0, <1>2, <1>4, <1>6, ExecutesIds
<1>8. /\ \A h \in live : h.id \in 1..nextId - 1
      /\ \A i \in granted : i \in 1..nextId - 1 /\ i \in Told
      /\ Handle(nextId, command.about).id = nextId /\ Handle(nextId, command.about).about = command.about
  BY <1>0 DEF IdInv, Ids, Handle
<1>9. HeldOf(granted) \subseteq Ids(Held)
  <2>1. \A h \in live' : h.id \in granted => h \in Held
    BY <1>2, <1>7, <1>8 DEF Held
  <2> QED
    BY <2>1 DEF HeldOf, Ids
<1>10. \A i \in Told : i \in 1..nextId - 1 /\ (late.says = "id" => i # late.id)
  BY DEF Told
<1>11. late.says = "id" => late.id \in 1..nextId - 1
  BY <1>0 DEF LateInv
<1>12. /\ Recoverable' /\ OwnerInv'
       /\ granted' \subseteq granted \cup {i \in {nextId} : says = "id" /\ late' = late}
  <2>1. CASE late' = reply /\ UNCHANGED <<memory, journalVars, granted>>
    <3>1. UNCHANGED <<memory, journalVars>> /\ granted' = granted
      BY <2>1
    <3>2. Ids(Held)' = HeldOf(granted)
      BY <3>1 DEF Held, HeldOf
    <3> QED
      BY <1>0, <1>7, <1>9, <3>1, <3>2, StillOwned
  <2>2. CASE PostResult(reply, breaks) /\ late' = late
    <3> DEFINE may == Told \cup {nextId}
    <3>1. says = "id" => nextId \in may \ Told
      BY <1>2, <1>10
    <3>2. Told \subseteq may
      OBVIOUS
    <3> HIDE DEF may
    <3>3. command.method = "cancel" /\ Confirms(says) => command.id \notin HeldOf(granted)
      BY <1>7 DEF HeldOf, Ids
    <3>4. /\ Recoverable' /\ OwnerInv'
          /\ granted' \subseteq granted \cup {i \in {reply.id} : reply.says = "id"}
      BY <1>0, <1>2, <1>3, <1>4, <1>7, <1>9, <2>2, <3>1, <3>2, <3>3, PostOwned
    <3> QED
      BY <1>3, <2>2, <3>4
  <2> QED
    BY <1>5, <2>1, <2>2
<1>13. \A h \in live' : h.id \in 1..nextId' - 1
  BY <1>2, <1>7, <1>8
<1>14. \A i \in granted' : i \in 1..nextId' - 1
  <2>1. \A i \in granted' : i \in granted \/ (i = nextId /\ says = "id")
    BY <1>12
  <2>2. \A i \in granted' : i \in 1..nextId - 1 \/ (i = nextId /\ nextId' = nextId + 1)
    BY <1>7, <1>8, <2>1
  <2> QED
    BY <1>2, <1>7, <2>2
<1>15. granted' \subseteq Told'
  <2>1. Told' = {i \in 1..nextId' - 1 : late'.says = "id" => i # late'.id}
    BY DEF Told
  <2>2. \A i \in granted' : late'.says = "id" => i # late'.id
    <3>1. CASE late' = late
      BY <1>2, <1>8, <1>10, <1>11, <1>12, <3>1
    <3>2. CASE late' # late
      BY <1>2, <1>3, <1>5, <1>8, <3>2
    <3> QED
      BY <3>1, <3>2
  <2> QED
    BY <1>14, <2>1, <2>2
<1>16. OneEach(live')
  <2>1. OneEach(live)
    BY <1>0 DEF IdInv
  <2> QED
    BY <1>2, <1>7, <1>8, <2>1 DEF OneEach
<1>17. bridge'.command.id < nextId' /\ late'.call.id < nextId'
  <2>1. late.call.id < nextId /\ NoCommand.id = 0 /\ command.id \in Nat /\ late.call.id \in Nat
    BY <1>0, <1>2 DEF IdInv, NoCommand, CommandType, TypeInv, StateTypeOK, ReplyType
  <2> QED
    BY <1>2, <1>3, <1>4, <1>5, <1>7, <2>1
<1>18. late'.says \in {"true", "false"} /\ late'.call.method = "cancel" => late'.call.id \notin Ids(live')
  <2>1. CASE late' = late
    <3>1. late.call.id < nextId /\ late.call.id \in Nat
      BY <1>0, <1>2 DEF IdInv, CommandType, TypeInv, StateTypeOK, ReplyType
    <3>2. late.says \in {"true", "false"} /\ late.call.method = "cancel" => late.call.id \notin Ids(live)
      BY <1>0 DEF IdInv
    <3> QED
      BY <1>2, <1>7, <1>8, <2>1, <3>1, <3>2 DEF Ids
  <2>2. CASE late' = reply
    BY <1>3, <1>7, <2>2 DEF Confirms
  <2> QED
    BY <1>5, <2>1, <2>2
<1>19. late'.says = "id" => /\ late'.call.method # "cancel"
                            /\ \A h \in live' : h.id = late'.id => h.about = late'.call.about
  <2>1. CASE late' = late
    <3>1. late.says = "id" => /\ late.call.method # "cancel"
                              /\ \A h \in live : h.id = late.id => h.about = late.call.about
      BY <1>0 DEF IdInv
    <3> QED
      BY <1>2, <1>7, <1>8, <1>11, <2>1, <3>1
  <2>2. CASE late' = reply
    BY <1>2, <1>3, <1>7, <1>8, <2>2
  <2> QED
    BY <1>5, <2>1, <2>2
<1>20. IdInv'
  <2>1. Ids(live') \cup granted' \subseteq 1..nextId' - 1
    BY <1>13, <1>14 DEF Ids
  <2> QED
    BY <1>15, <1>16, <1>17, <1>18, <1>19, <2>1 DEF IdInv
<1> QED
  BY <1>12, <1>20 DEF Owned

LEMMA LateReplyOwned ==
  ASSUME OwnInv, LateReply
  PROVE  Owned'
<1>0. JournalInv /\ TypeInv /\ IdInv /\ LateInv
  BY DEF OwnInv, JournalInv
<1>1. PICK breaks \in BOOLEAN : PostResult(late, breaks)
  BY DEF LateReply
<1>2. /\ late \in ReplyType /\ late' = NoReply /\ UNCHANGED terminalVars /\ nextId' = nextId /\ bridge' = bridge
      /\ nextId \in Nat \ {0} /\ live' = live
  BY <1>0 DEF LateReply, terminalVars, TypeInv, StateTypeOK
<1>3. late.call # NoCommand /\ CallKnown(late.call, late.lease)
  BY <1>0 DEF LateReply, TypeInv, CallInv
<1> DEFINE may == 1..nextId - 1
<1>4. Told \subseteq may /\ (late.says = "id" => late.id \in may \ Told /\ late.id # 0)
  BY <1>0, <1>2 DEF Told, LateInv
<1> HIDE DEF may
<1>5. HeldOf(granted) = Ids(Held)
  BY <1>2, AloneHeld
<1>6. late.call.method = "cancel" /\ Confirms(late.says) => late.call.id \notin HeldOf(granted)
  <2>1. late.call.method = "cancel" /\ Confirms(late.says) => late.call.id \notin Ids(live)
    BY <1>0 DEF IdInv, Confirms
  <2> QED
    BY <1>2, <2>1 DEF HeldOf, Ids
<1>7. late.says = "id" => late.call.method # "cancel"
  BY <1>0 DEF IdInv
<1>8. nextId' \in Nat /\ nextId <= nextId'
  BY <1>2
<1>9. /\ Recoverable' /\ OwnerInv'
      /\ granted' \subseteq granted \cup {i \in {late.id} : late.says = "id"}
  BY <1>1, <1>2, <1>3, <1>4, <1>5, <1>6, <1>7, <1>8, PostOwned
<1>10. granted' \subseteq 1..nextId - 1 /\ bridge'.command.id < nextId
  BY <1>0, <1>2, <1>4, <1>9 DEF IdInv, may
<1>11. IdInv'
  BY <1>0, <1>2, <1>10, ReplyGone
<1> QED
  BY <1>9, <1>11 DEF Owned

-----------------------------------------------------------------------------
(* Restarts. *)

\* Nothing waits, and nothing is known.
LEMMA NothingWaits ==
  ASSUME NEW m, m.slot = NoSlot, m.task = NoTask, m.phase = "not_started" => m.seq = 0,
         NEW top \in Nat \ {0}, NEW pending
  PROVE  TaskInv(m, top) /\ CallsFor(m, pending)
<1>1. NoSlot.id = 0 /\ NoSlot.method = "none" /\ NoTask.kind = "none" /\ NoTask.todo = {}
  BY DEF NoSlot, NoTask, Task
<1> QED
  BY <1>1 DEF TaskInv, CallsFor

LEMMA NothingOwned ==
  ASSUME NEW m, m.slot = NoSlot, ~m.required, m.unknown = 0, m.seq \in Nat
  PROVE  IsFiniteSet(Known(Blank)) /\ Guarded(Blank, {}, 0) /\ Owns(m, Blank, {})
<1>1. Known(Blank) = {}
  BY BlankDurable DEF Known, HandlesOf
<1>2. IsFiniteSet({}) /\ Cardinality({}) = 0
  BY FS_EmptySet
<1>3. Finds(Blank, {}) /\ Guarded(Blank, {}, 0)
  BY FoundGuards DEF Finds
<1>4. Waits(m) = 0
  BY NobodyWaits
<1> QED
  BY <1>1, <1>2, <1>3, <1>4 DEF Owns

\* A call without a result is unknown to the restart.
LEMMA ReplaySettled ==
  ASSUME TypeInv, NEW k, k = Replay(journal)
  PROVE  /\ k.unknown = 0 => Base(journal).pending = {}
         /\ Untried(k.candidates) \subseteq Untried(Base(journal).known.candidates)
<1> DEFINE s == After(Confirmed(journal), journal)
           b == Base(journal)
           cancels == {p.id : p \in {x \in s.pending : x.method = "cancel"}}
<1>1. s \in ReplayType /\ Same(s, b) /\ k = Settled(s)
  BY NumbersTyped, ReplayIsAfter DEF Readable
<1> HIDE DEF s, b
<1>2. s.known \in KnownType /\ s.known.candidates \in SUBSET CandidateType /\ s.known.unknown \in Nat
      /\ IsFiniteSet(s.pending)
  BY <1>1 DEF ReplayType, KnownType
<1>3. /\ k.unknown = s.known.unknown + Cardinality(s.pending)
      /\ k.candidates = Tried(s.known.candidates, cancels)
  BY <1>1, <1>2 DEF Settled, KnownType
<1>4. s.pending = b.pending /\ s.known.candidates = b.known.candidates
  BY <1>1 DEF Same
<1>5. k.unknown = 0 => b.pending = {}
  <2>1. Cardinality(s.pending) \in Nat /\ (Cardinality(s.pending) = 0 <=> s.pending = {})
    BY <1>2, FS_CardinalityType, FS_EmptySet
  <2> QED
    BY <1>2, <1>3, <1>4, <2>1
<1> HIDE DEF cancels
<1>6. Untried(k.candidates) \subseteq Untried(b.known.candidates)
  BY <1>2, <1>3, <1>4, UntriedLess
<1> QED
  BY <1>5, <1>6 DEF b

\* What a start of the datasource restores.
LEMMA RestoredOwns ==
  ASSUME TypeInv, NEW k, k = Replay(journal), NEW hs, IsFiniteSet(Known(Base(journal))),
         Guarded(Base(journal), hs, 0), NEW m, m = Restored(k)
  PROVE  Owns(m, Base(journal), hs)
<1> DEFINE b == Base(journal)
<1>1. k \in KnownType /\ View(k) = View(b.known) /\ b \in ReplayType
  BY ReplayViewed, BaseTyped
<1>2. /\ m.slot = NoSlot /\ m.task = NoTask /\ m.seq = 0 /\ m.phase = "not_started"
      /\ m.candidates = k.candidates /\ m.unknown = k.unknown
      /\ m.required <=> k.candidates # {} \/ k.unknown # 0
  BY <1>1, RestoredTyped
<1>3. /\ k.unknown = 0 => b.pending = {}
      /\ Untried(k.candidates) \subseteq Untried(b.known.candidates)
  BY ReplaySettled
<1>4. k.unknown = 0 => Finds(b, hs)
  BY <1>3 DEF Guarded
<1>5. CASE m.required
  <2>1. IsFiniteSet(m.task.todo)
    BY <1>2, FS_EmptySet DEF NoTask, Task
  <2>2. Reach(m) \in Nat /\ Reach(m) <= Left(b)
    <3>1. Untried(b.known.candidates) \subseteq Known(b)
      BY <1>1, UntriedLess DEF Known, ReplayType, KnownType
    <3>2. IsFiniteSet(Untried(b.known.candidates))
      BY <3>1, FS_Subset
    <3>3. Cardinality(Untried(k.candidates)) <= Cardinality(Untried(b.known.candidates))
          /\ IsFiniteSet(Untried(k.candidates))
      BY <1>3, <3>2, FS_Subset
    <3> QED
      BY <1>2, <3>3, FS_CardinalityType DEF Reach, Left
  <2>3. Guarded(b, hs, Reach(m))
    <3>1. CASE Finds(b, hs)
      BY <3>1, FoundGuards
    <3>2. CASE ~Finds(b, hs)
      <4>1. PICK p \in b.pending : Open(b, p, 0)
        BY <3>2 DEF Guarded
      <4>2. p.seq \in Nat /\ Left(b) \in Nat
        <5>1. p.seq \in Nat
          BY <1>1 DEF ReplayType, IntentType
        <5>2. IsFiniteSet(Untried(b.known.candidates))
          <6>1. Untried(b.known.candidates) \subseteq Known(b)
            BY <1>1, UntriedLess DEF Known, ReplayType, KnownType
          <6> QED
            BY <6>1, FS_Subset
        <5> QED
          BY <5>1, <5>2, FS_CardinalityType DEF Left
      <4>3. p.seq > Reach(m)
        BY <2>2, <4>1, <4>2 DEF Open
      <4> QED
        BY <4>1, <4>3 DEF Open, Guarded
    <3> QED
      BY <3>1, <3>2
  <2> QED
    BY <1>2, <1>4, <1>5, <2>1, <2>3 DEF Owns
<1>6. CASE ~m.required
  <2>1. k.candidates = {} /\ k.unknown = 0
    BY <1>2, <1>6
  <2>2. Known(b) = {}
    <3>1. HandlesOf(k.candidates) = Known(b)
      BY <1>1 DEF View, Known
    <3> QED
      BY <2>1, <3>1 DEF HandlesOf
  <2>3. Waits(m) = 0 /\ Cardinality({}) = 0
    BY <1>2, NobodyWaits, FS_EmptySet
  <2> QED
    BY <1>2, <1>4, <1>6, <2>1, <2>2, <2>3 DEF Owns
<1> QED
  BY <1>5, <1>6 DEF b

LEMMA DatasourceOwned ==
  ASSUME OwnInv, DatasourceRestart
  PROVE  Owned'
<1> DEFINE k == IF intact THEN Replay(journal) ELSE Unknown(Forgotten)
           m == Restored(k)
<1>0. JournalInv /\ TypeInv /\ IdInv /\ Recoverable /\ nextId \in Nat \ {0}
  BY DEF OwnInv, JournalInv, TypeInv, StateTypeOK
<1>1. \/ memory' = m /\ UNCHANGED <<journal, granted>>
      \/ memory' = Unlocked(m) /\ journal' = Append(journal, Observation) /\ granted' = {}
  BY DEF DatasourceRestart
<1>2. healthy' = intact /\ intact' = intact /\ UNCHANGED <<terminalVars, late>> /\ bridge' = bridge
  BY DEF DatasourceRestart
<1>3. k \in KnownType
  BY <1>0, ForgottenTyped, ReplayViewed
<1>4. Ids(Held)' = {h.id : h \in {x \in live : x.id \in granted'}} /\ nextId' = nextId
  BY <1>2 DEF Held, Ids, terminalVars
<1>5. IdInv'
  <2>1. bridge'.command.id < nextId
    BY <1>0, <1>2 DEF IdInv
  <2>2. granted' \subseteq granted
    BY <1>1
  <2> QED
    BY <1>0, <1>2, <2>1, <2>2, AloneIds
<1>6. /\ m.slot = NoSlot /\ m.task = NoTask /\ m.seq = 0 /\ m \in MemoryType
  BY <1>3, RestoredTyped
<1>7. CASE memory' = m /\ UNCHANGED <<journal, granted>>
  <2>1. Ids(Held)' = Ids(Held)
    BY <1>2, <1>7, AloneHeld
  <2>2. Recoverable'
    BY <1>0, <1>2, <1>7, <2>1 DEF Recoverable
  <2>3. ASSUME intact PROVE Owns(m, Base(journal), Ids(Held))
    BY <1>0, <2>3, RestoredOwns DEF Recoverable
  <2> HIDE DEF m
  <2>4. TaskInv(m, nextId) /\ CallsFor(m, Base(journal).pending)
    BY <1>0, <1>6, NothingWaits
  <2>5. OwnerInv'
    BY <1>2, <1>4, <1>7, <2>1, <2>3, <2>4 DEF OwnerInv
  <2> QED
    BY <1>5, <2>2, <2>5 DEF Owned
<1>8. CASE memory' = Unlocked(m) /\ journal' = Append(journal, Observation) /\ granted' = {}
  <2> DEFINE n == Unlocked(m)
  <2> HIDE DEF m
  <2>1. Base(journal') = Blank
    <3>1. Base(Append(journal, Observation)) = Step(Base(journal), Observation)
      BY <1>0, NumbersTyped, RecordsTyped, AfterAppend DEF Base, Step
    <3> QED
      BY <1>8, <3>1, RecordsTyped, StepObserved
  <2>2. Ids(Held)' = {}
    BY <1>4, <1>8
  <2>3. /\ n.slot = NoSlot /\ n.task = NoTask /\ ~n.required /\ n.unknown = 0 /\ n.seq = 0
        /\ n.phase = "completed"
    BY <1>6, UnlockedTyped
  <2> HIDE DEF n
  <2>4. TaskInv(n, nextId) /\ CallsFor(n, Blank.pending)
    BY <1>0, <2>3, NothingWaits
  <2>5. IsFiniteSet(Known(Blank)) /\ Guarded(Blank, {}, 0) /\ Owns(n, Blank, {})
    BY <2>3, NothingOwned
  <2>6. memory' = n
    BY <1>8 DEF n
  <2>7. Recoverable' /\ OwnerInv'
    BY <1>4, <2>1, <2>2, <2>4, <2>5, <2>6 DEF Recoverable, OwnerInv
  <2> QED
    BY <1>5, <2>7 DEF Owned
<1> QED
  BY <1>1, <1>7, <1>8

LEMMA TerminalOwned ==
  ASSUME OwnInv, TerminalRestart, ~IdsRestart
  PROVE  Owned'
<1>0. /\ JournalInv /\ TypeInv /\ IdInv /\ Recoverable /\ OwnerInv /\ nextId \in Nat \ {0}
  BY DEF OwnInv, JournalInv, TypeInv, StateTypeOK
<1>1. /\ UNCHANGED <<memory, journalVars>> /\ live' = {} /\ granted' = {} /\ late' = late
      /\ nextId' = nextId /\ bridge'.command = NoCommand
  BY DEF TerminalRestart
<1>2. Ids(Held)' = {}
  BY <1>1 DEF Held, Ids
<1>3. Recoverable' /\ OwnerInv'
  BY <1>0, <1>1, <1>2, StillOwned
<1>4. IdInv'
  <2>1. Ids(live') \cup granted' = {} /\ OneEach(live') /\ NoCommand.id = 0
    BY <1>1 DEF Ids, OneEach, NoCommand
  <2>2. late.call.id < nextId /\ (late.says = "id" => late.call.method # "cancel")
    BY <1>0 DEF IdInv
  <2>3. late'.call.id \notin Ids(live') /\ \A h \in live' : h.about = late'.call.about
    BY <2>1, <1>1
  <2> QED
    BY <1>0, <1>1, <2>1, <2>2, <2>3 DEF IdInv
<1> QED
  BY <1>3, <1>4 DEF Owned

LEMMA OwnInvInit == Init => OwnInv
<1> SUFFICES ASSUME Init PROVE OwnInv
  OBVIOUS
<1>1. /\ JournalInv /\ memory = Restored(Forgotten) /\ journal = <<>> /\ late = NoReply
      /\ live = {} /\ granted = {} /\ nextId = 1 /\ bridge.command = NoCommand
  BY JournalInvInit DEF Init
<1>2. Base(journal) = Blank
  BY <1>1, AfterNothing DEF Base
<1>3. Ids(live) = {} /\ Ids(Held) = {} /\ OneEach(live)
  BY <1>1 DEF Held, Ids, OneEach
<1>4. /\ memory.slot = NoSlot /\ memory.task = NoTask /\ memory.seq = 0 /\ ~memory.required /\ memory.unknown = 0
  <2>1. Forgotten.candidates = {} /\ Forgotten.unknown = 0
    BY DEF Forgotten
  <2> QED
    BY <1>1, <2>1, ForgottenTyped, RestoredTyped
<1>5. TaskInv(memory, nextId) /\ CallsFor(memory, Base(journal).pending)
  BY <1>1, <1>4, NothingWaits
<1>6. IsFiniteSet(Known(Blank)) /\ Guarded(Blank, {}, 0) /\ Owns(memory, Blank, {})
  BY <1>4, NothingOwned
<1>7. IdInv
  <2>1. NoReply.says = "none" /\ NoReply.call.id = 0 /\ NoCommand.id = 0
    BY DEF NoReply, Reply, NoCommand
  <2> QED
    BY <1>1, <1>3, <2>1 DEF IdInv
<1> QED
  BY <1>1, <1>2, <1>3, <1>5, <1>6, <1>7 DEF OwnInv, Recoverable, OwnerInv

LEMMA OwnInvNext ==
  ASSUME OwnInv, [Next]_vars, ~IdsRestart
  PROVE  OwnInv'
<1>1. JournalInv'
  BY JournalInvNext DEF OwnInv
<1>2. CASE UNCHANGED vars
  <2>1. UNCHANGED <<memory, journalVars>> /\ UNCHANGED <<terminalVars, late>> /\ bridge' = bridge /\ granted' = granted
    BY <1>2 DEF vars
  <2>2. IdInv /\ TypeInv /\ Recoverable /\ OwnerInv /\ nextId \in Nat /\ bridge'.command.id < nextId
    BY <2>1 DEF OwnInv, JournalInv, TypeInv, StateTypeOK, IdInv
  <2>3. IdInv'
    BY <2>1, <2>2, AloneIds
  <2>4. Ids(Held)' = Ids(Held) /\ nextId' = nextId
    BY <2>1, AloneHeld
  <2>5. Recoverable' /\ OwnerInv'
    BY <2>1, <2>2, <2>4, StillOwned
  <2> QED
    BY <1>1, <2>3, <2>5 DEF OwnInv
<1>3. CASE Next
  <2>1. Owned'
    BY <1>3, SubscribeOwned, UnsubscribeOwned, SyncOwned, ReconcileOwned, TimesOutOwned, RegisterOwned,
       PollOwned, ExecutesOwned, LateReplyOwned, DatasourceOwned, TerminalOwned DEF Next
  <2> QED
    BY <1>1, <2>1 DEF OwnInv, Owned
<1> QED
  BY <1>2, <1>3

\* What the terminal has of the subscriptions the datasource was told of is
\* found in the journal, or a call without a result tells that something is
\* missing, and while the controller takes requests its registry has it, if a
\* new terminal does not give out the ids of the last one again.  It speaks of
\* Held: what an automatic unlock has written off while it lived is not in it
\* (_attempt_auto_unlock).
THEOREM OwnershipInductive == ~IdsRestart => (Spec => []OwnInv)
<1> SUFFICES ASSUME ~IdsRestart PROVE Spec => []OwnInv
  OBVIOUS
<1>1. OwnInv /\ [Next]_vars => OwnInv'
  BY OwnInvNext
<1> QED
  BY <1>1, OwnInvInit, PTL DEF Spec

\* What was answered is held still, or an observation has written it off.
LEMMA AnsweredOrHeld == Ids(Answered) \subseteq Ids(Held) \cup discarded
<1> SUFFICES ASSUME NEW h \in Answered PROVE h.id \in Ids(Held) \cup discarded
  BY DEF Ids
<1>1. h \in Held \/ h.id \in discarded
  BY DEF Answered, Held
<1> QED
  BY <1>1 DEF Ids

\* Wherever the datasource stops, its journal finds every subscription the
\* terminal still has of those it was told of, or tells that something is
\* missing; only what an observation has written off is not found, which of the
\* automatic unlock may be a live one (_restore_startup_state).
THEOREM NothingIsForgotten == ~IdsRestart => (Spec => []RecoverableAfterCrash)
<1> SUFFICES ASSUME ~IdsRestart PROVE Spec => []RecoverableAfterCrash
  OBVIOUS
<1>1. OwnInv => RecoverableAfterCrash
  <2> SUFFICES ASSUME OwnInv, intact, ~(Now.unknown > 0)
               PROVE  Ids(Held) \subseteq Ids(Now.candidates)
    BY AnsweredOrHeld DEF RecoverableAfterCrash
  <2>1. TypeInv /\ Guarded(Base(journal), Ids(Held), 0)
    BY DEF OwnInv, JournalInv, Recoverable
  <2>2. Now \in KnownType /\ View(Now) = View(Base(journal).known)
    BY <2>1, ReplayViewed DEF Now
  <2>3. Now.unknown = 0
    BY <2>2 DEF KnownType
  <2>4. Base(journal).pending = {}
    BY <2>1, <2>3, ReplaySettled DEF Now
  <2>5. Ids(Held) \subseteq Ids(Known(Base(journal)))
    BY <2>1, <2>4 DEF Guarded, Finds
  <2>6. Known(Base(journal)) = HandlesOf(Now.candidates)
    BY <2>2 DEF View, Known
  <2> QED
    BY <2>5, <2>6, HandlesOfIds
<1> QED
  BY <1>1, OwnershipInductive, PTL

\* While the controller takes requests, its registry has every subscription of
\* the terminal it was told of, but for those an automatic unlock has written
\* off while they lived (_cancel_handle, _attempt_auto_unlock).
THEOREM HeldAreOwned == ~IdsRestart => (Spec => []AnsweredAreOwned)
<1> SUFFICES ASSUME ~IdsRestart PROVE Spec => []AnsweredAreOwned
  OBVIOUS
<1>1. OwnInv => AnsweredAreOwned
  <2> SUFFICES ASSUME OwnInv, healthy, ~memory.required
               PROVE  Ids(Held) \subseteq RegistryIds(memory)
    BY AnsweredOrHeld DEF AnsweredAreOwned
  <2>1. Ids(Held) \subseteq Ids(Known(Base(journal))) /\ Known(Base(journal)) \subseteq Handles(memory)
    BY DEF OwnInv, OwnerInv, Owns, Finds
  <2>2. Ids(Handles(memory)) \subseteq RegistryIds(memory)
    <3> SUFFICES ASSUME NEW h \in Handles(memory) PROVE h.id \in RegistryIds(memory)
      BY DEF Ids
    <3>1. \/ h = Handle(memory.whole.id, {})
          \/ \E s \in Symbols : h = Handle(memory.singles[s], {s})
      BY InHandles
    <3>2. CASE h = Handle(memory.whole.id, {})
      <4>1. h.id = memory.whole.id
        BY <3>2 DEF Handle
      <4> QED
        BY <4>1 DEF RegistryIds
    <3>3. CASE \E s \in Symbols : h = Handle(memory.singles[s], {s})
      <4>1. PICK s \in Symbols : h = Handle(memory.singles[s], {s})
        BY <3>3
      <4>2. h.id = memory.singles[s]
        BY <4>1 DEF Handle
      <4> QED
        BY <4>2 DEF RegistryIds
    <3> QED
      BY <3>1, <3>2, <3>3
  <2> QED
    BY <2>1, <2>2 DEF Ids
<1> QED
  BY <1>1, OwnershipInductive, PTL

-----------------------------------------------------------------------------
(* No symbol is in two subscriptions.                                      *)

\* What the terminal has under an id of the registry is what the registry says.
Alike(m, handles) ==
  \A h \in handles : /\ h.id = m.whole.id => h.about \subseteq m.whole.symbols
                     /\ \A s \in Symbols : m.singles[s] = h.id => h.about \subseteq {s}
HeldApart == \A h, k \in Held : h.id # k.id => h.about \cap k.about = {}
SymbolInv == HeldApart /\ (healthy /\ ~memory.required => Alike(memory, Held))

\* The registry loses handles, or is empty.
Shrunk(m, n) ==
  /\ n.whole \in {m.whole, NoWhole}
  /\ \A s \in Symbols : n.singles[s] \in {m.singles[s], 0}
Narrows(n) == ~n.required => Handles(n) = {} \/ (~memory.required /\ Shrunk(memory, n))

LEMMA EmptyRegistry ==
  ASSUME NEW m, m.whole = NoWhole, \A s \in Symbols : m.singles[s] = 0
  PROVE  Handles(m) = {}
<1>1. \A h : h \notin Handles(m)
  BY InHandles
<1> QED
  BY <1>1

LEMMA UnlockedEmpty ==
  ASSUME NEW m \in MemoryType
  PROVE  Handles(Unlocked(m)) = {}
BY UnlockedTyped, EmptyRegistry

\* A step that grants nothing.
LEMMA NoneMore ==
  ASSUME OwnInv, SymbolInv, OwnInv', Held' \subseteq Held,
         healthy' /\ ~memory'.required => Handles(memory') = {} \/ (healthy /\ ~memory.required /\ Shrunk(memory, memory'))
  PROVE  SymbolInv'
<1>1. HeldApart'
  BY DEF SymbolInv, HeldApart
<1>2. ASSUME healthy', ~memory'.required PROVE Alike(memory', Held')
  <2>1. CASE Handles(memory') = {}
    <3>1. Ids(Held') \subseteq Ids(Known(Base(journal'))) /\ Known(Base(journal')) \subseteq Handles(memory')
      BY <1>2 DEF OwnInv, OwnerInv, Owns, Finds
    <3>2. Held' = {}
      BY <2>1, <3>1 DEF Ids
    <3> QED
      BY <3>2 DEF Alike
  <2>2. CASE healthy /\ ~memory.required /\ Shrunk(memory, memory')
    <3>1. Alike(memory, Held)
      BY <2>2 DEF SymbolInv
    <3>2. \A h \in Held' : h.id # 0
      <4>1. \A i \in Ids(live) : i # 0
        BY DEF OwnInv, IdInv, JournalInv, TypeInv, StateTypeOK
      <4>2. \A h \in Held : h.id \in Ids(live)
        BY DEF Held, Ids
      <4> QED
        BY <4>1, <4>2
    <3>3. ASSUME NEW h \in Held'
          PROVE  /\ h.id = memory'.whole.id => h.about \subseteq memory'.whole.symbols
                 /\ \A s \in Symbols : memory'.singles[s] = h.id => h.about \subseteq {s}
      <4>1. h \in Held /\ h.id # 0
        BY <3>2
      <4>2. NoWhole.id = 0
        BY DEF NoWhole
      <4>3. h.id = memory'.whole.id => memory'.whole = memory.whole
        BY <2>2, <4>1, <4>2 DEF Shrunk
      <4>4. \A s \in Symbols : memory'.singles[s] = h.id => memory.singles[s] = h.id
        BY <2>2, <4>1 DEF Shrunk
      <4> QED
        BY <3>1, <4>1, <4>3, <4>4 DEF Alike
    <3> QED
      BY <3>3 DEF Alike
  <2> QED
    BY <1>2, <2>1, <2>2
<1> QED
  BY <1>1, <1>2 DEF SymbolInv

\* What a course leaves of the controller, written or broken off.
LEMMA TakesMemory ==
  ASSUME NEW c, NEW told, NEW breaks \in BOOLEAN, Takes(c, told, breaks)
  PROVE  /\ granted' \subseteq told
         /\ breaks => ~healthy'
         /\ ~breaks => memory' = c.memory /\ healthy' = healthy
<1>1. CASE breaks
  BY <1>1 DEF Takes, Broken
<1>2. CASE ~breaks
  BY <1>2 DEF Takes, Written
<1> QED
  BY <1>1, <1>2

LEMMA TakesNarrow ==
  ASSUME OwnInv, SymbolInv, OwnInv', UNCHANGED terminalVars,
         NEW c, NEW breaks \in BOOLEAN, Takes(c, granted, breaks), Narrows(c.memory)
  PROVE  SymbolInv'
<1>1. granted' \subseteq granted /\ live' = live
  BY TakesMemory DEF terminalVars
<1>2. Held' \subseteq Held
  BY <1>1 DEF Held
<1>3. healthy' => memory' = c.memory /\ healthy
  BY TakesMemory
<1> QED
  BY <1>2, <1>3, NoneMore DEF Narrows

LEMMA SameNarrows ==
  ASSUME ~memory.required, NEW n, n.whole = memory.whole, n.singles = memory.singles
  PROVE  Narrows(n)
BY DEF Narrows, Shrunk

\* A request goes on with the same registry.
LEMMA NextOfRequestSame ==
  ASSUME NEW c, c.memory \in MemoryType, NEW d \in NextOfRequest(c)
  PROVE  d.memory.whole = c.memory.whole /\ d.memory.singles = c.memory.singles
<1> DEFINE t == c.memory.task
<1>0. t \in TaskType
  BY DEF MemoryType
<1>1. CASE t.todo # {}
  <2>1. PICK h \in First(t.todo) :
          d = Calling(Course([c.memory EXCEPT !.task.todo = @ \ {h}], c.records), "cancel", h.id, h.about)
    BY <1>1 DEF NextOfRequest
  <2> DEFINE m == [c.memory EXCEPT !.task.todo = @ \ {h}]
             e == Course(m, c.records)
  <2>2. m \in MemoryType /\ m.whole = c.memory.whole /\ m.singles = c.memory.singles
    BY <1>0 DEF MemoryType, TaskType
  <2>3. e.memory = m
    BY DEF Course
  <2>4. h.id \in Nat /\ h.about \in SUBSET Symbols
    BY <1>0, FirstOf DEF TaskType, HandleType
  <2> HIDE DEF m
  <2>5. d = Calling(e, "cancel", h.id, h.about)
    BY <2>1 DEF m
  <2> HIDE DEF e
  <2>6. d.memory.whole = e.memory.whole /\ d.memory.singles = e.memory.singles
    BY <2>2, <2>3, <2>4, <2>5, CallingIs
  <2> QED
    BY <2>2, <2>3, <2>6
<1>2. CASE t.todo = {} /\ (t.failed \/ t.desired = {})
  <2>1. d.memory = Ended(c.memory)
    BY <1>2 DEF NextOfRequest, Course
  <2> QED
    BY <2>1, EndedTyped
<1>3. CASE t.todo = {} /\ ~(t.failed \/ t.desired = {})
  <2>1. d = Calling(c, "whole", 0, t.desired)
    BY <1>3 DEF NextOfRequest
  <2>2. t.desired \in SUBSET Symbols
    BY <1>0 DEF TaskType
  <2> QED
    BY <2>1, <2>2, CallingIs
<1> QED
  BY <1>1, <1>2, <1>3

\* The recovery ends with an empty registry, or the controller takes no requests.
LEMMA KnownEmpty ==
  ASSUME NEW c, NEW may, TypeInv, KeepsUp(c, may), c.memory.task.kind = "startup", c.memory.candidates = {}
  PROVE  Handles(c.memory) = {}
<1> DEFINE v == View(At(c).known)
<1>1. View(c.memory) = v
  BY DEF KeepsUp, Reads, Recovering
<1>2. Sound(v, may)
  BY AtTyped DEF KeepsUp, Idle, TypedCourse, Durable
<1> HIDE DEF v
<1>3. v.known = {} /\ Handles(v) = Handles(c.memory)
  BY <1>1 DEF View, HandlesOf, Handles
<1> QED
  BY <1>2, <1>3 DEF Sound

LEMMA RecoveredNarrows ==
  ASSUME NEW c, NEW may, TypeInv, KeepsUp(c, may), c.memory.task.kind = "startup"
  PROVE  Narrows(Recovered(c).memory)
<1> DEFINE d == Recovered(c)
           b == c.memory.candidates # {} \/ c.memory.unknown # 0
           m == [Ended(c.memory) EXCEPT !.required = b]
<1>0. c.memory \in MemoryType
  BY DEF KeepsUp, Idle, TypedCourse
<1>1. ASSUME NEW p \in Phases \ {"not_started"}, d = Course(Over(c.memory, p), c.records) PROVE Narrows(d.memory)
  <2>1. d.memory = Over(c.memory, p)
    BY <1>1 DEF Course
  <2>2. /\ d.memory.whole = c.memory.whole /\ d.memory.singles = c.memory.singles
        /\ ~d.memory.required => c.memory.candidates = {}
    BY <1>0, <1>1, <2>1, OverTyped
  <2> HIDE DEF d
  <2>3. ~d.memory.required => Handles(d.memory) = {}
    <3>1. Handles(d.memory) = Handles(c.memory)
      BY <2>2 DEF Handles
    <3> QED
      BY <2>2, <3>1, KnownEmpty
  <2> QED
    BY <2>3 DEF Narrows
<1>2. CASE d = Course(Unlocked(m), Append(c.records, Observation))
  <2>1. d.memory = Unlocked(m)
    BY <1>2 DEF Course
  <2>2. m \in MemoryType
    BY <1>0, EndedTyped DEF MemoryType
  <2> QED
    BY <2>1, <2>2, UnlockedEmpty DEF Narrows
<1>3. "completed" \in Phases \ {"not_started"} /\ "degraded" \in Phases \ {"not_started"}
  BY DEF Phases
<1>4. \/ d = Course(Over(c.memory, "completed"), c.records)
      \/ d = Course(Over(c.memory, "degraded"), c.records)
      \/ d = Course(Unlocked(m), Append(c.records, Observation))
  BY <1>0, RecoveredIs
<1> QED
  BY <1>1, <1>2, <1>3, <1>4

LEMMA NextCleanupNarrows ==
  ASSUME NEW c, NEW may, TypeInv, KeepsUp(c, may), c.memory.task.kind = "startup", NEW d \in NextCleanup(c)
  PROVE  Narrows(d.memory)
<1> DEFINE t == c.memory.task
<1>0. c.memory \in MemoryType /\ t \in TaskType
  BY DEF KeepsUp, Idle, TypedCourse, MemoryType
<1>1. CASE t.todo = {}
  BY <1>1, RecoveredNarrows DEF NextCleanup
<1>2. CASE t.todo # {}
  <2>1. PICK h \in First(t.todo) :
          d = Calling(Course([c.memory EXCEPT !.task.todo = @ \ {h}, !.candidates = Tried(@, {h.id})],
                             Append(c.records, Record("recovery_intent", 0, "none", h.id, h.about))),
                      "cancel", h.id, h.about)
    BY <1>2 DEF NextCleanup
  <2> DEFINE u == [t EXCEPT !.todo = t.todo \ {h}]
             cs == Tried(c.memory.candidates, {h.id})
             m == [c.memory EXCEPT !.task = u, !.candidates = cs]
             e == Course(m, Append(c.records, Record("recovery_intent", 0, "none", h.id, h.about)))
  <2>2. h.id \in Nat /\ h.about \in SUBSET Symbols
    BY <1>0, FirstOf DEF TaskType, HandleType
  <2>3. u \in TaskType /\ cs \in SUBSET CandidateType
    BY <1>0, TriedTyped DEF TaskType, MemoryType
  <2>4. [c.memory EXCEPT !.task.todo = @ \ {h}, !.candidates = Tried(@, {h.id})] = m
    BY <1>0 DEF MemoryType, TaskType
  <2> HIDE DEF u, cs
  <2>5. /\ m \in MemoryType /\ m.whole = c.memory.whole /\ m.singles = c.memory.singles
        /\ m.required = c.memory.required
    BY <1>0, <2>3 DEF MemoryType
  <2>6. d = Calling(e, "cancel", h.id, h.about)
    BY <2>1, <2>4
  <2> HIDE DEF m
  <2>7. e.memory = m
    BY DEF Course
  <2> HIDE DEF e
  <2>8. d.memory.whole = e.memory.whole /\ d.memory.singles = e.memory.singles /\ d.memory.required = e.memory.required
    BY <2>2, <2>5, <2>6, <2>7, CallingIs
  <2>9. ~d.memory.required => Handles(d.memory) = {}
    <3>1. ~d.memory.required => c.memory.candidates = {}
      BY <2>5, <2>7, <2>8 DEF KeepsUp, Reads
    <3>2. Handles(d.memory) = Handles(c.memory)
      BY <2>5, <2>7, <2>8 DEF Handles
    <3> QED
      BY <3>1, <3>2, KnownEmpty
  <2> QED
    BY <2>9 DEF Narrows
<1> QED
  BY <1>1, <1>2

\* The recovery begins in step with the journal.
LEMMA StartupKeepsUp ==
  ASSUME JournalInv, healthy, memory.phase = "not_started",
         NEW task \in TaskType, task.kind = "startup",
         NEW b, b = Course(Begun(memory, task, "running"), <<>>)
  PROVE  KeepsUp(b, Told) /\ b.memory.task.kind = "startup"
<1> DEFINE start == Begun(memory, task, "running")
<1>1. /\ TypeInv /\ InStep(Told) /\ memory \in MemoryType
  BY HealthyInStep, NumbersTyped DEF JournalInv
<1>2. memory.slot = NoSlot
  BY <1>1, ConstantsTyped DEF TypeInv, CallInv
<1>3. Idle(b)
  BY <1>1, <1>2, BegunIdle DEF Phases
<1>4. /\ start.task = task /\ start.required = memory.required /\ start.candidates = memory.candidates
      /\ start.whole = memory.whole /\ start.singles = memory.singles
  BY <1>1 DEF Begun, MemoryType
<1> HIDE DEF start
<1>5. b.memory = start /\ b.records = <<>>
  BY DEF Course, start
<1>6. Prefixed(b, Told) /\ At(b) = Base(journal)
  BY <1>1, <1>5, PrefixedNothing DEF InStep
<1>7. Reads(b.memory, At(b).known)
  <2>1. View(start) = View(memory)
    BY <1>4 DEF View
  <2>2. Reads(memory, Base(journal).known) /\ Recovering(memory)
    BY <1>1 DEF InStep, Recovering
  <2> QED
    BY <1>4, <1>5, <1>6, <2>1, <2>2 DEF Reads
<1> QED
  BY <1>3, <1>4, <1>5, <1>6, <1>7 DEF KeepsUp, TodoInv

\* A handle that is dropped.
LEMMA DroppedShrinks ==
  ASSUME NEW m \in MemoryType, NEW slot
  PROVE  Shrunk(m, Dropped(m, slot))
<1> DEFINE d == Dropped(m, slot)
           ss == [s \in Symbols |-> IF s \in slot.about THEN 0 ELSE m.singles[s]]
<1>1. CASE slot.about = {}
  <2>1. d = [m EXCEPT !.whole = NoWhole]
    BY <1>1 DEF Dropped
  <2>2. d.whole = NoWhole /\ d.singles = m.singles
    BY <2>1 DEF MemoryType
  <2> QED
    BY <2>2 DEF Shrunk
<1>2. CASE slot.about # {}
  <2>1. d = [m EXCEPT !.singles = ss]
    BY <1>2 DEF Dropped, MemoryType
  <2>2. \A s \in Symbols : ss[s] \in {m.singles[s], 0}
    OBVIOUS
  <2> HIDE DEF ss
  <2>3. d.whole = m.whole /\ d.singles = ss
    BY <2>1 DEF MemoryType
  <2> QED
    BY <2>2, <2>3 DEF Shrunk
<1> QED
  BY <1>1, <1>2

LEMMA CancelNarrows ==
  ASSUME NEW may, InStep(may), memory.slot # NoSlot, memory.task.kind # "startup",
         NEW says, NEW id, NEW c, c \in {CancelCourse(says, id), CancelLost}, c.memory \in MemoryType,
         NEW d \in NextOfRequest(c)
  PROVE  Narrows(d.memory)
<1> DEFINE m == Freed(memory)
           lost == [m EXCEPT !.task = [memory.task EXCEPT !.failed = TRUE]]
<1>0. memory \in MemoryType /\ ~memory.required /\ m \in MemoryType /\ m.whole = memory.whole /\ m.singles = memory.singles
  BY InStepRequest, FreedTyped
<1>1. c.memory \in {Dropped(m, memory.slot), lost}
  BY DEF CancelCourse, CancelLost, Course
<1>2. lost.whole = memory.whole /\ lost.singles = memory.singles
  BY <1>0 DEF MemoryType
<1> HIDE DEF lost, m
<1>3. Shrunk(memory, c.memory)
  <2>1. CASE c.memory = Dropped(m, memory.slot)
    <3>1. Shrunk(m, c.memory)
      BY <1>0, <2>1, DroppedShrinks
    <3> QED
      BY <1>0, <3>1 DEF Shrunk
  <2>2. CASE c.memory = lost
    BY <1>2, <2>2 DEF Shrunk
  <2> QED
    BY <1>1, <2>1, <2>2
<1>4. d.memory.whole = c.memory.whole /\ d.memory.singles = c.memory.singles
  BY NextOfRequestSame
<1> QED
  BY <1>0, <1>3, <1>4 DEF Narrows, Shrunk

LEMMA FailedNarrows ==
  ASSUME NEW may, InStep(may), memory.slot # NoSlot, memory.task.kind # "startup",
         NEW c, c.memory = Ended(Freed(memory))
  PROVE  Narrows(c.memory)
<1>1. memory \in MemoryType /\ ~memory.required
  BY InStepRequest
<1>2. c.memory.whole = memory.whole /\ c.memory.singles = memory.singles
  <2> DEFINE f == Freed(memory)
  <2>1. f \in MemoryType /\ f.whole = memory.whole /\ f.singles = memory.singles /\ c.memory = Ended(f)
    BY <1>1, FreedTyped
  <2> HIDE DEF f
  <2> QED
    BY <2>1, EndedTyped
<1> QED
  BY <1>1, <1>2, SameNarrows

\* Every answer that grants nothing, and none, leaves no more in the registry.
LEMMA AnswersNarrow ==
  ASSUME NEW may, InStep(may), memory.slot # NoSlot, NEW says \in Says \ {"id"}, NEW id \in Nat,
         NEW c \in Answers(says, id)
  PROVE  Narrows(c.memory)
<1>0. memory \in MemoryType /\ TypeInv /\ Acceptable(says, id, may)
  BY NumbersTyped DEF InStep, Acceptable
<1>1. CASE memory.task.kind = "startup"
  <2> DEFINE e == Cleaned(Freed(memory), memory.slot, Confirms(says))
             d == Course(e.memory, <<ResultOf(memory.slot, says, id)>> \o e.records)
  <2>1. c \in NextCleanup(d) \cup {Recovered(d)}
    BY <1>1 DEF Answers, ResultOf, Freed
  <2>2. KeepsUp(d, may) /\ d.memory.task.kind = "startup"
    BY <1>0, <1>1, CleanedKeepsUp
  <2> HIDE DEF d
  <2> QED
    BY <1>0, <2>1, <2>2, NextCleanupNarrows, RecoveredNarrows
<1>2. CASE memory.task.kind # "startup" /\ memory.slot.method = "cancel"
  <2> DEFINE d == CancelCourse(says, id)
  <2>1. c \in NextOfRequest(d)
    BY <1>0, <1>2, CancelGoesOn
  <2>2. KeepsUp(d, may)
    BY <1>0, <1>2, CancelKeepsUp
  <2>3. d.memory \in MemoryType
    BY <2>2 DEF KeepsUp, Idle, TypedCourse
  <2> HIDE DEF d
  <2>4. d \in {CancelCourse(says, id), CancelLost}
    BY DEF d
  <2> QED
    BY <1>2, <2>1, <2>3, <2>4, CancelNarrows
<1>3. CASE memory.task.kind # "startup" /\ memory.slot.method # "cancel"
  <2>1. c.memory = Ended(Freed(memory))
    BY <1>3 DEF Answers, Freed, Course
  <2> QED
    BY <1>3, <2>1, FailedNarrows
<1> QED
  BY <1>1, <1>2, <1>3

LEMMA TimeoutsNarrow ==
  ASSUME NEW may, InStep(may), memory.slot # NoSlot, NEW c \in Timeouts
  PROVE  Narrows(c.memory)
<1>0. memory \in MemoryType /\ TypeInv
  BY NumbersTyped DEF InStep
<1>1. CASE memory.task.kind = "startup"
  <2> DEFINE d == Cleaned(Freed(memory), memory.slot, FALSE)
  <2>1. c \in NextCleanup(d) \cup {Recovered(d)}
    BY <1>1 DEF Timeouts, Freed
  <2>2. KeepsUp(d, may) /\ d.memory.task.kind = "startup"
    BY <1>1, UncleanedKeepsUp
  <2> HIDE DEF d
  <2> QED
    BY <1>0, <2>1, <2>2, NextCleanupNarrows, RecoveredNarrows
<1>2. CASE memory.task.kind # "startup" /\ memory.slot.method = "cancel"
  <2>1. c \in NextOfRequest(CancelLost)
    BY <1>0, <1>2, LostGoesOn
  <2>2. KeepsUp(CancelLost, may)
    BY <1>2, LostKeepsUp
  <2>3. CancelLost.memory \in MemoryType
    BY <2>2 DEF KeepsUp, Idle, TypedCourse
  <2> QED
    BY <1>2, <2>1, <2>3, CancelNarrows
<1>3. CASE memory.task.kind # "startup" /\ memory.slot.method # "cancel"
  <2>1. c.memory = Ended(Freed(memory))
    BY <1>3 DEF Timeouts, Freed, Course
  <2> QED
    BY <1>3, <2>1, FailedNarrows
<1> QED
  BY <1>1, <1>2, <1>3

\* A new subscription has no symbol of another one.
LEMMA GrantedSymbols ==
  ASSUME OwnInv, SymbolInv, healthy, memory.slot # NoSlot, ~memory.required, memory.slot.method \in {"whole", "single"},
         NEW id \in Nat \ {0}, id \notin Told,
         healthy' => memory' = Ended(Registered(Freed(memory), memory.slot, id)),
         \A h \in Held' : h \in Held \/ (h.id = id /\ h.about = memory.slot.about)
  PROVE  SymbolInv'
<1> DEFINE slot == memory.slot
           f == Freed(memory)
           n == Registered(f, slot, id)
           about == slot.about
<1>0. /\ InStep(Told) /\ Holding(Ids(Held)) /\ memory \in MemoryType /\ slot \in SlotType
      /\ memory.singles \in [Symbols -> Nat] /\ memory.whole \in WholeType
  BY OwnHolding, NumbersTyped DEF MemoryType
<1>1. /\ Ids(Held) \subseteq Ids(Handles(memory))
      /\ slot.method = "whole" => Handles(memory) = {}
      /\ slot.method = "single" => \A s \in about : ~HasSymbol(memory, s)
      /\ slot.method = "single" => \E x \in Symbols : about = {x}
  <2>1. Finds(Base(journal), Ids(Held)) /\ Known(Base(journal)) \subseteq Handles(memory)
    BY <1>0 DEF Holding, Owns
  <2> QED
    BY <1>0, <2>1 DEF Holding, CallsFor, InStep, SlotInv, Finds, Ids
<1>2. Ids(Handles(memory)) \subseteq Told
  <2> DEFINE v == View(Base(journal).known)
  <2>1. Ids(v.known) \subseteq Told /\ Handles(v) \subseteq v.known
    BY <1>0 DEF InStep, Durable, Sound
  <2>2. Handles(v) = Handles(memory)
    <3>1. memory.whole = v.whole /\ memory.singles = v.singles
      BY <1>0 DEF InStep, Reads, View
    <3> HIDE DEF v
    <3> QED
      BY <3>1 DEF Handles
  <2> HIDE DEF v
  <2> QED
    BY <2>1, <2>2 DEF Ids
<1>3. \A h \in Held : h.id \in Told /\ h.id # id /\ h.id # 0
  <2>1. \A h \in Held : h.id \in Told
    BY DEF OwnInv, IdInv, Held
  <2>2. 0 \notin Told
    BY DEF Told
  <2> QED
    BY <2>1, <2>2
<1>4. Alike(memory, Held) /\ HeldApart
  BY DEF SymbolInv
\* Where a held subscription is in the registry.
<1>5. ASSUME NEW h \in Held
      PROVE  /\ slot.method = "single"
             /\ \/ h.about \subseteq memory.whole.symbols
                \/ \E s \in Symbols : memory.singles[s] # 0 /\ h.about \subseteq {s}
  <2>1. PICK k \in Handles(memory) : k.id = h.id
    BY <1>1, <1>5 DEF Ids
  <2>2. \/ k = Handle(memory.whole.id, {})
        \/ \E s \in Symbols : memory.singles[s] # 0 /\ k = Handle(memory.singles[s], {s})
    BY <2>1, InHandles
  <2>3. CASE k = Handle(memory.whole.id, {})
    <3>1. h.id = memory.whole.id
      BY <2>1, <2>3, HandleParts
    <3> QED
      BY <1>1, <1>4, <1>5, <2>1, <3>1 DEF Alike
  <2>4. ASSUME NEW s \in Symbols, memory.singles[s] # 0, k = Handle(memory.singles[s], {s})
        PROVE  memory.singles[s] # 0 /\ h.about \subseteq {s}
    <3>1. h.id = memory.singles[s]
      BY <2>1, <2>4, HandleParts
    <3> QED
      BY <1>4, <1>5, <2>4, <3>1 DEF Alike
  <2>5. slot.method = "single"
    BY <1>1, <2>1
  <2> QED
    BY <2>2, <2>3, <2>4, <2>5
<1>6. ASSUME NEW h \in Held PROVE h.about \cap about = {}
  <2>1. PICK x \in Symbols : about = {x} /\ x \notin memory.whole.symbols /\ memory.singles[x] = 0
    BY <1>1, <1>5, <1>6 DEF HasSymbol
  <2>2. x \notin h.about
    <3>1. CASE h.about \subseteq memory.whole.symbols
      BY <2>1, <3>1
    <3>2. CASE \E s \in Symbols : memory.singles[s] # 0 /\ h.about \subseteq {s}
      BY <2>1, <3>2
    <3> QED
      BY <1>5, <1>6, <3>1, <3>2
  <2> QED
    BY <2>1, <2>2
<1>7. HeldApart'
  <2> SUFFICES ASSUME NEW h \in Held', NEW k \in Held', h.id # k.id PROVE h.about \cap k.about = {}
    BY DEF HeldApart
  <2>1. CASE h \in Held /\ k \in Held
    BY <1>4, <2>1 DEF HeldApart
  <2>2. CASE h \in Held /\ k.about = about
    BY <1>6, <2>2
  <2>3. CASE k \in Held /\ h.about = about
    <3>1. k.about \cap h.about = {}
      BY <1>6, <2>3
    <3> QED
      BY <3>1
  <2> QED
    BY <2>1, <2>2, <2>3
<1>8. ASSUME healthy' PROVE Alike(memory', Held')
  <2>1. f \in MemoryType /\ f.whole = memory.whole /\ f.singles = memory.singles
    BY <1>0, FreedTyped
  <2> HIDE DEF f
  <2>2. CASE slot.method = "whole"
    <3> DEFINE w == [id |-> id, symbols |-> about]
    <3>1. n = [f EXCEPT !.whole = w] /\ w \in WholeType /\ w.symbols = about
      BY <1>0, <2>2 DEF Registered, WholeType, SlotType
    <3> HIDE DEF w
    <3>2. n \in MemoryType /\ n.whole = w /\ n.singles = f.singles
      BY <2>1, <3>1 DEF MemoryType
    <3>3. memory'.whole = w /\ memory'.singles = memory.singles
      <4>1. memory' = Ended(n)
        BY <1>8 DEF f
      <4> HIDE DEF n
      <4> QED
        BY <2>1, <3>2, <4>1, EndedTyped
    <3>4. \A s \in Symbols : memory.singles[s] = 0
      BY <1>1, <2>2, InHandles
    <3>5. \A h \in Held' : h.id = id /\ h.about = about
      BY <1>5, <2>2
    <3> QED
      BY <3>1, <3>3, <3>4, <3>5 DEF Alike
  <2>3. CASE slot.method = "single"
    <3>0. PICK x \in Symbols : about = {x}
      BY <1>1, <2>3
    <3> DEFINE ss == [s \in Symbols |-> IF s \in about THEN id ELSE f.singles[s]]
    <3>1. n = [f EXCEPT !.singles = ss] /\ ss \in [Symbols -> Nat]
      BY <1>0, <2>1, <2>3 DEF Registered, MemoryType
    <3>2. ss[x] = id /\ \A s \in Symbols : s # x => ss[s] = memory.singles[s]
      BY <2>1, <3>0
    <3> HIDE DEF ss
    <3>3. n \in MemoryType /\ n.whole = f.whole /\ n.singles = ss
      BY <2>1, <3>1 DEF MemoryType
    <3>4. memory'.whole = memory.whole /\ memory'.singles = ss
      <4>1. memory' = Ended(n)
        BY <1>8 DEF f
      <4> HIDE DEF n
      <4> QED
        BY <2>1, <3>3, <4>1, EndedTyped
    <3>5. /\ memory.whole.id # id
          /\ \A s \in Symbols : memory.singles[s] # id
      <4>1. ASSUME memory.whole.id = id PROVE FALSE
        <5>1. memory.whole # NoWhole
          BY <4>1 DEF NoWhole
        <5>2. Handle(id, {}) \in Handles(memory)
          BY <4>1, <5>1, InHandles
        <5> QED
          BY <1>2, <5>2, HandleParts DEF Ids
      <4>2. ASSUME NEW s \in Symbols, memory.singles[s] = id PROVE FALSE
        <5>1. Handle(id, {s}) \in Handles(memory)
          BY <4>2, InHandles
        <5> QED
          BY <1>2, <5>1, HandleParts DEF Ids
      <4> QED
        BY <4>1, <4>2
    <3>6. ASSUME NEW h \in Held'
          PROVE  /\ h.id = memory'.whole.id => h.about \subseteq memory'.whole.symbols
                 /\ \A s \in Symbols : memory'.singles[s] = h.id => h.about \subseteq {s}
      <4>1. CASE h \in Held
        <5>1. h.id # id
          BY <1>3, <4>1
        <5>2. \A s \in Symbols : ss[s] = h.id => memory.singles[s] = h.id
          BY <3>2, <5>1
        <5> QED
          BY <1>4, <3>4, <4>1, <5>2 DEF Alike
      <4>2. CASE h.id = id /\ h.about = about
        BY <3>0, <3>2, <3>4, <3>5, <4>2
      <4> QED
        BY <4>1, <4>2
    <3> QED
      BY <3>6 DEF Alike
  <2> QED
    BY <2>2, <2>3
<1> QED
  BY <1>7, <1>8 DEF SymbolInv

LEMMA PostSymbols ==
  ASSUME OwnInv, SymbolInv, OwnInv', NEW reply \in ReplyType,
         reply.says = "id" => /\ reply.id \notin Told /\ reply.id # 0 /\ reply.call.method # "cancel"
                              /\ \A h \in live' : h.id = reply.id => h.about = reply.call.about,
         reply.call # NoCommand, CallKnown(reply.call, reply.lease),
         NEW breaks \in BOOLEAN, PostResult(reply, breaks),
         \A h \in live' : h.id \in granted => h \in Held
  PROVE  SymbolInv'
<1>0. JournalInv /\ TypeInv
  BY DEF OwnInv, JournalInv
<1>1. reply.says \in Says /\ reply.id \in Nat
  BY DEF ReplyType
<1>2. CASE Accepts(reply)
  <2> DEFINE told == IF reply.says = "id" THEN granted \cup {reply.id} ELSE granted
  <2>1. PICK c \in Answers(reply.says, reply.id) : Takes(c, told, breaks)
    BY <1>2 DEF PostResult
  <2>2. memory.slot # NoSlot /\ memory.slot.seq = reply.call.seq /\ reply.lease = boot
    BY <1>2, ConstantsTyped DEF Accepts
  <2>3. Answering(reply.call)
    BY <2>2 DEF CallKnown
  <2>4. healthy
    BY <1>0, <2>2 DEF JournalInv, HealthyInv
  <2>5. InStep(Told)
    BY <1>0, <2>4, HealthyInStep
  <2>6. granted' \subseteq told /\ (healthy' => memory' = c.memory /\ healthy)
    BY <2>1, TakesMemory
  <2>7. CASE reply.says # "id"
    <3>1. Narrows(c.memory)
      BY <1>1, <2>1, <2>2, <2>5, <2>7, AnswersNarrow
    <3>2. Held' \subseteq Held
      BY <2>6, <2>7 DEF Held
    <3> QED
      BY <2>6, <3>1, <3>2, NoneMore DEF Narrows
  <2>8. CASE reply.says = "id"
    <3>1. memory.slot.method # "cancel" /\ memory.task.kind # "startup"
      BY <2>2, <2>3, <2>5, <2>8 DEF Answering, InStep, SlotInv
    <3>2. ~memory.required /\ memory.slot.method \in {"whole", "single"}
      BY <2>2, <2>5, <3>1, InStepRequest
    <3>3. c.memory = Ended(Registered(Freed(memory), memory.slot, reply.id))
      BY <2>1, <2>8, <3>1 DEF Answers, Freed, Course
    <3>4. \A h \in Held' : h \in Held \/ (h.id = reply.id /\ h.about = memory.slot.about)
      BY <2>3, <2>6, <2>8 DEF Held, Answering
    <3>5. reply.id \in Nat \ {0} /\ reply.id \notin Told
      BY <1>1, <2>8
    <3>6. healthy' => memory' = Ended(Registered(Freed(memory), memory.slot, reply.id))
      BY <2>6, <3>3
    <3> QED
      BY <2>2, <2>4, <3>2, <3>4, <3>5, <3>6, GrantedSymbols
  <2> QED
    BY <2>7, <2>8
<1>3. CASE ~Accepts(reply)
  <2>1. memory' = memory /\ healthy' = healthy /\ granted' = granted
    BY <1>3 DEF PostResult, journalVars
  <2>2. Held' \subseteq Held
    BY <2>1 DEF Held
  <2>3. Shrunk(memory, memory')
    BY <2>1 DEF Shrunk
  <2> QED
    BY <2>1, <2>2, <2>3, NoneMore
<1> QED
  BY <1>2, <1>3

LEMMA ControlSymbols ==
  ASSUME OwnInv, SymbolInv, OwnInv', NEW courses, Requests(courses),
         \A c \in courses : c.memory.whole = memory.whole /\ c.memory.singles = memory.singles
  PROVE  SymbolInv'
<1>1. PICK c \in courses, breaks \in BOOLEAN : Takes(c, granted, breaks)
  BY DEF Requests
<1>2. ~memory.required /\ UNCHANGED terminalVars
  BY DEF Requests, MayControl
<1>3. Narrows(c.memory)
  BY <1>2, SameNarrows
<1> QED
  BY <1>1, <1>2, <1>3, TakesNarrow

LEMMA TaskedSame ==
  ASSUME memory \in MemoryType, NEW kind \in {"subscribe", "unsubscribe", "sync"},
         NEW todo \in SUBSET HandleType, NEW desired \in SUBSET Symbols,
         NEW c, c = Course([memory EXCEPT !.task = Task(kind, todo, desired)], <<>>)
  PROVE  c.memory \in MemoryType /\ c.memory.whole = memory.whole /\ c.memory.singles = memory.singles
<1> DEFINE t == Task(kind, todo, desired)
<1>1. t \in TaskType
  BY DEF Task, TaskType
<1> HIDE DEF t
<1>2. c.memory = [memory EXCEPT !.task = t]
  BY DEF Course, t
<1> QED
  BY <1>1, <1>2 DEF MemoryType

LEMMA SubscribeSymbols ==
  ASSUME OwnInv, SymbolInv, OwnInv', NEW s \in Symbols, Subscribe(s)
  PROVE  SymbolInv'
<1> DEFINE c == Course([memory EXCEPT !.task = Task("subscribe", {}, {})], <<>>)
           d == Calling(c, "single", 0, {s})
<1>0. memory \in MemoryType
  BY NumbersTyped DEF OwnInv, JournalInv
<1>1. Requests({d})
  BY DEF Subscribe
<1>2. c.memory \in MemoryType /\ c.memory.whole = memory.whole /\ c.memory.singles = memory.singles
  <2>1. {} \in SUBSET HandleType /\ {} \in SUBSET Symbols
    OBVIOUS
  <2> QED
    BY <1>0, <2>1, TaskedSame
<1> HIDE DEF c
<1>3. d.memory.whole = memory.whole /\ d.memory.singles = memory.singles
  <2>1. {s} \in SUBSET Symbols /\ 0 \in Nat
    OBVIOUS
  <2> QED
    BY <1>2, <2>1, CallingIs
<1> QED
  BY <1>1, <1>3, ControlSymbols

LEMMA UnsubscribeSymbols ==
  ASSUME OwnInv, SymbolInv, OwnInv', NEW s \in Symbols, Unsubscribe(s)
  PROVE  SymbolInv'
<1> DEFINE todo == {Handle(memory.singles[s], {s})}
           c == Course([memory EXCEPT !.task = Task("unsubscribe", todo, {})], <<>>)
<1>0. memory \in MemoryType
  BY NumbersTyped DEF OwnInv, JournalInv
<1>1. Requests(NextOfRequest(c))
  BY DEF Unsubscribe
<1>2. todo \in SUBSET HandleType
  BY <1>0 DEF MemoryType, Handle, HandleType
<1> HIDE DEF todo
<1>3. c.memory \in MemoryType /\ c.memory.whole = memory.whole /\ c.memory.singles = memory.singles
  <2>1. {} \in SUBSET Symbols
    OBVIOUS
  <2> QED
    BY <1>0, <1>2, <2>1, TaskedSame
<1> HIDE DEF c
<1>4. \A d \in NextOfRequest(c) : d.memory.whole = memory.whole /\ d.memory.singles = memory.singles
  BY <1>3, NextOfRequestSame
<1> QED
  BY <1>1, <1>4, ControlSymbols

LEMMA SyncSymbols ==
  ASSUME OwnInv, SymbolInv, OwnInv', NEW desired \in SUBSET Symbols, Sync(desired)
  PROVE  SymbolInv'
<1> DEFINE todo == Handles(memory)
           c == Course([memory EXCEPT !.task = Task("sync", todo, desired)], <<>>)
<1>0. memory \in MemoryType
  BY NumbersTyped DEF OwnInv, JournalInv
<1>1. Requests(NextOfRequest(c))
  BY DEF Sync
<1>2. todo \in SUBSET HandleType
  BY <1>0, HandlesTyped
<1> HIDE DEF todo
<1>3. c.memory \in MemoryType /\ c.memory.whole = memory.whole /\ c.memory.singles = memory.singles
  BY <1>0, <1>2, TaskedSame
<1> HIDE DEF c
<1>4. \A d \in NextOfRequest(c) : d.memory.whole = memory.whole /\ d.memory.singles = memory.singles
  BY <1>3, NextOfRequestSame
<1> QED
  BY <1>1, <1>4, ControlSymbols

LEMMA TimesOutSymbols ==
  ASSUME OwnInv, SymbolInv, OwnInv', CallTimesOut
  PROVE  SymbolInv'
<1>1. PICK c \in Timeouts, breaks \in BOOLEAN : Takes(c, granted, breaks)
  BY DEF CallTimesOut
<1>2. memory.slot # NoSlot /\ healthy /\ UNCHANGED terminalVars
  BY DEF CallTimesOut, OwnInv, JournalInv, HealthyInv
<1>3. InStep(Told)
  BY <1>2, OwnHolding
<1>4. Narrows(c.memory)
  BY <1>2, <1>3, TimeoutsNarrow
<1> QED
  BY <1>1, <1>2, <1>4, TakesNarrow

LEMMA RegisterSymbols ==
  ASSUME OwnInv, SymbolInv, OwnInv', RegisterBridge
  PROVE  SymbolInv'
<1>0. memory \in MemoryType
  BY NumbersTyped DEF OwnInv, JournalInv
<1>1. live' = live
  BY DEF RegisterBridge, terminalVars
<1>2. CASE UNCHANGED <<memory, journalVars, granted>>
  <2>1. memory' = memory /\ healthy' = healthy /\ Held' \subseteq Held
    BY <1>1, <1>2 DEF Held, journalVars
  <2>2. Shrunk(memory, memory')
    BY <2>1 DEF Shrunk
  <2> QED
    BY <2>1, <2>2, NoneMore
<1>3. CASE Written(Course(Unlocked(memory), <<Observation>>), granted)
  <2>1. memory' = Unlocked(memory) /\ granted' \subseteq granted
    BY <1>3 DEF Written, Course
  <2>2. Held' \subseteq Held /\ Handles(memory') = {}
    BY <1>0, <1>1, <2>1, UnlockedEmpty DEF Held
  <2> QED
    BY <2>2, NoneMore
<1>4. CASE Broken(Course(memory, <<Observation>>), granted)
  <2>1. ~healthy' /\ granted' \subseteq granted
    BY <1>4 DEF Broken
  <2>2. Held' \subseteq Held
    BY <1>1, <2>1 DEF Held
  <2> QED
    BY <2>1, <2>2, NoneMore
<1> QED
  BY <1>2, <1>3, <1>4 DEF RegisterBridge

LEMMA ExecutesSymbols ==
  ASSUME OwnInv, SymbolInv, OwnInv', BridgeExecutes
  PROVE  SymbolInv'
<1> DEFINE command == bridge.command
<1>1. PICK does \in BOOLEAN, delayed \in BOOLEAN, breaks \in BOOLEAN,
           says \in {"id", "true", "false", "other", "failure"} :
        LET reply == Reply(command, says, IF says = "id" THEN nextId ELSE 0, bridge.lease)
        IN  /\ Possible(command, does, says)
            /\ Executes(command, does)
            /\ IF delayed
               THEN late' = reply /\ ~breaks /\ UNCHANGED <<memory, journalVars, granted>>
               ELSE PostResult(reply, breaks) /\ UNCHANGED late
  BY DEF BridgeExecutes
<1> DEFINE reply == Reply(command, says, IF says = "id" THEN nextId ELSE 0, bridge.lease)
<1>0. TypeInv /\ IdInv
  BY DEF OwnInv, JournalInv
<1>2. /\ nextId \in Nat \ {0} /\ bridge.lease \in Nat /\ command \in CommandType /\ live \subseteq HandleType
  BY <1>0 DEF TypeInv, StateTypeOK
<1>3. /\ reply \in ReplyType /\ reply.says = says /\ reply.id = IF says = "id" THEN nextId ELSE 0
      /\ reply.call = command /\ reply.lease = bridge.lease
  BY <1>2 DEF Reply, ReplyType, Says
<1>4. command # NoCommand /\ CallKnown(command, bridge.lease) /\ command.id < nextId
  BY <1>0 DEF BridgeExecutes, TypeInv, CallInv, IdInv
<1>5. \/ UNCHANGED <<memory, journalVars, granted>>
      \/ PostResult(reply, breaks)
  BY <1>1
<1>6. Possible(command, does, says) /\ Executes(command, does)
  BY <1>1
<1> HIDE DEF reply, command
<1>7. /\ \A h \in live' : h \in live \/ (h = Handle(nextId, command.about) /\ nextId' = nextId + 1)
      /\ says = "id" => command.method # "cancel"
  BY <1>0, <1>2, <1>4, <1>6, ExecutesIds
<1>8. /\ \A h \in live : h.id \in 1..nextId - 1
      /\ \A i \in granted \cup Told : i \in 1..nextId - 1
      /\ Handle(nextId, command.about).id = nextId /\ Handle(nextId, command.about).about = command.about
  BY <1>0 DEF IdInv, Ids, Handle, Told
<1>9. \A h \in live' : h.id \in granted => h \in Held
  BY <1>2, <1>7, <1>8 DEF Held
<1>10. CASE UNCHANGED <<memory, journalVars, granted>>
  <2>1. memory' = memory /\ healthy' = healthy /\ Held' \subseteq Held
    BY <1>9, <1>10 DEF Held, journalVars
  <2>2. Shrunk(memory, memory')
    BY <2>1 DEF Shrunk
  <2> QED
    BY <2>1, <2>2, NoneMore
<1>11. CASE PostResult(reply, breaks)
  <2>1. nextId \notin Told /\ nextId # 0
    BY <1>2, <1>8
  <2>2. \A h \in live' : h.id = nextId => h.about = command.about
    BY <1>2, <1>7, <1>8
  <2> QED
    BY <1>3, <1>4, <1>7, <1>9, <1>11, <2>1, <2>2, PostSymbols
<1> QED
  BY <1>5, <1>10, <1>11

LEMMA LateReplySymbols ==
  ASSUME OwnInv, SymbolInv, OwnInv', LateReply
  PROVE  SymbolInv'
<1>0. JournalInv /\ TypeInv /\ IdInv /\ LateInv
  BY DEF OwnInv, JournalInv
<1>1. PICK breaks \in BOOLEAN : PostResult(late, breaks)
  BY DEF LateReply
<1>2. late \in ReplyType /\ live' = live /\ nextId \in Nat \ {0}
  BY <1>0 DEF LateReply, terminalVars, TypeInv, StateTypeOK
<1>3. late.call # NoCommand /\ CallKnown(late.call, late.lease)
  BY <1>0 DEF LateReply, TypeInv, CallInv
<1>4. late.says = "id" => /\ late.id \notin Told /\ late.id # 0 /\ late.call.method # "cancel"
                          /\ \A h \in live' : h.id = late.id => h.about = late.call.about
  BY <1>0, <1>2 DEF IdInv, LateInv, Told
<1>5. \A h \in live' : h.id \in granted => h \in Held
  BY <1>2 DEF Held
<1> QED
  BY <1>1, <1>2, <1>3, <1>4, <1>5, PostSymbols

\* The recovery begins.
LEMMA ReconcileSymbols ==
  ASSUME OwnInv, SymbolInv, OwnInv', ReconcileStartup
  PROVE  SymbolInv'
<1> DEFINE todo == {Handle(c.id, c.about) : c \in {x \in memory.candidates : ~x.tried}}
           task == Task("startup", todo, {})
           start == [memory EXCEPT !.phase = "running", !.task = task]
           b == Course(start, <<>>)
<1>0. JournalInv
  BY DEF OwnInv
<1>1. memory.phase = "not_started" /\ memory \in MemoryType /\ TypeInv
  BY <1>0, NumbersTyped DEF ReconcileStartup, JournalInv
<1>2. PICK c \in NextCleanup(b), breaks \in BOOLEAN : Takes(c, granted, breaks)
  BY DEF ReconcileStartup
<1>3. UNCHANGED terminalVars
  BY DEF ReconcileStartup
<1>4. CASE healthy
  <2>1. todo = Untried(memory.candidates) /\ todo \in SUBSET HandleType
    BY <1>1 DEF Untried, HandlesOf, MemoryType, CandidateType, Handle, HandleType
  <2> HIDE DEF todo
  <2>2. task \in TaskType /\ task.kind = "startup"
    BY <2>1 DEF Task, TaskType
  <2> HIDE DEF task
  <2>3. start = Begun(memory, task, "running")
    BY <1>1 DEF Begun, MemoryType
  <2> HIDE DEF start
  <2>4. KeepsUp(b, Told) /\ b.memory.task.kind = "startup"
    BY <1>0, <1>1, <1>4, <2>2, <2>3, StartupKeepsUp
  <2> HIDE DEF b
  <2>5. Narrows(c.memory)
    BY <1>1, <1>2, <2>4, NextCleanupNarrows
  <2> QED
    BY <1>2, <1>3, <2>5, TakesNarrow
<1>5. CASE ~healthy
  <2> HIDE DEF b
  <2>1. ~healthy' /\ granted' \subseteq granted /\ live' = live
    BY <1>2, <1>3, <1>5, TakesMemory DEF terminalVars
  <2>2. Held' \subseteq Held
    BY <2>1 DEF Held
  <2> QED
    BY <2>1, <2>2, NoneMore
<1> QED
  BY <1>4, <1>5

LEMMA DatasourceSymbols ==
  ASSUME OwnInv, SymbolInv, OwnInv', DatasourceRestart
  PROVE  SymbolInv'
<1> DEFINE k == IF intact THEN Replay(journal) ELSE Unknown(Forgotten)
           m == Restored(k)
<1>0. TypeInv /\ k \in KnownType
  <2>1. TypeInv
    BY DEF OwnInv, JournalInv
  <2> QED
    BY <2>1, ForgottenTyped, ReplayViewed
<1>1. /\ memory' = m \/ memory' = Unlocked(m)
      /\ granted' \subseteq granted /\ live' = live
  BY DEF DatasourceRestart, terminalVars
<1> HIDE DEF k
<1>2. /\ m \in MemoryType /\ m.phase = "not_started" /\ m.task = NoTask
      /\ m.candidates = k.candidates /\ (~m.required => m.candidates = {})
  BY <1>0, RestoredTyped
<1> HIDE DEF m
<1>3. Held' \subseteq Held
  BY <1>1 DEF Held
<1>4. ASSUME healthy', ~memory'.required PROVE Handles(memory') = {}
  <2>1. CASE memory' = m
    <3> DEFINE v == View(Base(journal').known)
    <3>1. InStep(Told)'
      <4>1. JournalInv' /\ TypeInv' /\ intact'
        BY <1>4 DEF OwnInv, JournalInv, TypeInv, StateTypeOK
      <4> QED
        BY <1>4, <4>1 DEF JournalInv, DurableInv, HealthyInv, InStep
    <3>2. View(memory') = v /\ Sound(v, Told')
      BY <1>2, <2>1, <3>1 DEF InStep, Reads, Recovering, Durable
    <3> HIDE DEF v
    <3>3. v.known = {} /\ Handles(v) = Handles(memory')
      BY <1>2, <1>4, <2>1, <3>2 DEF View, HandlesOf, Handles
    <3> QED
      BY <3>2, <3>3 DEF Sound
  <2>2. CASE memory' = Unlocked(m)
    BY <1>2, <2>2, UnlockedEmpty
  <2> QED
    BY <1>1, <2>1, <2>2
<1> QED
  BY <1>3, <1>4, NoneMore

LEMMA SymbolInvInit == Init => SymbolInv
<1> SUFFICES ASSUME Init PROVE SymbolInv
  OBVIOUS
<1>1. Held = {}
  BY DEF Init, Held
<1> QED
  BY <1>1 DEF SymbolInv, HeldApart, Alike

LEMMA SymbolInvNext ==
  ASSUME OwnInv, SymbolInv, OwnInv', [Next]_vars
  PROVE  SymbolInv'
<1>1. ASSUME memory'.whole = memory.whole, memory'.singles = memory.singles, memory'.required = memory.required,
             healthy' = healthy, Held' \subseteq Held
      PROVE  SymbolInv'
  <2>1. Shrunk(memory, memory')
    BY <1>1 DEF Shrunk
  <2> QED
    BY <1>1, <2>1, NoneMore
<1>2. CASE UNCHANGED vars
  <2>1. memory' = memory /\ healthy' = healthy /\ live' = live /\ granted' = granted
    BY <1>2 DEF vars, journalVars, terminalVars
  <2>2. Held' \subseteq Held
    BY <2>1 DEF Held
  <2> QED
    BY <1>1, <2>1, <2>2
<1>3. CASE PollCommand
  <2>1. memory \in MemoryType
    BY NumbersTyped DEF OwnInv, JournalInv
  <2>2. /\ memory'.whole = memory.whole /\ memory'.singles = memory.singles /\ memory'.required = memory.required
        /\ healthy' = healthy /\ live' = live /\ granted' = granted
    BY <1>3, <2>1 DEF PollCommand, journalVars, terminalVars, MemoryType
  <2>3. Held' \subseteq Held
    BY <2>2 DEF Held
  <2> QED
    BY <1>1, <2>2, <2>3
<1>4. CASE TerminalRestart
  <2>1. memory' = memory /\ healthy' = healthy /\ live' = {}
    BY <1>4 DEF TerminalRestart, journalVars
  <2>2. Held' \subseteq Held
    BY <2>1 DEF Held
  <2> QED
    BY <1>1, <2>1, <2>2
<1>5. CASE Next /\ ~PollCommand /\ ~TerminalRestart
  BY <1>5, SubscribeSymbols, UnsubscribeSymbols, SyncSymbols, ReconcileSymbols, TimesOutSymbols, RegisterSymbols,
     ExecutesSymbols, LateReplySymbols, DatasourceSymbols DEF Next
<1> QED
  BY <1>2, <1>3, <1>4, <1>5

\* No symbol is in two subscriptions the controller was told of, if a new
\* terminal does not give out the ids of the last one again; one that an
\* automatic unlock has written off while it lived does not count
\* (contains_symbol, _sync).
THEOREM SymbolsAreApart == ~IdsRestart => (Spec => []NoSymbolTwice)
<1> SUFFICES ASSUME ~IdsRestart PROVE Spec => []NoSymbolTwice
  OBVIOUS
<1>1. Init => OwnInv /\ SymbolInv
  BY OwnInvInit, SymbolInvInit
<1>2. (OwnInv /\ SymbolInv) /\ [Next]_vars => (OwnInv /\ SymbolInv)'
  BY OwnInvNext, SymbolInvNext
<1>3. OwnInv /\ SymbolInv => NoSymbolTwice
  BY DEF SymbolInv, HeldApart, NoSymbolTwice, Answered, WrittenOff, Held
<1> QED
  BY <1>1, <1>2, <1>3, PTL DEF Spec
=============================================================================
