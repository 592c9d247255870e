-------------------------- MODULE QmtJournalRecords --------------------------
(***************************************************************************)
(* The records of the QMT service's subscription journal, and what a start *)
(* of the service restores from a sequence of them                         *)
(* (src/datasource/qmt/realtime/subscription.py, _restore_startup_state).  *)
(* QmtSubscription writes and replays them; QmtJournal keeps them in       *)
(* files.                                                                  *)
(***************************************************************************)
EXTENDS Integers, FiniteSets, SequencesExt

CONSTANT Symbols       \* normalized symbols

ASSUME SymbolsAssumption == IsFiniteSet(Symbols)

\* A handle of the registry, a candidate of the recovery: about is {} in the
\* bucket "whole" and {symbol} in the bucket "single".
Handle(id, about) == [id |-> id, about |-> about]
NoWhole == [id |-> 0, symbols |-> {}]
\* A record of the journal; what is the method, the reply, the transition or
\* the verdict.
Record(kind, seq, what, id, about) ==
  [kind |-> kind, seq |-> seq, what |-> what, id |-> id, about |-> about]
Observation == Record("operator_observation", 0, "none", 0, {})

-----------------------------------------------------------------------------
(* Replay of the journal. *)

Ids(handles) == {h.id : h \in handles}
WithoutId(handles, id) == {h \in handles : h.id # id}
Candidate(id, about, tried) == [id |-> id, about |-> about, tried |-> tried]
Tried(candidates, ids) == {[c EXCEPT !.tried = @ \/ c.id \in ids] : c \in candidates}

\* What a restart knows when it has read nothing.
Forgotten == [whole |-> NoWhole, singles |-> [s \in Symbols |-> 0], retained |-> {},
              candidates |-> {}, unknown |-> 0]
Blank == [known |-> Forgotten, pending |-> {}]

\* _resolve_replayed_candidate, also while the controller runs.
\* Variation: the symbol of a single subscription stays in the registry.
ResolvedKeepingSingles(m, id) ==
  [m EXCEPT !.candidates = WithoutId(@, id),
            !.whole = IF @.id = id THEN NoWhole ELSE @]
Resolved(m, id) ==
  IF id \notin Ids(m.candidates) THEN m
  ELSE LET c == CHOOSE x \in m.candidates : x.id = id
       IN  [m EXCEPT
              !.candidates = WithoutId(@, id),
              !.whole = IF c.about = {} /\ @.id = id THEN NoWhole ELSE @,
              !.singles = [s \in Symbols |-> IF s \in c.about /\ @[s] = id THEN 0 ELSE @[s]],
              !.retained = @ \ {Handle(id, c.about)}]

Found(m, id, about) ==
  [m EXCEPT !.candidates = WithoutId(@, id) \cup {Candidate(id, about, FALSE)}]
Unknown(m) == [m EXCEPT !.unknown = @ + 1]

\* A result belongs to the last intent of its callSequence.  A subscription
\* whose reply was refused by the terminal is not followed up.
ReplayedResult(m, intent, what, id) ==
  IF intent.method = "cancel"
  THEN IF what = "false" THEN Resolved(m, intent.id) ELSE m
  ELSE CASE what = "id"      -> Found(m, id, IF intent.method = "whole" THEN {} ELSE intent.about)
         [] what = "failure" -> m
         [] OTHER            -> Unknown(m)

ReplayedTransition(m, r) ==
  CASE r.what = "whole"  -> Found([m EXCEPT !.whole = [id |-> r.id, symbols |-> r.about]], r.id, {})
    [] r.what = "single" -> Found([m EXCEPT !.singles =
                                     [s \in Symbols |-> IF s \in r.about THEN r.id ELSE @[s]]],
                                  r.id, r.about)
    [] OTHER             -> Resolved(m, r.id)

\* A startup_recovery_intent: the candidate is not tried again.
ReplayedAttempt(m, id, confirmed) ==
  IF id \in Ids(m.candidates)
  THEN [m EXCEPT !.candidates = Tried(@, {id})]
  ELSE IF id \in confirmed THEN m ELSE Unknown(m)

\* The subIds with a confirmed startup_recovery_result anywhere.
Confirmed(records) ==
  {r.id : r \in {x \in ToSet(records) : x.kind = "recovery_result" /\ x.what = "confirmed"}}

ReplayedRecord(state, r, confirmed) ==
  LET m == state.known
      with(known) == [state EXCEPT !.known = known]
  IN  CASE r.kind = "operator_observation" -> Blank
        [] r.kind = "native_intent" ->
             [state EXCEPT !.pending = {p \in @ : p.seq # r.seq} \cup
                {[seq |-> r.seq, method |-> r.what, id |-> r.id, about |-> r.about]}]
        [] r.kind = "native_result" ->
             IF \E p \in state.pending : p.seq = r.seq
             THEN LET intent == CHOOSE p \in state.pending : p.seq = r.seq
                  IN  [known |-> ReplayedResult(m, intent, r.what, r.id),
                       pending |-> state.pending \ {intent}]
             ELSE with(Unknown(m))
        [] r.kind = "registry_transition" -> with(ReplayedTransition(m, r))
        [] r.kind = "retained_recovery" ->
             with(Found([m EXCEPT !.retained = @ \cup {Handle(r.id, r.about)}], r.id, r.about))
        [] r.kind = "recovery_intent" -> with(ReplayedAttempt(m, r.id, confirmed))
        [] r.kind = "recovery_terminal" -> with(Resolved(m, r.id))
        [] OTHER -> state

\* Calls without a result count as unknown; a cancel among them has tried.
\* Variation: they are dropped.
SettledForgetting(state) == state.known
Settled(state) ==
  LET cancels == {p.id : p \in {x \in state.pending : x.method = "cancel"}}
  IN  [state.known EXCEPT
         !.unknown = @ + Cardinality(state.pending),
         !.candidates = Tried(@, cancels)]

Replay(records) ==
  LET step(state, r) == ReplayedRecord(state, r, Confirmed(records))
  IN  Settled(FoldLeft(step, Blank, records))
=============================================================================
