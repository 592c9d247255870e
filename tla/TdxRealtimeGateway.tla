------------------------- MODULE TdxRealtimeGateway -------------------------
(***************************************************************************)
(* The control plane of the TDX realtime gateway                           *)
(* (src/datasource/tdx/realtime/gateway.py, class TdxRealtimeGateway): the *)
(* lease of the bridge in the terminal, the revisioned set of desired      *)
(* symbols and its convergence with what the terminal reports, and the     *)
(* control requests of WebSocket clients that wait for that convergence.   *)
(*                                                                         *)
(* Every method holds the gateway's lock over a body that never awaits, so *)
(* each is one atomic action.  The only place where a request is suspended *)
(* is the wait of _wait_for_target and _wait_for_native_probe for an event *)
(* that every change of what they test sets; a wait is therefore modelled  *)
(* by the two ways it ends, WaitEnds and WaitTimesOut.                     *)
(*                                                                         *)
(* Timestamps are ages that Tick advances, as in QmtCommandGateway.  The   *)
(* lease token and the stream epoch are new with every generation and are  *)
(* represented by it.  The desired list is a set: of its order only the    *)
(* fact that reordering it makes a new revision is kept.  Retry delays,    *)
(* and fields only health shows, are left out, but for whether a failure   *)
(* code is on record.                                                      *)
(***************************************************************************)
EXTENDS Integers, FiniteSets

CONSTANTS
  Ids,                \* owner_id of bridge processes
  NoOwner,            \* no owner has registered
  Symbols,            \* normalized symbols
  Clients,            \* WebSocket clients; each has one request at a time
  MaxSubscriptions,   \* max_subscriptions
  OwnerStaleAfter,    \* OWNER_STALE_AFTER_SECONDS
  TakeoverGrace,      \* OWNER_TAKEOVER_GRACE_SECONDS
  RetryWindow,        \* OWNER_TAKEOVER_RETRY_WINDOW_SECONDS
  ControlTimeout,     \* control_timeout_seconds
  MaxGeneration,      \* bound of the model: registrations
  MaxRevision,        \* bound of the model: changes of the desired set
  MaxProbe            \* bound of the model: get_subscriptions requests

ASSUME TdxAssumption ==
  /\ NoOwner \notin Ids
  /\ IsFiniteSet(Symbols)
  /\ MaxSubscriptions \in Nat \ {0}
  /\ OwnerStaleAfter \in Nat
  /\ TakeoverGrace \in Nat
  /\ RetryWindow \in Nat
  /\ ControlTimeout \in Nat \ {0}
  /\ MaxGeneration \in Nat
  /\ MaxRevision \in Nat
  /\ MaxProbe \in Nat

VARIABLES
  ownerId,      \* owner_id of the registered owner, or NoOwner
  generation,   \* _owner_generation_counter, the owner's generation
  seenAge,      \* now - last_seen_monotonic of the owner
  retired,      \* _retired_owner_ids
  candidate,    \* _takeover_candidate
  desired,      \* _desired_symbols
  revision,     \* _desired_revision
  converged,    \* _converged_revision
  observed,     \* _observed_native_symbols
  reported,     \* _last_reported_active
  failing,      \* _last_failure_code is not None
  probe,        \* _native_probe_revision
  probeDone,    \* _completed_native_probe_revision
  call,         \* what the request of each client waits for
  answer        \* the answer a control request gives in this step

ownerVars == <<ownerId, generation, seenAge, retired, candidate>>
nativeVars == <<converged, observed, reported, failing, probeDone>>
desiredVars == <<desired, revision>>
vars == <<ownerVars, nativeVars, desiredVars, probe, call, answer>>

NotConverged == -1
Mutations == {"subscribe", "unsubscribe", "sync"}
Results == {"success", "busy", "not_converged", "subscribed", "unknown", "read_failed"}

NoCandidate == [id |-> NoOwner, since |-> 0, gap |-> 0]

\* about is the symbol of subscribe and unsubscribe, as a set, or the target
\* of sync; target and number are what the wait compares.
Waiting == [op : Mutations \cup {"get"}, about : SUBSET Symbols,
            target : SUBSET Symbols, number : Nat, left : Nat]
NoCall == [op |-> "none", about |-> {}, target |-> {}, number |-> 0, left |-> 0]

NoAnswer == [op |-> "none", about |-> {}, result |-> "none"]
Answered(op, about, result) == answer' = [op |-> op, about |-> about, result |-> result]
Silent == answer' = NoAnswer

-----------------------------------------------------------------------------
(* Owner and lease. *)

Fresh == ownerId # NoOwner /\ seenAge <= OwnerStaleAfter

\* _require_owner_epoch_locked: also the lease of a stale owner is refused.
HoldsLease(g) == Fresh /\ generation = g

\* What a new owner, or a new desired set, makes of the convergence.
\* Variation: the symbols let through stay.
InvalidateRevisionOnly == converged' = NotConverged /\ failing' = FALSE /\ UNCHANGED observed
Invalidate == converged' = NotConverged /\ failing' = FALSE /\ observed' = {}

\* The end of register_owner: a new generation, and nothing reported yet.
NewOwner(o) ==
  /\ generation < MaxGeneration
  /\ ownerId' = o
  /\ generation' = generation + 1
  /\ seenAge' = 0
  /\ candidate' = NoCandidate
  /\ Invalidate
  /\ reported' = {}
  /\ probeDone' = 0

Admits(o) == o \notin retired

\* A registration that does not meet another fresh owner succeeds at once.
RegisterOwner(o) ==
  /\ Admits(o)
  /\ Fresh => ownerId = o
  /\ NewOwner(o)
  /\ Silent
  /\ UNCHANGED <<retired, desiredVars, probe, call>>

\* A registration against another fresh owner: the candidate must have come
\* back within the retry window each time, for the whole grace period.
Continues(o) == candidate.id = o /\ candidate.gap <= RetryWindow
CandidateAge(o) == IF Continues(o) THEN candidate.since ELSE 0

ContestOwner(o) ==
  /\ Admits(o)
  /\ Fresh /\ ownerId # o
  /\ CandidateAge(o) < TakeoverGrace
  /\ candidate' = [id |-> o, since |-> CandidateAge(o), gap |-> 0]
  /\ Silent
  /\ UNCHANGED <<ownerId, generation, seenAge, retired, nativeVars, desiredVars, probe, call>>

TakeOver(o) ==
  /\ Admits(o)
  /\ Fresh /\ ownerId # o
  /\ CandidateAge(o) >= TakeoverGrace
  /\ retired' = retired \cup {ownerId}
  /\ NewOwner(o)
  /\ Silent
  /\ UNCHANGED <<desiredVars, probe, call>>

-----------------------------------------------------------------------------
(* Calls of the bridge that holds lease g. *)

\* poll is a heartbeat; what it answers is PollResponse.
Poll(g) ==
  /\ HoldsLease(g)
  /\ seenAge' = 0
  /\ Silent
  /\ UNCHANGED <<ownerId, generation, retired, candidate, nativeVars, desiredVars, probe, call>>

\* pushing: the stall detector asks for a full resubscription.
\* Variation: what to unsubscribe is computed from the converged symbols.
PollOfConverged(pushing) ==
  [revision |-> revision, desired |-> desired, probe |-> probe,
   unsubscribe |-> observed \ desired,
   subscribe |-> IF pushing THEN desired ELSE desired \ reported]
PollResponse(pushing) ==
  [revision |-> revision, desired |-> desired, probe |-> probe,
   unsubscribe |-> reported \ desired,
   subscribe |-> IF pushing THEN desired ELSE desired \ reported]

\* Variation: extras in the terminal's list are tolerated.
ReportCovers(active, clean) == clean /\ desired \subseteq active
ReportMatches(active, clean) == clean /\ active = desired

\* The probe revision on record after a result that carries probed.
ProbeAfter(probed) == IF probed \in 0..probe /\ probed > probeDone THEN probed ELSE probeDone

\* post_result for revision rev: the terminal lists active; clean says that
\* it applied that revision and rejected nothing.  A result for another
\* revision than the current one is ignored after the heartbeat.
PostResult(g, rev, active, clean, probed) ==
  /\ HoldsLease(g)
  /\ seenAge' = 0
  /\ IF rev # revision
     THEN UNCHANGED nativeVars
     ELSE /\ reported' = active
          /\ probeDone' = ProbeAfter(probed)
          /\ IF ReportMatches(active, clean)
             THEN converged' = rev /\ observed' = active /\ failing' = FALSE
             ELSE converged' = converged /\ observed' = {} /\ failing' = TRUE
  /\ Silent
  /\ UNCHANGED <<ownerId, generation, retired, candidate, desiredVars, probe, call>>

\* post_snapshot: a heartbeat also when the symbol is refused.
Accepts(s) == s \in observed

PostSnapshot(g, s) == Poll(g)

-----------------------------------------------------------------------------
(* Control requests.  Only one mutation at a time may wait; another one is  *)
(* answered busy.                                                           *)

Idle(k) == call[k] = NoCall
\* Variation: mutations do not exclude each other.
NeverLocked == FALSE
MutationLocked == \E k \in Clients : call[k].op \in Mutations

\* sync_desired, add_desired and remove_desired: the set, or its order,
\* changes.  If nothing does, the revision and the convergence stay.
Desire(symbols, reordered) ==
  IF symbols = desired /\ ~reordered
  THEN UNCHANGED <<desiredVars, converged, observed, failing>>
  ELSE /\ revision < MaxRevision
       /\ desired' = symbols
       /\ revision' = revision + 1
       /\ Invalidate

\* The test of _wait_for_target, and of _wait_for_native_probe.
\* Variation: the revision alone is compared.
RevisionReached(target, number) == revision = number /\ converged = number
TargetReached(target, number) ==
  revision = number /\ converged = number /\ observed = target
\* Variation: the probe before is good enough.
ProbeBefore(number) == Fresh /\ probeDone + 1 >= number
ProbeReached(number) == Fresh /\ probeDone >= number

\* What is left of a list after truncation to its first max_subscriptions
\* members; which ones are first is not modelled.
Truncations(symbols) ==
  IF Cardinality(symbols) <= MaxSubscriptions THEN {symbols}
  ELSE {t \in SUBSET symbols : Cardinality(t) = MaxSubscriptions}

\* A mutation updates the desired set and then waits for it.  The first look
\* belongs to the same step.
Mutate(k, op, about, symbols, reordered) ==
  /\ Idle(k)
  /\ UNCHANGED <<ownerVars, reported, probeDone, probe>>
  /\ IF MutationLocked
     THEN /\ Answered(op, about, "busy")
          /\ UNCHANGED <<desiredVars, converged, observed, failing, call>>
     ELSE /\ Desire(symbols, reordered)
          /\ IF (TargetReached(symbols, revision))'
             THEN Answered(op, about, "success") /\ UNCHANGED call
             ELSE /\ Silent
                  /\ call' = [call EXCEPT ![k] =
                       [op |-> op, about |-> about, target |-> symbols,
                        number |-> revision', left |-> ControlTimeout]]

\* A new symbol goes to the end of the list, so the truncation drops it.
Subscribe(k, s) ==
  Mutate(k, "subscribe", {s},
         IF Cardinality(desired \cup {s}) <= MaxSubscriptions
         THEN desired \cup {s} ELSE desired, FALSE)

Unsubscribe(k, s) == Mutate(k, "unsubscribe", {s}, desired \ {s}, FALSE)

Sync(k, symbols, reordered) ==
  /\ reordered => Cardinality(symbols) > 1
  /\ Mutate(k, "sync", symbols, symbols, reordered)

\* get_subscriptions raises the probe revision and waits for a result that
\* carries it.
GetSubscriptions(k) ==
  /\ Idle(k)
  /\ UNCHANGED <<ownerVars, nativeVars, desiredVars>>
  /\ IF ~Fresh
     THEN Answered("get", {}, "read_failed") /\ UNCHANGED <<probe, call>>
     ELSE /\ probe < MaxProbe
          /\ probe' = probe + 1
          /\ Silent
          /\ call' = [call EXCEPT ![k] =
               [op |-> "get", about |-> {}, target |-> {},
                number |-> probe + 1, left |-> ControlTimeout]]

Finish(k, about, result) ==
  /\ Answered(call[k].op, about, result)
  /\ call' = [call EXCEPT ![k] = NoCall]
  /\ UNCHANGED <<ownerVars, nativeVars, desiredVars, probe>>

\* The event is set and the waiter finds what it waits for, or, a read, that
\* the owner has gone stale.
WaitEnds(k) ==
  LET c == call[k]
  IN  \/ /\ c.op \in Mutations
         /\ TargetReached(c.target, c.number)
         /\ Finish(k, c.about, "success")
      \/ /\ c.op = "get"
         /\ ProbeReached(c.number)
         /\ Finish(k, reported, "success")
      \/ /\ c.op = "get"
         /\ ~Fresh
         /\ Finish(k, {}, "read_failed")

\* What execute_control answers when the wait ends without success.
Verdict(c) ==
  CASE c.op = "get"                                       -> "read_failed"
    [] c.op = "subscribe"                                 -> "not_converged"
    [] c.op \in {"unsubscribe", "sync"} /\ ~Fresh         -> "unknown"
    [] c.op = "unsubscribe" /\ c.about \subseteq reported -> "subscribed"
    [] c.op = "unsubscribe"                               -> "success"
    [] c.op = "sync" /\ ~(reported \subseteq c.target)    -> "subscribed"
    [] OTHER                                              -> "not_converged"

\* A wait that runs into its deadline does not look again.
WaitTimesOut(k) ==
  /\ ~Idle(k)
  /\ call[k].left = 0
  /\ Finish(k, call[k].about, Verdict(call[k]))

-----------------------------------------------------------------------------
\* The time a wait has left.
\* Variation: every wake-up starts the timeout anew.
AgedCallNewDeadline(c) == IF c = NoCall THEN c ELSE [c EXCEPT !.left = ControlTimeout]
AgedCall(c) == IF c.left > 0 THEN [c EXCEPT !.left = @ - 1] ELSE c

Tick ==
  /\ seenAge' = IF Fresh THEN seenAge + 1 ELSE seenAge
  /\ candidate' = IF candidate = NoCandidate THEN candidate
                  ELSE [candidate EXCEPT
                          !.since = IF @ < TakeoverGrace THEN @ + 1 ELSE @,
                          !.gap = IF @ <= RetryWindow THEN @ + 1 ELSE @]
  /\ call' = [k \in Clients |-> AgedCall(call[k])]
  /\ Silent
  /\ UNCHANGED <<ownerId, generation, retired, nativeVars, desiredVars, probe>>

Init ==
  /\ ownerId = NoOwner
  /\ generation = 0
  /\ seenAge = 0
  /\ retired = {}
  /\ candidate = NoCandidate
  /\ desired = {}
  /\ revision = 0
  /\ converged = NotConverged
  /\ observed = {}
  /\ reported = {}
  /\ failing = FALSE
  /\ probe = 0
  /\ probeDone = 0
  /\ call = [k \in Clients |-> NoCall]
  /\ answer = NoAnswer

ControlNext ==
  \E k \in Clients :
    \/ \E s \in Symbols : Subscribe(k, s) \/ Unsubscribe(k, s)
    \/ \E wanted \in SUBSET Symbols : \E symbols \in Truncations(wanted) :
         \E reordered \in BOOLEAN : Sync(k, symbols, reordered)
    \/ GetSubscriptions(k)
    \/ WaitEnds(k)
    \/ WaitTimesOut(k)

\* The bridge may report any set of symbols: what the terminal lists is not
\* under the control of this program.
BridgeNext ==
  \/ \E o \in Ids : RegisterOwner(o) \/ ContestOwner(o) \/ TakeOver(o)
  \/ \E g \in 1..MaxGeneration :
       \/ Poll(g)
       \/ \E rev \in 0..MaxRevision, active \in SUBSET Symbols,
             clean \in BOOLEAN, probed \in 0..MaxProbe :
            PostResult(g, rev, active, clean, probed)
       \/ \E s \in Symbols : PostSnapshot(g, s)

Next == ControlNext \/ BridgeNext \/ Tick

Spec == Init /\ [][Next]_vars

-----------------------------------------------------------------------------
\* The types of the state.
TypeOK ==
  /\ ownerId \in Ids \cup {NoOwner}
  /\ generation \in Nat
  /\ seenAge \in Nat
  /\ retired \subseteq Ids
  /\ candidate \in [id : Ids \cup {NoOwner}, since : Nat, gap : Nat]
  /\ desired \subseteq Symbols
  /\ revision \in Nat
  /\ converged \in Nat \cup {NotConverged}
  /\ observed \subseteq Symbols
  /\ reported \subseteq Symbols
  /\ failing \in BOOLEAN
  /\ probe \in Nat
  /\ probeDone \in 0..probe
  /\ call \in [Clients -> Waiting \cup {NoCall}]
  /\ answer.op \in Mutations \cup {"get", "none"}
  /\ answer.about \subseteq Symbols
  /\ answer.result \in Results \cup {"none"}

\* Snapshots are let in only for symbols that are wanted now and that the
\* terminal reported under the lease in force: a change of the desired set,
\* a new owner or a report that differs closes the gate for all symbols.
GateIsCurrent ==
  observed # {} =>
    observed = desired /\ observed = reported /\ converged = revision

\* The health check of tdx/builtin_bridge/README.md: converged at the desired
\* revision with no failure on record means that the terminal's last report
\* was exactly the desired set.
HealthyMeansExact ==
  converged = revision /\ ~failing => reported = desired /\ observed = desired

\* A waiting mutation still waits for the current desired set at the current
\* revision: nobody else can move them while it waits.
WaitIsForCurrent ==
  \A k \in Clients :
    call[k].op \in Mutations => call[k].number = revision /\ call[k].target = desired

\* A subscribe that is answered with success left the symbol wanted, listed
\* by the terminal and let through, unless the list was full: then it was
\* dropped without a word.
SubscribedMeansLive ==
  answer.op = "subscribe" /\ answer.result = "success" =>
    /\ observed = desired
    /\ answer.about \subseteq desired \/ Cardinality(desired) = MaxSubscriptions

\* An owner that was replaced while fresh never comes back.
RetiredStayOut == ownerId \notin retired
=============================================================================
