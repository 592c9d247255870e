------------------------- MODULE TdxRealtimeProofs --------------------------
(***************************************************************************)
(* Proofs about TdxRealtimeGateway and TdxRealtimeSystem, for every number *)
(* of bridges, symbols and clients, every timeout and max_subscriptions.   *)
(*                                                                         *)
(* First the gateway alone.  The bridge's calls keep the gate, the health  *)
(* and the last report together (lemma NativeStep).  The clients'          *)
(* mutations exclude each other, so that the set and the revision a        *)
(* waiting one remembers are still the current ones (lemma MutateStep);    *)
(* what the gate says is then true of what the client asked for.           *)
(*                                                                         *)
(* Then the gateway beside bridge processes, with lost calls, hangs,       *)
(* drifts of the terminal's list and restarts of the datasource.  What was *)
(* shown of the gateway stays true: every step of the system is one of     *)
(* the gateway's steps, or the restart.  On top of it, at most one bridge  *)
(* leads, that is, holds the lease in force; the revisions and probes it   *)
(* has in hand were given out by this gateway, and what it remembers under *)
(* a probe is an answer to every read that asked for that probe            *)
(* (BridgeInv).  Its report makes that the gateway's answer.               *)
(***************************************************************************)
EXTENDS TdxRealtimeSystem, TLAPS, FiniteSetTheorems

\* A subscribe that waits wants its symbol, unless the list is full.
RemembersSubscribe ==
  \A k \in Clients :
    call[k].op = "subscribe" =>
      call[k].about \subseteq call[k].target
        \/ Cardinality(call[k].target) = MaxSubscriptions

\* The desired list never exceeds max_subscriptions.
WithinCapacity == IsFiniteSet(desired) /\ Cardinality(desired) <= MaxSubscriptions

GateInv == GateIsCurrent /\ HealthyMeansExact
CallInv == WaitIsForCurrent /\ RemembersSubscribe
IInv == TypeOK /\ GateInv /\ CallInv /\ WithinCapacity /\ SubscribedMeansLive

-----------------------------------------------------------------------------
LEMMA CallTyped ==
  ASSUME TypeOK, NEW k \in Clients, call[k] # NoCall
  PROVE  /\ call[k] \in Waiting
         /\ call[k].op \in Mutations \cup {"get"}
         /\ call[k].about \subseteq Symbols /\ call[k].target \subseteq Symbols
         /\ call[k].number \in Nat /\ call[k].left \in Nat
<1>1. call[k] \in Waiting \cup {NoCall}
  BY DEF TypeOK
<1> QED
  BY <1>1 DEF Waiting

\* A client that waits for a mutation is not idle.
LEMMA NoCallIsIdle == NoCall.op \notin Mutations \cup {"get"} /\ NoCall.op # "subscribe"
  BY DEF NoCall, Mutations

LEMMA VerdictTyped ==
  ASSUME NEW c, c.op \in Mutations \cup {"get"}
  PROVE  /\ Verdict(c) \in Results
         /\ c.op = "subscribe" => Verdict(c) # "success"
  BY DEF Verdict, Results, Mutations

-----------------------------------------------------------------------------
\* One more symbol fits, or the list was full already.
LEMMA SubscribeTarget ==
  ASSUME WithinCapacity, TypeOK, NEW s \in Symbols,
         NEW t, t = IF Cardinality(desired \cup {s}) <= MaxSubscriptions
                    THEN desired \cup {s} ELSE desired
  PROVE  /\ t \subseteq Symbols /\ IsFiniteSet(t) /\ Cardinality(t) <= MaxSubscriptions
         /\ {s} \subseteq t \/ Cardinality(t) = MaxSubscriptions
<1>1. IsFiniteSet(desired) /\ Cardinality(desired) \in Nat
  BY FS_CardinalityType DEF WithinCapacity
<1>2. /\ IsFiniteSet(desired \cup {s})
      /\ Cardinality(desired \cup {s}) \in {Cardinality(desired), Cardinality(desired) + 1}
  BY <1>1, FS_AddElement
<1>3. desired \subseteq Symbols
  BY DEF TypeOK
<1> QED
  BY <1>1, <1>2, <1>3, TdxAssumption DEF WithinCapacity

LEMMA UnsubscribeTarget ==
  ASSUME WithinCapacity, TypeOK, NEW s
  PROVE  /\ desired \ {s} \subseteq Symbols /\ IsFiniteSet(desired \ {s})
         /\ Cardinality(desired \ {s}) <= MaxSubscriptions
<1>1. desired \ {s} \subseteq desired /\ desired \subseteq Symbols
  BY DEF TypeOK
<1>2. /\ IsFiniteSet(desired \ {s}) /\ Cardinality(desired \ {s}) <= Cardinality(desired)
      /\ Cardinality(desired \ {s}) \in Nat /\ Cardinality(desired) \in Nat
  BY <1>1, FS_Subset, FS_CardinalityType DEF WithinCapacity
<1> QED
  BY <1>1, <1>2, TdxAssumption DEF WithinCapacity

LEMMA SyncTarget ==
  ASSUME NEW wanted \in SUBSET Symbols, NEW t \in Truncations(wanted)
  PROVE  t \subseteq Symbols /\ IsFiniteSet(t) /\ Cardinality(t) <= MaxSubscriptions
<1>1. t \subseteq Symbols
  BY DEF Truncations
<1>2. IsFiniteSet(t)
  BY <1>1, FS_Subset, TdxAssumption
<1>3. Cardinality(t) <= MaxSubscriptions
  BY TdxAssumption DEF Truncations
<1> QED
  BY <1>1, <1>2, <1>3

-----------------------------------------------------------------------------
\* A new owner has reported nothing, so the gate is closed.
LEMMA NewOwnerStep ==
  ASSUME IInv, NEW o \in Ids, NewOwner(o), Silent,
         retired' \subseteq Ids, UNCHANGED <<desiredVars, probe, call>>
  PROVE  IInv'
<1>1. TypeOK'
  <2>1. /\ ownerId' \in Ids \cup {NoOwner} /\ generation' \in Nat /\ seenAge' \in Nat
        /\ retired' \subseteq Ids
    BY DEF IInv, TypeOK, NewOwner
  <2>2. candidate' \in [id : Ids \cup {NoOwner}, since : Nat, gap : Nat]
    BY DEF NewOwner, NoCandidate
  <2>3. /\ desired' \subseteq Symbols /\ revision' \in Nat
        /\ converged' \in Nat \cup {NotConverged} /\ observed' \subseteq Symbols
        /\ reported' \subseteq Symbols /\ failing' \in BOOLEAN
    BY DEF IInv, TypeOK, NewOwner, Invalidate, desiredVars
  <2>6. probe' \in Nat /\ probeDone' \in 0..probe'
    BY DEF IInv, TypeOK, NewOwner
  <2>4. call' \in [Clients -> Waiting \cup {NoCall}]
    BY DEF IInv, TypeOK
  <2>5. /\ answer'.op \in Mutations \cup {"get", "none"} /\ answer'.about \subseteq Symbols
        /\ answer'.result \in Results \cup {"none"}
    BY DEF Silent, NoAnswer
  <2> QED
    BY <2>1, <2>2, <2>3, <2>4, <2>5, <2>6 DEF TypeOK
<1>2. GateInv'
  BY <1>1 DEF GateInv, GateIsCurrent, HealthyMeansExact, NewOwner, Invalidate, NotConverged, TypeOK
<1>3. CallInv'
  BY DEF IInv, CallInv, WaitIsForCurrent, RemembersSubscribe, desiredVars
<1>4. WithinCapacity' /\ SubscribedMeansLive'
  BY DEF IInv, WithinCapacity, SubscribedMeansLive, desiredVars, Silent, NoAnswer
<1> QED
  BY <1>1, <1>2, <1>3, <1>4 DEF IInv

\* What the calls of a bridge do to the gate.
LEMMA NativeStep ==
  ASSUME IInv, UNCHANGED <<ownerId, generation, retired, desiredVars, probe, call>>,
         seenAge' \in Nat, Silent,
         candidate' \in [id : Ids \cup {NoOwner}, since : Nat, gap : Nat],
         \/ UNCHANGED nativeVars
         \/ \E rev \in Nat, active \in SUBSET Symbols, clean \in BOOLEAN, probed \in Nat :
              /\ rev = revision
              /\ reported' = active
              /\ probeDone' = ProbeAfter(probed)
              /\ IF ReportMatches(active, clean)
                 THEN converged' = rev /\ observed' = active /\ failing' = FALSE
                 ELSE converged' = converged /\ observed' = {} /\ failing' = TRUE
  PROVE  IInv'
<1>1. TypeOK'
  BY DEF IInv, TypeOK, nativeVars, desiredVars, Silent, NoAnswer, ProbeAfter, NotConverged
<1>2. GateInv'
  BY DEF IInv, GateInv, GateIsCurrent, HealthyMeansExact, nativeVars, desiredVars, ReportMatches
<1>3. CallInv'
  BY DEF IInv, CallInv, WaitIsForCurrent, RemembersSubscribe, desiredVars
<1>4. WithinCapacity' /\ SubscribedMeansLive'
  BY DEF IInv, WithinCapacity, SubscribedMeansLive, desiredVars, Silent, NoAnswer
<1> QED
  BY <1>1, <1>2, <1>3, <1>4 DEF IInv

-----------------------------------------------------------------------------
\* What a change of the desired set leaves behind; symbols unchanged means
\* that nothing moved.
LEMMA DesireStep ==
  ASSUME TypeOK, GateInv, NEW symbols \in SUBSET Symbols, NEW reordered,
         Desire(symbols, reordered)
  PROVE  /\ desired' = symbols /\ revision' \in Nat
         /\ converged' \in Nat \cup {NotConverged}
         /\ observed' \subseteq Symbols /\ failing' \in BOOLEAN
         /\ reported' = reported => GateInv'
<1>1. CASE symbols = desired /\ ~reordered
  <2>1. UNCHANGED <<desiredVars, converged, observed, failing>>
    BY <1>1 DEF Desire
  <2> QED
    BY <1>1, <2>1 DEF TypeOK, desiredVars, GateInv, GateIsCurrent, HealthyMeansExact
<1>2. CASE ~(symbols = desired /\ ~reordered)
  <2>1. desired' = symbols /\ revision' = revision + 1 /\ Invalidate
    BY <1>2 DEF Desire
  <2> QED
    <3>1. revision' \in Nat /\ converged' = -1 /\ observed' = {} /\ failing' = FALSE
      BY <2>1 DEF TypeOK, Invalidate, NotConverged
    <3>2. GateInv'
      BY <3>1 DEF GateInv, GateIsCurrent, HealthyMeansExact
    <3> QED
      BY <2>1, <3>1, <3>2 DEF NotConverged
<1> QED
  BY <1>1, <1>2

\* A mutation towards symbols: busy, answered at once, or waiting.
LEMMA MutateStep ==
  ASSUME IInv, NEW k \in Clients, NEW op \in Mutations, NEW about \in SUBSET Symbols,
         NEW symbols \in SUBSET Symbols, NEW reordered,
         IsFiniteSet(symbols), Cardinality(symbols) <= MaxSubscriptions,
         op = "subscribe" => about \subseteq symbols \/ Cardinality(symbols) = MaxSubscriptions,
         Mutate(k, op, about, symbols, reordered)
  PROVE  IInv'
<1> DEFINE c == [op |-> op, about |-> about, target |-> symbols,
                 number |-> revision', left |-> ControlTimeout]
<1>1. UNCHANGED <<ownerVars, reported, probeDone, probe>>
  BY DEF Mutate
<1>2. ASSUME MutationLocked PROVE IInv'
  <2>1. /\ answer' = [op |-> op, about |-> about, result |-> "busy"]
        /\ UNCHANGED <<desiredVars, converged, observed, failing, call>>
    BY <1>2 DEF Mutate, Answered
  <2>2. TypeOK'
    BY <1>1, <2>1 DEF IInv, TypeOK, ownerVars, desiredVars, Results
  <2> QED
    BY <1>1, <2>1, <2>2 DEF IInv, GateInv, GateIsCurrent, HealthyMeansExact, CallInv,
       WaitIsForCurrent, RemembersSubscribe, WithinCapacity, SubscribedMeansLive, desiredVars
<1>3. ASSUME ~MutationLocked PROVE IInv'
  <2>1. Desire(symbols, reordered)
    BY <1>3 DEF Mutate
  <2>2. \/ /\ (TargetReached(symbols, revision))'
           /\ answer' = [op |-> op, about |-> about, result |-> "success"]
           /\ call' = call
        \/ answer' = NoAnswer /\ call' = [call EXCEPT ![k] = c]
    BY <1>3 DEF Mutate, Answered, Silent
  <2>3. /\ desired' = symbols /\ revision' \in Nat
        /\ converged' \in Nat \cup {NotConverged}
        /\ observed' \subseteq Symbols /\ failing' \in BOOLEAN
        /\ GateInv'
    BY <1>1, <2>1, DesireStep DEF IInv
  <2>4. c \in Waiting
    BY <2>3, TdxAssumption DEF Waiting
  <2>5. TypeOK'
    <3>1. call' \in [Clients -> Waiting \cup {NoCall}]
      BY <2>2, <2>4 DEF IInv, TypeOK
    <3>2. /\ answer'.op \in Mutations \cup {"get", "none"} /\ answer'.about \subseteq Symbols
          /\ answer'.result \in Results \cup {"none"}
      BY <2>2 DEF NoAnswer, Results
    <3> QED
      BY <1>1, <2>3, <3>1, <3>2 DEF IInv, TypeOK, ownerVars
  <2>6. CallInv'
    <3>1. \A j \in Clients : call[j].op \notin Mutations
      BY <1>3 DEF MutationLocked
    <3>2. \A j \in Clients : call'[j] = call[j] \/ call'[j] = c
      BY <2>2 DEF IInv, TypeOK
    <3>3. c.number = revision' /\ c.target = desired'
          /\ (c.op = "subscribe" => c.about \subseteq c.target
                                      \/ Cardinality(c.target) = MaxSubscriptions)
      BY <2>3
    <3> HIDE DEF c
    <3> QED
      BY <3>1, <3>2, <3>3 DEF CallInv, WaitIsForCurrent, RemembersSubscribe, Mutations
  <2>7. WithinCapacity'
    BY <2>3 DEF WithinCapacity
  <2>8. SubscribedMeansLive'
    BY <2>2, <2>3 DEF SubscribedMeansLive, TargetReached, NoAnswer
  <2> QED
    BY <2>3, <2>5, <2>6, <2>7, <2>8 DEF IInv
<1> QED
  BY <1>2, <1>3

\* A request is answered and its client idle again.
LEMMA FinishStep ==
  ASSUME IInv, NEW k \in Clients, ~Idle(k), NEW about \in SUBSET Symbols, NEW result \in Results,
         Finish(k, about, result),
         call[k].op = "subscribe" /\ result = "success" =>
           /\ observed = desired
           /\ about \subseteq desired \/ Cardinality(desired) = MaxSubscriptions
  PROVE  IInv'
<1>1. /\ answer' = [op |-> call[k].op, about |-> about, result |-> result]
      /\ call' = [call EXCEPT ![k] = NoCall]
      /\ UNCHANGED <<ownerVars, nativeVars, desiredVars, probe>>
  BY DEF Finish, Answered
<1>2. call[k].op \in Mutations \cup {"get"}
  BY CallTyped DEF IInv, Idle
<1>3. TypeOK'
  BY <1>1, <1>2 DEF IInv, TypeOK, ownerVars, nativeVars, desiredVars
<1>4. GateInv' /\ WithinCapacity'
  BY <1>1 DEF IInv, GateInv, GateIsCurrent, HealthyMeansExact, WithinCapacity, nativeVars, desiredVars
<1>5. CallInv'
  <2>1. \A j \in Clients : call'[j] = call[j] \/ call'[j] = NoCall
    BY <1>1 DEF IInv, TypeOK
  <2> QED
    BY <1>1, <2>1, NoCallIsIdle DEF IInv, CallInv, WaitIsForCurrent, RemembersSubscribe, desiredVars
<1>6. SubscribedMeansLive'
  BY <1>1 DEF SubscribedMeansLive, nativeVars, desiredVars
<1> QED
  BY <1>3, <1>4, <1>5, <1>6 DEF IInv

\* What a waiting subscribe may say when its wait ends with success.
LEMMA WaitEndsStep ==
  ASSUME IInv, NEW k \in Clients, WaitEnds(k)
  PROVE  IInv'
<1>1. ~Idle(k)
  BY NoCallIsIdle DEF WaitEnds, Idle
<1>2. call[k].about \subseteq Symbols
  BY <1>1, CallTyped DEF IInv, Idle
<1>3. ASSUME call[k].op \in Mutations, TargetReached(call[k].target, call[k].number),
             Finish(k, call[k].about, "success")
      PROVE  IInv'
  <2>1. call[k].target = desired /\ observed = desired
    BY <1>3 DEF IInv, CallInv, WaitIsForCurrent, TargetReached
  <2>2. call[k].op = "subscribe" =>
          call[k].about \subseteq desired \/ Cardinality(desired) = MaxSubscriptions
    BY <2>1 DEF IInv, CallInv, RemembersSubscribe
  <2> QED
    BY <1>1, <1>2, <1>3, <2>1, <2>2, FinishStep DEF Results
<1>4. ASSUME call[k].op = "get", Finish(k, reported, "success") PROVE IInv'
  BY <1>1, <1>4, FinishStep DEF Results, IInv, TypeOK
<1>5. ASSUME call[k].op = "get", Finish(k, {}, "read_failed") PROVE IInv'
  BY <1>1, <1>5, FinishStep DEF Results
<1> QED
  BY <1>3, <1>4, <1>5 DEF WaitEnds

LEMMA WaitTimesOutStep ==
  ASSUME IInv, NEW k \in Clients, WaitTimesOut(k)
  PROVE  IInv'
<1>1. ~Idle(k) /\ Finish(k, call[k].about, Verdict(call[k]))
  BY DEF WaitTimesOut
<1>2. call[k].about \subseteq Symbols /\ call[k].op \in Mutations \cup {"get"}
  BY <1>1, CallTyped DEF IInv, Idle
<1>3. Verdict(call[k]) \in Results /\ (call[k].op = "subscribe" => Verdict(call[k]) # "success")
  BY <1>2, VerdictTyped
<1> QED
  BY <1>1, <1>2, <1>3, FinishStep

LEMMA GetStep ==
  ASSUME IInv, NEW k \in Clients, GetSubscriptions(k)
  PROVE  IInv'
<1> DEFINE c == [op |-> "get", about |-> {}, target |-> {},
                 number |-> probe + 1, left |-> ControlTimeout]
<1>1. UNCHANGED <<ownerVars, nativeVars, desiredVars>>
  BY DEF GetSubscriptions
<1>2. \/ /\ answer' = [op |-> "get", about |-> {}, result |-> "read_failed"]
         /\ UNCHANGED <<probe, call>>
      \/ probe' = probe + 1 /\ answer' = NoAnswer /\ call' = [call EXCEPT ![k] = c]
  BY DEF GetSubscriptions, Answered, Silent
<1>3. c \in Waiting
  BY TdxAssumption DEF IInv, TypeOK, Waiting
<1>4. TypeOK'
  <2>1. call' \in [Clients -> Waiting \cup {NoCall}]
    BY <1>2, <1>3 DEF IInv, TypeOK
  <2>2. probe' \in Nat /\ probeDone' \in 0..probe'
    BY <1>1, <1>2 DEF IInv, TypeOK, nativeVars
  <2>3. /\ answer'.op \in Mutations \cup {"get", "none"} /\ answer'.about \subseteq Symbols
        /\ answer'.result \in Results \cup {"none"}
    BY <1>2 DEF NoAnswer, Results
  <2> QED
    BY <1>1, <2>1, <2>2, <2>3 DEF IInv, TypeOK, ownerVars, nativeVars, desiredVars
<1>5. GateInv' /\ WithinCapacity'
  BY <1>1 DEF IInv, GateInv, GateIsCurrent, HealthyMeansExact, WithinCapacity, nativeVars, desiredVars
<1>6. CallInv'
  <2>1. \A j \in Clients : call'[j] = call[j] \/ call'[j].op = "get"
    BY <1>2 DEF IInv, TypeOK
  <2> QED
    BY <1>1, <2>1 DEF IInv, CallInv, WaitIsForCurrent, RemembersSubscribe, desiredVars, Mutations
<1>7. SubscribedMeansLive'
  BY <1>2 DEF SubscribedMeansLive, NoAnswer
<1> QED
  BY <1>4, <1>5, <1>6, <1>7 DEF IInv

\* Time moves the ages and the deadlines only.
LEMMA TickStep ==
  ASSUME IInv, Tick
  PROVE  IInv'
<1>1. /\ UNCHANGED <<ownerId, generation, retired, nativeVars, desiredVars, probe>>
      /\ answer' = NoAnswer
  BY DEF Tick, Silent
<1>2. \A k \in Clients :
        /\ call'[k] \in Waiting \cup {NoCall}
        /\ call'[k].op = call[k].op /\ call'[k].about = call[k].about
        /\ call'[k].target = call[k].target /\ call'[k].number = call[k].number
  <2> TAKE k \in Clients
  <2>1. call'[k] = IF call[k].left > 0 THEN [call[k] EXCEPT !.left = @ - 1] ELSE call[k]
    BY DEF Tick, AgedCall
  <2>2. call[k] \in Waiting \cup {NoCall}
    BY DEF IInv, TypeOK
  <2>3. CASE call[k] = NoCall
    BY <2>1, <2>3 DEF NoCall
  <2>4. CASE call[k] \in Waiting
    BY <2>1, <2>4 DEF Waiting
  <2> QED
    BY <2>2, <2>3, <2>4
<1>3. call' \in [Clients -> Waiting \cup {NoCall}]
  BY <1>2 DEF Tick
<1>4. seenAge' \in Nat /\ candidate' \in [id : Ids \cup {NoOwner}, since : Nat, gap : Nat]
  <2>1. seenAge' \in Nat
    BY DEF Tick, IInv, TypeOK
  <2>2. candidate \in [id : Ids \cup {NoOwner}, since : Nat, gap : Nat]
    BY DEF IInv, TypeOK
  <2>3. \/ candidate' = candidate
        \/ candidate' = [candidate EXCEPT
             !.since = IF candidate.since < TakeoverGrace THEN candidate.since + 1 ELSE candidate.since,
             !.gap = IF candidate.gap <= RetryWindow THEN candidate.gap + 1 ELSE candidate.gap]
    BY DEF Tick
  <2>4. ASSUME NEW since \in Nat, NEW gap \in Nat,
               candidate' = [candidate EXCEPT !.since = since, !.gap = gap]
        PROVE  candidate' \in [id : Ids \cup {NoOwner}, since : Nat, gap : Nat]
    BY <2>2, <2>4
  <2>5. /\ (IF candidate.since < TakeoverGrace THEN candidate.since + 1 ELSE candidate.since) \in Nat
        /\ (IF candidate.gap <= RetryWindow THEN candidate.gap + 1 ELSE candidate.gap) \in Nat
    BY <2>2
  <2> QED
    BY <2>1, <2>2, <2>3, <2>4, <2>5
<1>5. TypeOK'
  BY <1>1, <1>3, <1>4 DEF IInv, TypeOK, nativeVars, desiredVars, NoAnswer
<1> QED
  BY <1>1, <1>2, <1>5 DEF IInv, GateInv, GateIsCurrent, HealthyMeansExact, CallInv,
     WaitIsForCurrent, RemembersSubscribe, WithinCapacity, SubscribedMeansLive,
     nativeVars, desiredVars, NoAnswer

-----------------------------------------------------------------------------
LEMMA InitInv == Init => IInv
<1> SUFFICES ASSUME Init PROVE IInv
  OBVIOUS
<1>1. TypeOK
  <2>1. call \in [Clients -> Waiting \cup {NoCall}]
    BY DEF Init
  <2>2. candidate \in [id : Ids \cup {NoOwner}, since : Nat, gap : Nat]
    BY DEF Init, NoCandidate
  <2>3. /\ answer.op = "none" /\ answer.about = {} /\ answer.result = "none"
    BY DEF Init, NoAnswer
  <2>4. /\ ownerId \in Ids \cup {NoOwner} /\ generation \in Nat /\ seenAge \in Nat
        /\ retired \subseteq Ids /\ desired \subseteq Symbols /\ revision \in Nat
        /\ converged \in Nat \cup {NotConverged} /\ observed \subseteq Symbols
        /\ reported \subseteq Symbols /\ failing \in BOOLEAN
    BY DEF Init
  <2>5. probe \in Nat /\ probeDone \in 0..probe
    BY DEF Init
  <2> QED
    BY <2>1, <2>2, <2>3, <2>4, <2>5 DEF TypeOK
<1>2. WithinCapacity
  BY FS_EmptySet, TdxAssumption DEF Init, WithinCapacity
<1> QED
  BY <1>1, <1>2, NoCallIsIdle DEF Init, IInv, GateInv, GateIsCurrent, HealthyMeansExact,
     CallInv, WaitIsForCurrent, RemembersSubscribe, SubscribedMeansLive, NoAnswer

LEMMA ControlStep == IInv /\ ControlNext => IInv'
<1> SUFFICES ASSUME IInv, NEW k \in Clients,
               \/ \E s \in Symbols : Subscribe(k, s) \/ Unsubscribe(k, s)
               \/ \E wanted \in SUBSET Symbols : \E symbols \in Truncations(wanted) :
                    \E reordered \in BOOLEAN : Sync(k, symbols, reordered)
               \/ GetSubscriptions(k)
               \/ WaitEnds(k)
               \/ WaitTimesOut(k)
             PROVE  IInv'
  BY DEF ControlNext
<1>1. ASSUME NEW s \in Symbols, Subscribe(k, s) PROVE IInv'
  <2> DEFINE t == IF Cardinality(desired \cup {s}) <= MaxSubscriptions
                  THEN desired \cup {s} ELSE desired
  <2>1. /\ t \subseteq Symbols /\ IsFiniteSet(t) /\ Cardinality(t) <= MaxSubscriptions
        /\ {s} \subseteq t \/ Cardinality(t) = MaxSubscriptions
    BY SubscribeTarget DEF IInv
  <2>2. Mutate(k, "subscribe", {s}, t, FALSE)
    BY <1>1 DEF Subscribe
  <2> HIDE DEF t
  <2> QED
    BY <2>1, <2>2, MutateStep DEF Mutations
<1>2. ASSUME NEW s \in Symbols, Unsubscribe(k, s) PROVE IInv'
  BY <1>2, UnsubscribeTarget, MutateStep DEF Unsubscribe, IInv, Mutations
<1>3. ASSUME NEW wanted \in SUBSET Symbols, NEW symbols \in Truncations(wanted),
             NEW reordered \in BOOLEAN, Sync(k, symbols, reordered)
      PROVE  IInv'
  BY <1>3, SyncTarget, MutateStep DEF Sync, Mutations
<1> QED
  BY <1>1, <1>2, <1>3, GetStep, WaitEndsStep, WaitTimesOutStep

\* The three outcomes of a registration.
LEMMA OwnerStep ==
  ASSUME IInv, NEW o \in Ids, RegisterOwner(o) \/ ContestOwner(o) \/ TakeOver(o)
  PROVE  IInv'
<1>1. ASSUME RegisterOwner(o) PROVE IInv'
  BY <1>1, NewOwnerStep DEF RegisterOwner, IInv, TypeOK
<1>2. ASSUME TakeOver(o) PROVE IInv'
  <2>1. (retired \cup {ownerId}) \subseteq Ids
    BY <1>2 DEF TakeOver, Fresh, IInv, TypeOK
  <2> QED
    BY <1>2, <2>1, NewOwnerStep DEF TakeOver
<1>3. ASSUME ContestOwner(o) PROVE IInv'
  <2>1. CandidateAge(o) \in Nat
    BY <1>3 DEF CandidateAge, IInv, TypeOK
  <2> QED
    BY <1>3, <2>1, NativeStep DEF ContestOwner, IInv, TypeOK
<1> QED
  BY <1>1, <1>2, <1>3

LEMMA PollStep ==
  ASSUME IInv, NEW g, Poll(g)
  PROVE  IInv'
  BY NativeStep DEF Poll, IInv, TypeOK

\* A result, whatever its revision, its list and its probe.
LEMMA PostStep ==
  ASSUME IInv, NEW g, NEW rev \in Nat, NEW active \in SUBSET Symbols,
         NEW clean \in BOOLEAN, NEW probed \in Nat,
         PostResult(g, rev, active, clean, probed)
  PROVE  IInv'
<1>1. candidate' \in [id : Ids \cup {NoOwner}, since : Nat, gap : Nat]
  BY DEF PostResult, IInv, TypeOK
<1>2. CASE rev # revision
  BY <1>1, <1>2, NativeStep DEF PostResult
<1>3. CASE rev = revision
  BY <1>1, <1>3, NativeStep DEF PostResult
<1> QED
  BY <1>2, <1>3

LEMMA BridgeStep == IInv /\ BridgeNext => IInv'
<1>1. 0..MaxRevision \subseteq Nat /\ 0..MaxProbe \subseteq Nat
  BY TdxAssumption
<1> QED
  BY <1>1, OwnerStep, PollStep, PostStep DEF BridgeNext, PostSnapshot

LEMMA StutterStep == IInv /\ UNCHANGED vars => IInv'
  BY DEF IInv, TypeOK, GateInv, GateIsCurrent, HealthyMeansExact, CallInv, WaitIsForCurrent,
     RemembersSubscribe, WithinCapacity, SubscribedMeansLive, vars, ownerVars, nativeVars,
     desiredVars

\* The conjunction the argument rests on is inductive.
THEOREM Inductive == Spec => []IInv
<1>1. IInv /\ [Next]_vars => IInv'
  BY ControlStep, BridgeStep, TickStep, StutterStep DEF Next
<1> QED
  BY InitInv, <1>1, PTL DEF Spec

\* The state keeps its types; in particular no probe is recorded as complete
\* that was never asked for.
THEOREM TypeCorrect == Spec => []TypeOK
<1>1. IInv => TypeOK
  BY DEF IInv
<1> QED
  BY Inductive, <1>1, PTL

\* A snapshot is let in only for a symbol that is wanted now and that the
\* terminal reported in its last result.
THEOREM GateCurrent == Spec => []GateIsCurrent
<1>1. IInv => GateIsCurrent
  BY DEF IInv, GateInv
<1> QED
  BY Inductive, <1>1, PTL

\* A gateway that looks healthy has exactly the desired set in the terminal.
THEOREM HealthyExact == Spec => []HealthyMeansExact
<1>1. IInv => HealthyMeansExact
  BY DEF IInv, GateInv
<1> QED
  BY Inductive, <1>1, PTL

\* The set and the revision a mutation waits for are the current ones.
THEOREM WaitCurrent == Spec => []WaitIsForCurrent
<1>1. IInv => WaitIsForCurrent
  BY DEF IInv, CallInv
<1> QED
  BY Inductive, <1>1, PTL

\* A subscribe that is answered with success left its symbol live, unless the
\* list was full.
THEOREM SubscribedLive == Spec => []SubscribedMeansLive
<1>1. IInv => SubscribedMeansLive
  BY DEF IInv
<1> QED
  BY Inductive, <1>1, PTL

\* The desired list never exceeds max_subscriptions, by whatever sequence of
\* subscribe, unsubscribe and sync.
THEOREM CapacityKept == Spec => []WithinCapacity
<1>1. IInv => WithinCapacity
  BY DEF IInv
<1> QED
  BY Inductive, <1>1, PTL

-----------------------------------------------------------------------------
LEMMA RetiredInit == Init => RetiredStayOut
  BY DEF Init, RetiredStayOut

\* Retiring an owner and installing another are one step, and only owners that
\* were not retired are installed.
LEMMA RetiredStep == TypeOK /\ RetiredStayOut /\ [Next]_vars => RetiredStayOut'
<1> SUFFICES ASSUME TypeOK, RetiredStayOut, [Next]_vars PROVE RetiredStayOut'
  OBVIOUS
<1>1. ASSUME NEW o \in Ids, RegisterOwner(o) PROVE RetiredStayOut'
  BY <1>1 DEF RegisterOwner, Admits, NewOwner, RetiredStayOut
<1>2. ASSUME NEW o \in Ids, TakeOver(o) PROVE RetiredStayOut'
  BY <1>2 DEF TakeOver, Admits, NewOwner, RetiredStayOut
<1>3. ASSUME UNCHANGED <<ownerId, retired>> PROVE RetiredStayOut'
  BY <1>3 DEF RetiredStayOut
<1>4. ASSUME NEW o \in Ids, ContestOwner(o) PROVE RetiredStayOut'
  BY <1>3, <1>4 DEF ContestOwner
<1>5. ASSUME NEW g, Poll(g) PROVE RetiredStayOut'
  BY <1>3, <1>5 DEF Poll
<1>6. ASSUME NEW g, NEW rev, NEW active, NEW clean, NEW probed,
             PostResult(g, rev, active, clean, probed)
      PROVE  RetiredStayOut'
  BY <1>3, <1>6 DEF PostResult
<1>7. ASSUME ControlNext PROVE RetiredStayOut'
  BY <1>3, <1>7 DEF ControlNext, Subscribe, Unsubscribe, Sync, Mutate, GetSubscriptions,
     WaitEnds, WaitTimesOut, Finish, ownerVars
<1>8. ASSUME Tick PROVE RetiredStayOut'
  BY <1>3, <1>8 DEF Tick
<1>9. ASSUME UNCHANGED vars PROVE RetiredStayOut'
  BY <1>3, <1>9 DEF vars, ownerVars
<1> QED
  BY <1>1, <1>2, <1>4, <1>5, <1>6, <1>7, <1>8, <1>9 DEF Next, BridgeNext, PostSnapshot

\* An owner that was replaced while fresh never comes back: two bridge
\* processes that live side by side cannot take the lease from each other for
\* ever.
THEOREM RetiredOut == Spec => []RetiredStayOut
<1> QED
  BY TypeCorrect, RetiredInit, RetiredStep, PTL DEF Spec

-----------------------------------------------------------------------------
(* The gateway beside its bridges. *)

Polled == [revision : Nat, desired : SUBSET Symbols, probe : Nat,
           unsubscribe : SUBSET Symbols, subscribe : SUBSET Symbols]
BridgeState == [at : Places, lease : Nat, known : SUBSET Symbols, tried : Int, probed : Nat,
                age : Nat, sock : Int, got : Polled]

SystemTypeOK ==
  /\ bridge \in [Ids -> BridgeState]
  /\ native \subseteq Symbols
  /\ waited \subseteq Ids
  /\ faults \in 0..MaxFaults
  /\ shown \in [Clients -> SUBSET (SUBSET Symbols)]

Leads(b) == bridge[b].lease = generation /\ ownerId # NoOwner
HasPoll(s) == s.at \in {"reconcile", "report"}

\* What a process that leads has in hand was given out by this gateway.
InHand(s) ==
  /\ s.probed <= probe /\ s.tried <= revision
  /\ s.got.revision <= revision /\ s.got.probe <= probe
  /\ s.at = "reconcile" => s.got.probe >= s.probed

LeaseInv ==
  /\ ownerId # NoOwner => generation >= 1
  /\ \A b \in Ids :
       /\ bridge[b].lease <= generation
       /\ HasPoll(bridge[b]) \/ bridge[b].got = NoPoll
       /\ Leads(b) => ownerId = b /\ InHand(bridge[b]) /\ probeDone <= bridge[b].probed

\* A list that was read, or reported, under the probe a read asked for is an
\* answer to that read.
ReadInv ==
  \A k \in Clients : call[k].op = "get" =>
    /\ call[k].number >= 1
    /\ \A b \in Ids :
         Leads(b) /\ bridge[b].probed >= call[k].number => bridge[b].known \in shown[k]
    /\ probeDone >= call[k].number => reported \in shown[k]

BridgeInv == LeaseInv /\ ReadInv
SystemInv == IInv /\ SystemTypeOK /\ BridgeInv

-----------------------------------------------------------------------------
(* The steps that leave the lease alone. *)

\* What such a step may do with a bridge.
Works(b) ==
  LET s == bridge[b]
      t == bridge'[b]
  IN  /\ t.lease \in {s.lease, 0}
      /\ HasPoll(t) \/ t.got = NoPoll
      /\ Leads(b) /\ t.lease = s.lease =>
           /\ s.probed <= t.probed /\ t.probed <= probe /\ t.tried <= revision
           /\ t.got.revision <= revision /\ t.got.probe <= probe
           /\ t.at = "reconcile" => t.got.probe >= t.probed
           /\ \/ t.known = native'
              \/ t.probed = s.probed /\ t.known = s.known
              \/ t.probed = s.probed /\ At(b, "reconcile")

\* What such a step may do with a request: a read that begins asks for the
\* next probe.
Asks(k) ==
  call'[k].op = "get" =>
    \/ call[k].op = "get" /\ call'[k].number = call[k].number
    \/ call[k].op # "get" /\ call'[k].number = probe + 1

\* What such a step may do with the gateway.
Posts(b) == Leads(b) /\ reported' = bridge[b].known /\ probeDone' = ProbeAfter(bridge[b].probed)

LeaseKept ==
  /\ UNCHANGED <<ownerId, generation>>
  /\ revision' \in Nat /\ revision' >= revision
  /\ probe' \in Nat /\ probe' >= probe
  /\ \A k \in Clients : Asks(k)
  /\ UNCHANGED <<reported, probeDone>> \/ \E b \in Ids : Posts(b)

\* The numbers of the gateway, as the proofs use them.
LEMMA NumbersTyped ==
  ASSUME SystemInv
  PROVE  /\ generation \in Nat /\ revision \in Nat /\ probe \in Nat
         /\ probeDone \in Nat /\ probeDone <= probe
         /\ ownerId \in Ids \cup {NoOwner}
         /\ \A b \in Ids : bridge[b] \in BridgeState
         /\ \A k \in Clients : call[k].op = "get" => call[k].number \in Nat
<1>1. \A k \in Clients : call[k].op = "get" => call[k].number \in Nat
  BY CallTyped DEF SystemInv, IInv, NoCall
<1> QED
  BY <1>1 DEF SystemInv, IInv, TypeOK, SystemTypeOK

LEMMA ProbeAfterBound ==
  ASSUME SystemInv, NEW p \in Nat
  PROVE  /\ ProbeAfter(p) \in Nat /\ ProbeAfter(p) <= probe
         /\ ProbeAfter(p) = probeDone \/ ProbeAfter(p) = p
  BY NumbersTyped DEF ProbeAfter

\* The lease invariant over such a step.
LEMMA LeaseKeptStep ==
  ASSUME SystemInv, SystemTypeOK', LeaseKept, \A b \in Ids : Works(b)
  PROVE  LeaseInv'
<1>1. /\ generation \in Nat /\ revision \in Nat /\ probe \in Nat /\ probeDone \in Nat
      /\ generation' = generation /\ ownerId' = ownerId
      /\ revision' \in Nat /\ revision' >= revision /\ probe' \in Nat /\ probe' >= probe
  BY NumbersTyped DEF LeaseKept
<1>2. ownerId' # NoOwner => generation' >= 1
  BY <1>1 DEF SystemInv, BridgeInv, LeaseInv
<1>3. ASSUME NEW b \in Ids
      PROVE  /\ bridge'[b].lease <= generation'
             /\ HasPoll(bridge'[b]) \/ bridge'[b].got = NoPoll
             /\ Leads(b)' => Leads(b) /\ bridge'[b].lease = bridge[b].lease
  <2>1. /\ bridge[b].lease \in Nat /\ bridge'[b].lease \in Nat
        /\ bridge[b].lease <= generation
        /\ ownerId # NoOwner => generation >= 1
    BY <1>3 DEF SystemInv, BridgeInv, LeaseInv, SystemTypeOK, BridgeState
  <2>2. bridge'[b].lease \in {bridge[b].lease, 0}
    BY <1>3 DEF Works
  <2>3. HasPoll(bridge'[b]) \/ bridge'[b].got = NoPoll
    BY <1>3 DEF Works
  <2> QED
    BY <1>1, <2>1, <2>2, <2>3 DEF Leads
<1>4. ASSUME NEW b \in Ids, Leads(b)'
      PROVE  /\ ownerId' = b /\ InHand(bridge[b])' /\ probeDone' <= bridge'[b].probed
  <2>1. Leads(b) /\ bridge'[b].lease = bridge[b].lease
    BY <1>3, <1>4
  <2>2. ownerId = b /\ probeDone <= bridge[b].probed
    BY <1>4, <2>1 DEF SystemInv, BridgeInv, LeaseInv
  <2>3. /\ bridge[b].probed <= bridge'[b].probed /\ bridge'[b].probed <= probe
        /\ bridge'[b].tried <= revision
        /\ bridge'[b].got.revision <= revision /\ bridge'[b].got.probe <= probe
        /\ bridge'[b].at = "reconcile" => bridge'[b].got.probe >= bridge'[b].probed
    BY <1>4, <2>1 DEF Works
  <2>4. /\ bridge'[b].probed \in Nat /\ bridge'[b].tried \in Int /\ bridge[b].probed \in Nat
        /\ bridge'[b].got.revision \in Nat /\ bridge'[b].got.probe \in Nat
    BY <1>4 DEF SystemTypeOK, BridgeState, Polled, SystemInv
  <2>5. InHand(bridge[b])'
    BY <1>1, <2>3, <2>4 DEF InHand
  <2>6. probeDone' <= bridge'[b].probed
    <3>1. CASE probeDone' = probeDone
      BY <1>1, <2>2, <2>3, <2>4, <3>1
    <3>2. ASSUME NEW c \in Ids, Posts(c)
          PROVE  probeDone' <= bridge'[b].probed
      <4>1. c = b
        BY <2>2, <3>2 DEF SystemInv, BridgeInv, LeaseInv, Posts
      <4>2. probeDone' = probeDone \/ probeDone' = bridge[b].probed
        BY <2>4, <3>2, <4>1, ProbeAfterBound DEF Posts
      <4> QED
        BY <1>1, <2>2, <2>3, <2>4, <4>2
    <3> QED
      BY <3>1, <3>2 DEF LeaseKept
  <2> QED
    BY <1>1, <2>2, <2>5, <2>6
<1> QED
  BY <1>2, <1>3, <1>4 DEF LeaseInv

\* The reads over such a step.
LEMMA ReadKeptStep ==
  ASSUME SystemInv, SystemTypeOK', LeaseKept, Observe, LeaseInv', \A b \in Ids : Works(b)
  PROVE  ReadInv'
<1> SUFFICES ASSUME NEW k \in Clients, call'[k].op = "get"
             PROVE  /\ call'[k].number >= 1
                    /\ \A b \in Ids : Leads(b)' /\ bridge'[b].probed >= call'[k].number =>
                         bridge'[b].known \in shown'[k]
                    /\ probeDone' >= call'[k].number => reported' \in shown'[k]
  BY DEF ReadInv
<1>1. /\ generation \in Nat /\ revision \in Nat /\ probe \in Nat /\ probeDone \in Nat
      /\ probeDone <= probe
      /\ generation' = generation /\ ownerId' = ownerId
  BY NumbersTyped DEF LeaseKept
<1>2. \A b \in Ids : bridge[b].probed \in Nat /\ bridge'[b].probed \in Nat
  BY DEF SystemInv, SystemTypeOK, BridgeState
<1>3. \A b \in Ids : Leads(b)' =>
        /\ Leads(b) /\ bridge'[b].lease = bridge[b].lease
        /\ bridge[b].probed <= bridge'[b].probed /\ bridge'[b].probed <= probe
  <2> SUFFICES ASSUME NEW b \in Ids, Leads(b)'
               PROVE  /\ Leads(b) /\ bridge'[b].lease = bridge[b].lease
                      /\ bridge[b].probed <= bridge'[b].probed /\ bridge'[b].probed <= probe
    OBVIOUS
  <2>1. /\ bridge[b].lease \in Nat /\ bridge[b].lease <= generation
        /\ ownerId # NoOwner => generation >= 1
    BY DEF SystemInv, BridgeInv, LeaseInv, SystemTypeOK, BridgeState
  <2>2. bridge'[b].lease = bridge[b].lease /\ Leads(b)
    BY <1>1, <2>1 DEF Works, Leads
  <2> QED
    BY <2>2 DEF Works
<1>4. probeDone' \in Nat /\ probeDone' <= probe
  <2>1. CASE probeDone' = probeDone
    BY <1>1, <2>1
  <2>2. CASE \E b \in Ids : Posts(b)
    BY <1>2, <2>2, ProbeAfterBound DEF Posts
  <2> QED
    BY <2>1, <2>2 DEF LeaseKept
<1>5. CASE call[k].op # "get"
  <2>1. call'[k].number = probe + 1
    BY <1>5 DEF LeaseKept, Asks
  <2> QED
    BY <1>1, <1>2, <1>3, <1>4, <2>1
<1>6. CASE call[k].op = "get"
  <2>1. call'[k].number = call[k].number /\ call[k].number \in Nat
    BY <1>6, NumbersTyped DEF LeaseKept, Asks
  <2>2. shown'[k] = shown[k] \cup {native'} \cup Retold(k)
    BY <1>6 DEF Observe
  <2>3. /\ call[k].number >= 1
        /\ \A b \in Ids :
             Leads(b) /\ bridge[b].probed >= call[k].number => bridge[b].known \in shown[k]
        /\ probeDone >= call[k].number => reported \in shown[k]
    BY <1>6 DEF SystemInv, BridgeInv, ReadInv
  <2>4. ASSUME NEW b \in Ids, Leads(b)', bridge'[b].probed >= call[k].number
        PROVE  bridge'[b].known \in shown'[k]
    <3>1. /\ Leads(b) /\ bridge'[b].lease = bridge[b].lease
          /\ bridge[b].probed <= bridge'[b].probed
      BY <1>3, <2>4
    <3>2. CASE bridge'[b].known = native'
      BY <2>2, <3>2
    <3>3. CASE bridge'[b].probed = bridge[b].probed /\ bridge'[b].known = bridge[b].known
      BY <2>2, <2>3, <2>4, <3>1, <3>3
    <3>4. CASE bridge'[b].probed = bridge[b].probed /\ At(b, "reconcile")
      <4>1. bridge[b].known \in shown[k]
        BY <2>3, <2>4, <3>1, <3>4
      <4>2. bridge'[b].known \in Retold(k)
        BY <3>4, <4>1 DEF Retold
      <4> QED
        BY <2>2, <4>2
    <3> QED
      BY <2>4, <3>1, <3>2, <3>3, <3>4 DEF Works
  <2>5. ASSUME probeDone' >= call[k].number PROVE reported' \in shown'[k]
    <3>1. CASE UNCHANGED <<reported, probeDone>>
      BY <2>2, <2>3, <2>5, <3>1
    <3>2. ASSUME NEW b \in Ids, Posts(b) PROVE reported' \in shown'[k]
      <4>1. Leads(b) /\ probeDone <= bridge[b].probed /\ bridge[b].probed \in Nat
        BY <1>2, <3>2 DEF Posts, SystemInv, BridgeInv, LeaseInv
      <4>2. probeDone' = probeDone \/ probeDone' = bridge[b].probed
        BY <3>2, <4>1, ProbeAfterBound DEF Posts
      <4>3. bridge[b].probed >= call[k].number
        BY <1>1, <2>1, <2>5, <4>1, <4>2
      <4> QED
        BY <2>2, <2>3, <3>2, <4>1, <4>3 DEF Posts
    <3> QED
      BY <3>1, <3>2 DEF LeaseKept
  <2> QED
    BY <2>1, <2>3, <2>4, <2>5
<1> QED
  BY <1>5, <1>6

LEMMA WorkStep ==
  ASSUME SystemInv, SystemTypeOK', LeaseKept, Observe, \A b \in Ids : Works(b)
  PROVE  BridgeInv'
  BY LeaseKeptStep, ReadKeptStep DEF BridgeInv

-----------------------------------------------------------------------------
(* The steps that end a lease. *)

\* A registration, whether or not the bridge hears of it: whoever led before
\* does so no more.
LEMMA RegisterStep ==
  ASSUME SystemInv, SystemTypeOK', NEW b \in Ids,
         ownerId' = b, generation' = generation + 1, probeDone' = 0,
         UNCHANGED <<revision, probe, call>>, Observe,
         \A c \in Ids \ {b} : bridge'[c] = bridge[c],
         bridge'[b].got = NoPoll, ~HasPoll(bridge'[b]),
         \/ bridge'[b].lease = bridge[b].lease
         \/ /\ bridge'[b].lease = generation'
            /\ bridge'[b].probed = 0 /\ bridge'[b].tried = -1
  PROVE  BridgeInv'
<1>1. /\ generation \in Nat /\ revision \in Nat /\ probe \in Nat
      /\ b # NoOwner /\ 0 <= probe
  BY NumbersTyped, TdxAssumption
<1>2. \A c \in Ids : bridge[c].lease \in Nat /\ bridge[c].lease <= generation
  BY DEF SystemInv, SystemTypeOK, BridgeState, BridgeInv, LeaseInv
<1>3. \A c \in Ids : Leads(c)' =>
        c = b /\ bridge'[b].lease = generation' /\ bridge'[b].probed = 0 /\ bridge'[b].tried = -1
  BY <1>1, <1>2 DEF Leads
<1>4. LeaseInv'
  <2>1. ASSUME NEW c \in Ids
        PROVE  bridge'[c].lease <= generation' /\ (HasPoll(bridge'[c]) \/ bridge'[c].got = NoPoll)
    <3>1. CASE c = b
      BY <1>1, <1>2, <3>1
    <3>2. CASE c # b
      BY <1>1, <1>2, <3>2 DEF SystemInv, BridgeInv, LeaseInv
    <3> QED
      BY <3>1, <3>2
  <2>2. ASSUME NEW c \in Ids, Leads(c)'
        PROVE  ownerId' = c /\ InHand(bridge[c])' /\ probeDone' <= bridge'[c].probed
    <3>1. c = b /\ bridge'[b].probed = 0 /\ bridge'[b].tried = -1
      BY <1>3, <2>2
    <3>2. InHand(bridge[c])'
      BY <1>1, <3>1 DEF InHand, NoPoll, HasPoll
    <3> QED
      BY <3>1, <3>2
  <2> QED
    BY <1>1, <2>1, <2>2 DEF LeaseInv
<1>5. ReadInv'
  <2> SUFFICES ASSUME NEW k \in Clients, call'[k].op = "get"
               PROVE  /\ call'[k].number >= 1
                      /\ \A c \in Ids : Leads(c)' /\ bridge'[c].probed >= call'[k].number =>
                           bridge'[c].known \in shown'[k]
                      /\ probeDone' >= call'[k].number => reported' \in shown'[k]
    BY DEF ReadInv
  <2>1. call[k].op = "get" /\ call'[k].number = call[k].number
    OBVIOUS
  <2>2. call'[k].number \in Nat /\ call'[k].number >= 1
    BY <2>1, NumbersTyped DEF SystemInv, BridgeInv, ReadInv
  <2> QED
    BY <1>3, <2>2
<1> QED
  BY <1>4, <1>5 DEF BridgeInv

\* A restart: nobody leads, and nobody waits.
LEMMA RestartStep ==
  ASSUME SystemInv, DatasourceRestart
  PROVE  BridgeInv'
<1>1. /\ generation' = generation /\ ownerId' = NoOwner
      /\ call' = [k \in Clients |-> NoCall]
      /\ \A b \in Ids : /\ bridge'[b].lease = bridge[b].lease
                        /\ bridge'[b].at = bridge[b].at
                        /\ bridge'[b].got = bridge[b].got
  BY DEF DatasourceRestart, SystemInv, SystemTypeOK, BridgeState
<1>2. LeaseInv'
  BY <1>1 DEF LeaseInv, SystemInv, BridgeInv, Leads, HasPoll
<1>3. ReadInv'
  BY <1>1 DEF ReadInv, NoCall
<1> QED
  BY <1>2, <1>3 DEF BridgeInv

-----------------------------------------------------------------------------
(* The bridges, one at a time. *)

\* A bridge is in another state, and the others are where they were.
LEMMA BecomesOne ==
  ASSUME SystemTypeOK, NEW b \in Ids, NEW t \in BridgeState, Becomes(b, t)
  PROVE  /\ bridge' \in [Ids -> BridgeState]
         /\ bridge'[b] = t
         /\ \A c \in Ids \ {b} : bridge'[c] = bridge[c]
  BY DEF SystemTypeOK, Becomes

\* What a bridge has in hand stays as it is: its response to a poll is kept,
\* or dropped, and only its place, its age and its connection change.
SameWork(s, t) ==
  /\ t.lease = s.lease /\ t.known = s.known /\ t.tried = s.tried /\ t.probed = s.probed
  /\ t.got = s.got \/ t.got = NoPoll
  /\ HasPoll(t) \/ t.got = NoPoll
  /\ t.at = "reconcile" => s.at = "reconcile" /\ t.got = s.got

LEMMA SameWorks ==
  ASSUME SystemInv, NEW b \in Ids, SameWork(bridge[b], bridge'[b])
  PROVE  Works(b)
<1>1. revision \in Nat /\ probe \in Nat /\ bridge[b].probed \in Nat
  BY NumbersTyped DEF BridgeState
<1>2. Leads(b) => InHand(bridge[b])
  BY DEF SystemInv, BridgeInv, LeaseInv
<1> QED
  BY <1>1, <1>2 DEF Works, SameWork, InHand, NoPoll

LEMMA UnchangedWorks ==
  ASSUME SystemInv, NEW b \in Ids, bridge'[b] = bridge[b]
  PROVE  Works(b)
<1>1. SameWork(bridge[b], bridge'[b])
  BY DEF SameWork, HasPoll, SystemInv, BridgeInv, LeaseInv
<1> QED
  BY <1>1, SameWorks

\* GoesTo, and the exit of a process.
LEMMA GoesToWorks ==
  ASSUME SystemInv, NEW b \in Ids, NEW place \in Places \ {"reconcile", "report"},
         GoesTo(b, place)
  PROVE  /\ bridge' \in [Ids -> BridgeState]
         /\ bridge'[b] = [bridge[b] EXCEPT !.at = place, !.got = NoPoll]
         /\ \A c \in Ids \ {b} : bridge'[c] = bridge[c]
         /\ \A c \in Ids : Works(c)
<1> DEFINE t == [bridge[b] EXCEPT !.at = place, !.got = NoPoll]
<1>1. bridge[b] \in BridgeState /\ NoPoll \in Polled
  BY NumbersTyped DEF NoPoll, Polled
<1>2. t \in BridgeState
  BY <1>1 DEF BridgeState
<1>3. Becomes(b, t)
  BY DEF GoesTo
<1>4. SameWork(bridge[b], t)
  BY <1>1 DEF SameWork, HasPoll, BridgeState
<1> HIDE DEF t
<1>5. /\ bridge' \in [Ids -> BridgeState] /\ bridge'[b] = t
      /\ \A c \in Ids \ {b} : bridge'[c] = bridge[c]
  BY <1>2, <1>3, BecomesOne DEF SystemInv
<1>6. Works(b)
  BY <1>4, <1>5, SameWorks
<1>7. \A c \in Ids : Works(c)
  BY <1>5, <1>6, UnchangedWorks
<1> QED
  BY <1>5, <1>7 DEF t

LEMMA CallFailedWorks ==
  ASSUME SystemInv, NEW b \in Ids, CallFailed(b)
  PROVE  /\ bridge' \in [Ids -> BridgeState]
         /\ bridge'[b].got = NoPoll /\ ~HasPoll(bridge'[b]) /\ bridge'[b].lease = bridge[b].lease
         /\ \A c \in Ids \ {b} : bridge'[c] = bridge[c]
         /\ \A c \in Ids : Works(c)
<1> DEFINE place == IF At(b, "start") THEN "start" ELSE "connect"
<1>1. place \in Places \ {"reconcile", "report"} /\ GoesTo(b, place)
  BY DEF CallFailed, Places
<1>2. bridge[b] \in BridgeState
  BY NumbersTyped
<1> HIDE DEF place
<1>3. /\ bridge' \in [Ids -> BridgeState]
      /\ bridge'[b] = [bridge[b] EXCEPT !.at = place, !.got = NoPoll]
      /\ \A c \in Ids \ {b} : bridge'[c] = bridge[c]
      /\ \A c \in Ids : Works(c)
  BY <1>1, GoesToWorks
<1> QED
  BY <1>1, <1>2, <1>3 DEF HasPoll, BridgeState

LEMMA FencedWorks ==
  ASSUME SystemInv, NEW b \in Ids, Fenced(b)
  PROVE  bridge' \in [Ids -> BridgeState] /\ \A c \in Ids : Works(c)
<1>1. CASE ~Fresh
  BY <1>1, GoesToWorks DEF Fenced, Places
<1>2. CASE Fresh
  <2> DEFINE t == [NewBridge EXCEPT !.at = "exited"]
  <2>1. t \in BridgeState
    BY SystemAssumption DEF NewBridge, BridgeState, Polled, NoPoll, NoSocket, Places
  <2>2. Becomes(b, t)
    BY <1>2 DEF Fenced
  <2>3. t.lease = 0 /\ t.got = NoPoll /\ t.probed = 0 /\ t.known = {}
    BY DEF NewBridge
  <2>4. ~HasPoll(t)
    BY DEF NewBridge, HasPoll
  <2> HIDE DEF t
  <2>5. /\ bridge' \in [Ids -> BridgeState] /\ bridge'[b] = t
        /\ \A c \in Ids \ {b} : bridge'[c] = bridge[c]
    BY <2>1, <2>2, BecomesOne DEF SystemInv
  <2>6. ~Leads(b)
    BY <1>2 DEF Fenced, HoldsLease, Leads
  <2>7. Works(b)
    BY <2>3, <2>5, <2>6 DEF Works
  <2> QED
    BY <2>5, <2>7, UnchangedWorks
<1> QED
  BY <1>1, <1>2

-----------------------------------------------------------------------------
(* The gateway's part of a step. *)

\* The calls of the gateway that only refresh the lease or change nothing.
LEMMA LeaseKeptIdle ==
  ASSUME SystemInv,
         UNCHANGED <<ownerId, generation, revision, probe, reported, probeDone, call>>
  PROVE  LeaseKept
  BY NumbersTyped DEF LeaseKept, Asks

LEMMA IdleKeeps ==
  ASSUME SystemInv, GatewayIdle
  PROVE  IInv' /\ LeaseKept
<1>1. UNCHANGED <<ownerVars, nativeVars, desiredVars, probe, call>> /\ Silent
  BY DEF GatewayIdle, gatewayVars
<1>2. IInv'
  BY <1>1, NativeStep DEF SystemInv, IInv, TypeOK, ownerVars
<1>3. LeaseKept
  BY <1>1, LeaseKeptIdle DEF ownerVars, nativeVars, desiredVars
<1> QED
  BY <1>2, <1>3

LEMMA PollKeeps ==
  ASSUME SystemInv, NEW g, Poll(g)
  PROVE  IInv' /\ LeaseKept
<1>1. IInv'
  BY PollStep DEF SystemInv
<1>2. LeaseKept
  BY LeaseKeptIdle DEF Poll, nativeVars, desiredVars
<1> QED
  BY <1>1, <1>2

LEMMA PostKeeps ==
  ASSUME SystemInv, NEW b \in Ids,
         PostResult(bridge[b].lease, bridge[b].got.revision, bridge[b].known,
                    bridge[b].got.desired \subseteq bridge[b].known, bridge[b].probed)
  PROVE  IInv' /\ LeaseKept
<1> DEFINE clean == bridge[b].got.desired \subseteq bridge[b].known
<1>1. /\ bridge[b].got.revision \in Nat /\ bridge[b].known \in SUBSET Symbols
      /\ bridge[b].probed \in Nat
  BY NumbersTyped DEF BridgeState, Polled
<1>2. clean \in BOOLEAN
  OBVIOUS
<1>3. PostResult(bridge[b].lease, bridge[b].got.revision, bridge[b].known, clean,
                 bridge[b].probed)
  OBVIOUS
<1> HIDE DEF clean
<1>4. IInv'
  BY <1>1, <1>2, <1>3, PostStep DEF SystemInv
<1>5. Leads(b)
  BY <1>3 DEF PostResult, HoldsLease, Fresh, Leads
<1>6. UNCHANGED <<reported, probeDone>> \/ Posts(b)
  BY <1>3, <1>5 DEF PostResult, nativeVars, Posts
<1>7. /\ UNCHANGED <<ownerId, generation, revision, probe, call>>
      /\ revision \in Nat /\ probe \in Nat
  BY <1>3, NumbersTyped DEF PostResult, desiredVars
<1>8. LeaseKept
  BY <1>6, <1>7 DEF LeaseKept, Asks
<1> QED
  BY <1>4, <1>8

\* A control request begins or ends.
LEMMA ControlKeeps ==
  ASSUME SystemInv, ControlNext
  PROVE  IInv' /\ LeaseKept
<1>1. IInv'
  BY ControlStep DEF SystemInv
<1>2. revision \in Nat /\ probe \in Nat
  BY NumbersTyped
<1>3. call \in [Clients -> Waiting \cup {NoCall}]
  BY DEF SystemInv, IInv, TypeOK
<1>4. ASSUME NEW k \in Clients, NEW op \in Mutations, NEW about, NEW symbols, NEW reordered,
             Mutate(k, op, about, symbols, reordered)
      PROVE  LeaseKept
  <2>1. UNCHANGED <<ownerId, generation, reported, probeDone, probe>>
    BY <1>4 DEF Mutate, ownerVars
  <2>2. revision' = revision \/ revision' = revision + 1
    BY <1>4 DEF Mutate, Desire, desiredVars
  <2> DEFINE c == [op |-> op, about |-> about, target |-> symbols,
                   number |-> revision', left |-> ControlTimeout]
  <2>3. call' = call \/ call' = [call EXCEPT ![k] = c]
    BY <1>4 DEF Mutate
  <2>4. c.op # "get"
    BY <1>4 DEF Mutations
  <2> HIDE DEF c
  <2>5. \A j \in Clients : Asks(j)
    BY <1>3, <2>3, <2>4 DEF Asks
  <2> QED
    BY <1>2, <2>1, <2>2, <2>5 DEF LeaseKept
<1>5. ASSUME NEW k \in Clients, GetSubscriptions(k)
      PROVE  LeaseKept
  <2>1. UNCHANGED <<ownerId, generation, reported, probeDone, revision>> /\ call[k] = NoCall
    BY <1>5 DEF GetSubscriptions, ownerVars, nativeVars, desiredVars, Idle
  <2>2. CASE UNCHANGED <<probe, call>>
    BY <2>1, <2>2, LeaseKeptIdle
  <2> DEFINE c == [op |-> "get", about |-> {}, target |-> {},
                   number |-> probe + 1, left |-> ControlTimeout]
  <2>3. CASE probe' = probe + 1 /\ call' = [call EXCEPT ![k] = c]
    <3>1. \A j \in Clients : Asks(j)
      BY <1>3, <2>1, <2>3 DEF Asks, NoCall
    <3> QED
      BY <1>2, <2>1, <2>3, <3>1 DEF LeaseKept
  <2> QED
    BY <1>5, <2>2, <2>3 DEF GetSubscriptions
<1>6. ASSUME NEW k \in Clients, NEW about, NEW result, Finish(k, about, result)
      PROVE  LeaseKept
  <2>1. UNCHANGED <<ownerId, generation, reported, probeDone, revision, probe>>
    BY <1>6 DEF Finish, ownerVars, nativeVars, desiredVars
  <2>2. \A j \in Clients : Asks(j)
    BY <1>3, <1>6 DEF Finish, Asks, NoCall
  <2> QED
    BY <1>2, <2>1, <2>2 DEF LeaseKept
<1>7. LeaseKept
  BY <1>4, <1>5, <1>6 DEF ControlNext, Subscribe, Unsubscribe, Sync, Mutations, WaitEnds,
     WaitTimesOut
<1> QED
  BY <1>1, <1>7

LEMMA TickKeeps ==
  ASSUME SystemInv, Tick
  PROVE  IInv' /\ LeaseKept
<1>1. IInv'
  BY TickStep DEF SystemInv
<1>2. \A k \in Clients : call'[k].op = call[k].op /\ call'[k].number = call[k].number
  <2> SUFFICES ASSUME NEW k \in Clients
               PROVE  call'[k].op = call[k].op /\ call'[k].number = call[k].number
    OBVIOUS
  <2>1. call[k] \in Waiting \cup {NoCall} /\ call'[k] = AgedCall(call[k])
    BY DEF SystemInv, IInv, TypeOK, Tick
  <2> QED
    BY <2>1 DEF AgedCall, Waiting, NoCall
<1>3. \A k \in Clients : Asks(k)
  BY <1>2 DEF Asks
<1>4. LeaseKept
  BY <1>3, NumbersTyped DEF Tick, LeaseKept, nativeVars, desiredVars
<1> QED
  BY <1>1, <1>4

-----------------------------------------------------------------------------
(* Whole steps. *)

LEMMA ObserveTyped ==
  ASSUME SystemTypeOK, bridge' \in [Ids -> BridgeState], native' \subseteq Symbols, Observe
  PROVE  shown' \in [Clients -> SUBSET (SUBSET Symbols)]
<1>1. \A k \in Clients : Retold(k) \subseteq SUBSET Symbols
  BY DEF Retold, BridgeState
<1>2. \A k \in Clients : shown'[k] \in SUBSET (SUBSET Symbols)
  BY <1>1 DEF Observe, SystemTypeOK
<1> QED
  BY <1>2 DEF Observe

\* Everything a step of a bridge must show.
LEMMA WorkDone ==
  ASSUME SystemInv, IInv', LeaseKept, Observe,
         bridge' \in [Ids -> BridgeState], \A b \in Ids : Works(b),
         native' \subseteq Symbols, waited' \subseteq Ids, Fault \/ UNCHANGED faults
  PROVE  SystemInv'
<1>1. faults' \in 0..MaxFaults
  BY SystemAssumption DEF SystemInv, SystemTypeOK, Fault
<1>2. SystemTypeOK'
  BY <1>1, ObserveTyped DEF SystemInv, SystemTypeOK
<1> QED
  BY <1>2, WorkStep DEF SystemInv

\* The state of the environment, when nothing of it changes.
LEMMA SurroundingsTyped ==
  ASSUME SystemInv
  PROVE  /\ native \subseteq Symbols /\ waited \subseteq Ids
         /\ bridge \in [Ids -> BridgeState]
         /\ \A b \in Ids : bridge[b] \in BridgeState /\ waited \cup {b} \subseteq Ids
  BY DEF SystemInv, SystemTypeOK

LEMMA StartStep ==
  ASSUME SystemInv, NEW b \in Ids, StartBridge(b), Observe
  PROVE  SystemInv'
<1>1. IInv' /\ LeaseKept
  BY IdleKeeps DEF StartBridge
<1>2. bridge' \in [Ids -> BridgeState] /\ \A c \in Ids : Works(c)
  BY GoesToWorks DEF StartBridge, Places
<1>3. faults' \in 0..MaxFaults
  BY SystemAssumption DEF StartBridge, SystemInv, SystemTypeOK
<1>4. SystemTypeOK'
  BY <1>2, <1>3, ObserveTyped, SurroundingsTyped DEF StartBridge, SystemInv, SystemTypeOK, Calls
<1> QED
  BY <1>1, <1>2, <1>4, WorkStep DEF SystemInv

LEMMA RegisterCallStep ==
  ASSUME SystemInv, NEW b \in Ids, Register(b), Observe
  PROVE  SystemInv'
<1>1. native' \subseteq Symbols /\ waited' \subseteq Ids /\ (Fault \/ UNCHANGED faults)
  BY SurroundingsTyped DEF Register, Calls
<1>2. IInv'
  <2>1. CASE RegisterOwner(b) \/ TakeOver(b) \/ ContestOwner(b)
    BY <2>1, OwnerStep DEF SystemInv
  <2>2. CASE GatewayIdle
    BY <2>2, IdleKeeps
  <2> QED
    BY <2>1, <2>2 DEF Register, Refused
<1>3. CASE RegisterOwner(b) \/ TakeOver(b)
  <2>1. /\ ownerId' = b /\ generation' = generation + 1 /\ probeDone' = 0
        /\ UNCHANGED <<revision, probe, call>>
    BY <1>3 DEF RegisterOwner, TakeOver, NewOwner, desiredVars
  <2>2. bridge[b] \in BridgeState /\ generation' \in Nat /\ ~HasPoll(bridge[b])
    BY <2>1, NumbersTyped DEF Register, HasPoll, At
  <2>3. /\ bridge' \in [Ids -> BridgeState]
        /\ bridge'[b].got = NoPoll /\ ~HasPoll(bridge'[b])
        /\ \A c \in Ids \ {b} : bridge'[c] = bridge[c]
        /\ \/ bridge'[b].lease = bridge[b].lease
           \/ /\ bridge'[b].lease = generation'
              /\ bridge'[b].probed = 0 /\ bridge'[b].tried = -1
    <3>1. CASE CallFailed(b)
      BY <3>1, CallFailedWorks
    <3>2. CASE Becomes(b, Registered(bridge[b], generation'))
      <4> DEFINE t == Registered(bridge[b], generation')
      <4>1. t \in BridgeState
        <5>1. /\ "connect" \in Places /\ {} \in SUBSET Symbols
              /\ -1 \in Int /\ 0 \in Nat /\ KeepAlive \in Nat
          BY SystemAssumption DEF Places
        <5> QED
          BY <2>2, <5>1 DEF Registered, BridgeState
      <4>2. bridge[b].got = NoPoll
        BY <2>2 DEF SystemInv, BridgeInv, LeaseInv
      <4>3. /\ t.got = NoPoll /\ ~HasPoll(t) /\ t.lease = generation'
            /\ t.probed = 0 /\ t.tried = -1
        BY <2>2, <4>2 DEF Registered, BridgeState, HasPoll
      <4>4. Becomes(b, t)
        BY <3>2
      <4> HIDE DEF t
      <4>5. /\ bridge' \in [Ids -> BridgeState] /\ bridge'[b] = t
            /\ \A c \in Ids \ {b} : bridge'[c] = bridge[c]
        BY <4>1, <4>4, BecomesOne DEF SystemInv
      <4> QED
        BY <4>3, <4>5
    <3>3. ~(ContestOwner(b) \/ Refused(b) \/ GatewayIdle)
      <4>1. generation' # generation
        BY <2>1, NumbersTyped
      <4> QED
        BY <4>1 DEF ContestOwner, Refused, GatewayIdle, gatewayVars, ownerVars
    <3> QED
      BY <3>1, <3>2, <3>3 DEF Register
  <2>4. SystemTypeOK'
    BY <1>1, <2>3, ObserveTyped, SystemAssumption DEF SystemInv, SystemTypeOK, Fault
  <2>5. BridgeInv'
    BY <2>1, <2>3, <2>4, RegisterStep
  <2> QED
    BY <1>2, <2>4, <2>5 DEF SystemInv
<1>4. CASE (ContestOwner(b) \/ Refused(b)) /\ UNCHANGED <<bridge, faults>>
  <2>1. LeaseKept
    BY <1>4, LeaseKeptIdle, IdleKeeps DEF ContestOwner, Refused, nativeVars, desiredVars
  <2>2. bridge' \in [Ids -> BridgeState] /\ \A c \in Ids : Works(c)
    BY <1>4, UnchangedWorks, SurroundingsTyped
  <2> QED
    BY <1>1, <1>2, <2>1, <2>2, WorkDone
<1>5. CASE GatewayIdle /\ CallFailed(b)
  <2>1. LeaseKept
    BY <1>5, IdleKeeps
  <2>2. ~HasPoll(bridge[b])
    BY DEF Register, HasPoll, At
  <2>3. bridge' \in [Ids -> BridgeState] /\ \A c \in Ids : Works(c)
    BY <1>5, <2>2, CallFailedWorks
  <2> QED
    BY <1>1, <1>2, <2>1, <2>3, WorkDone
<1> QED
  BY <1>3, <1>4, <1>5 DEF Register

LEMMA ConnectStep ==
  ASSUME SystemInv, NEW b \in Ids, Connect(b), Observe
  PROVE  SystemInv'
<1> DEFINE t == [bridge[b] EXCEPT !.at = "poll",
                   !.sock = IF @ # NoSocket THEN @ ELSE BoundTo(b)]
<1>1. bridge[b] \in BridgeState /\ BoundTo(b) \in Int /\ ~HasPoll(bridge[b])
  BY NumbersTyped DEF BoundTo, Connect, At, HasPoll
<1>2. t \in BridgeState
  BY <1>1 DEF BridgeState, Places
<1>3. SameWork(bridge[b], t)
  <2>1. bridge[b].got = NoPoll
    BY <1>1 DEF SystemInv, BridgeInv, LeaseInv
  <2> QED
    BY <1>1, <2>1 DEF SameWork, HasPoll, BridgeState
<1>4. Becomes(b, t)
  BY DEF Connect
<1> HIDE DEF t
<1>5. bridge' \in [Ids -> BridgeState] /\ \A c \in Ids : Works(c)
  BY <1>2, <1>3, <1>4, BecomesOne, SameWorks, UnchangedWorks DEF SystemInv
<1>6. IInv' /\ LeaseKept
  BY IdleKeeps DEF Connect
<1> QED
  BY <1>5, <1>6, WorkDone, SurroundingsTyped DEF Connect

LEMMA PushStep ==
  ASSUME SystemInv, NEW b \in Ids, NEW s \in Symbols, Push(b, s), Observe
  PROVE  SystemInv'
<1>1. IInv' /\ LeaseKept
  BY IdleKeeps, PollKeeps DEF Push, PostSnapshot
<1> DEFINE t == [bridge[b] EXCEPT !.sock = NoSocket]
<1>2. CASE Becomes(b, t)
  <2>1. t \in BridgeState
    BY NumbersTyped DEF BridgeState, NoSocket
  <2>2. SameWork(bridge[b], t)
    <3>1. bridge[b] \in BridgeState /\ (HasPoll(bridge[b]) \/ bridge[b].got = NoPoll)
      BY NumbersTyped DEF SystemInv, BridgeInv, LeaseInv
    <3> QED
      BY <3>1 DEF SameWork, HasPoll, BridgeState
  <2> HIDE DEF t
  <2>3. bridge' \in [Ids -> BridgeState] /\ \A c \in Ids : Works(c)
    BY <1>2, <2>1, <2>2, BecomesOne, SameWorks, UnchangedWorks DEF SystemInv
  <2> QED
    BY <1>1, <2>3, WorkDone, SurroundingsTyped DEF Push
<1>3. CASE UNCHANGED bridge
  <2>1. bridge' \in [Ids -> BridgeState] /\ \A c \in Ids : Works(c)
    BY <1>3, UnchangedWorks, SurroundingsTyped
  <2> QED
    BY <1>1, <2>1, WorkDone, SurroundingsTyped DEF Push
<1> QED
  BY <1>2, <1>3 DEF Push

\* The response to a poll is of this gateway.
LEMMA PollCallStep ==
  ASSUME SystemInv, NEW b \in Ids, PollGateway(b), Observe
  PROVE  SystemInv'
<1>1. native' \subseteq Symbols /\ waited' \subseteq Ids /\ (Fault \/ UNCHANGED faults)
  BY SurroundingsTyped DEF PollGateway, Calls
<1>2. IInv' /\ LeaseKept
  BY IdleKeeps, PollKeeps DEF PollGateway, Fenced
<1>3. ASSUME NEW pushing \in BOOLEAN,
             Becomes(b, [bridge[b] EXCEPT !.at = "reconcile", !.got = PollResponse(pushing)])
      PROVE  SystemInv'
  <2> DEFINE t == [bridge[b] EXCEPT !.at = "reconcile", !.got = PollResponse(pushing)]
  <2>1. /\ PollResponse(pushing) \in Polled
        /\ PollResponse(pushing).revision = revision /\ PollResponse(pushing).probe = probe
    BY DEF PollResponse, Polled, SystemInv, IInv, TypeOK
  <2>2. bridge[b] \in BridgeState /\ revision \in Nat /\ probe \in Nat
    BY NumbersTyped
  <2>3. t \in BridgeState
    BY <2>1, <2>2 DEF BridgeState, Places
  <2>4. /\ t.lease = bridge[b].lease /\ t.known = bridge[b].known /\ t.tried = bridge[b].tried
        /\ t.probed = bridge[b].probed /\ t.at = "reconcile"
        /\ t.got.revision = revision /\ t.got.probe = probe
    BY <2>1, <2>2 DEF BridgeState
  <2> HIDE DEF t
  <2>5. /\ bridge' \in [Ids -> BridgeState] /\ bridge'[b] = t
        /\ \A c \in Ids \ {b} : bridge'[c] = bridge[c]
    BY <1>3, <2>3, BecomesOne DEF SystemInv, t
  <2>6. Leads(b) => InHand(bridge[b])
    BY DEF SystemInv, BridgeInv, LeaseInv
  <2>7. bridge[b].probed \in Nat
    BY <2>2 DEF BridgeState
  <2>8. Works(b)
    BY <2>2, <2>4, <2>5, <2>6, <2>7 DEF Works, InHand, HasPoll
  <2>9. \A c \in Ids : Works(c)
    BY <2>5, <2>8, UnchangedWorks
  <2> QED
    BY <1>1, <1>2, <2>5, <2>9, WorkDone
<1>4. ASSUME Fenced(b) \/ CallFailed(b)
      PROVE  SystemInv'
  BY <1>1, <1>2, <1>4, WorkDone, FencedWorks, CallFailedWorks
<1> QED
  BY <1>3, <1>4 DEF PollGateway

\* The round at the terminal: the list is read under the probe of the poll, or
\* the memory of an earlier reading is kept.
LEMMA ReconcileStep ==
  ASSUME SystemInv, NEW b \in Ids, Reconcile(b), Observe
  PROVE  SystemInv'
<1>1. bridge[b] \in BridgeState /\ revision \in Nat /\ probe \in Nat
  BY NumbersTyped
<1>2. native' \subseteq Symbols
  <2>1. bridge[b].got.subscribe \subseteq Symbols /\ native \subseteq Symbols
    BY <1>1, SurroundingsTyped DEF BridgeState, Polled
  <2> QED
    BY <2>1 DEF Reconcile
<1>3. IInv' /\ LeaseKept
  BY IdleKeeps DEF Reconcile
<1>4. /\ Leads(b) => InHand(bridge[b])
      /\ At(b, "reconcile")
  BY DEF SystemInv, BridgeInv, LeaseInv, Reconcile
<1>5. /\ bridge[b].got.revision \in Nat /\ bridge[b].got.probe \in Nat
      /\ bridge[b].probed \in Nat /\ bridge[b].got \in Polled
  BY <1>1 DEF BridgeState, Polled
<1>6. bridge' \in [Ids -> BridgeState] /\ \A c \in Ids : Works(c)
  <2> DEFINE read == [bridge[b] EXCEPT !.at = "report", !.tried = bridge[b].got.revision,
                        !.age = 0, !.known = native', !.probed = bridge[b].got.probe]
             kept == [bridge[b] EXCEPT !.at = "report"]
  <2>1. CASE Becomes(b, read)
    <3>1. read \in BridgeState
      <4>1. /\ "report" \in Places /\ native' \in SUBSET Symbols
            /\ bridge[b].got.revision \in Int /\ 0 \in Nat
        BY <1>2, <1>5 DEF Places
      <4> QED
        BY <1>1, <1>5, <4>1 DEF BridgeState
    <3>2. /\ read.lease = bridge[b].lease /\ read.at = "report" /\ read.got = bridge[b].got
          /\ read.tried = bridge[b].got.revision /\ read.known = native'
          /\ read.probed = bridge[b].got.probe
      BY <1>1 DEF BridgeState
    <3> HIDE DEF read
    <3>3. /\ bridge' \in [Ids -> BridgeState] /\ bridge'[b] = read
          /\ \A c \in Ids \ {b} : bridge'[c] = bridge[c]
      BY <2>1, <3>1, BecomesOne DEF SystemInv
    <3>4. Works(b)
      BY <1>1, <1>4, <1>5, <3>2, <3>3 DEF Works, InHand, HasPoll, At
    <3> QED
      BY <3>3, <3>4, UnchangedWorks
  <2>2. CASE Becomes(b, kept)
    <3>1. kept \in BridgeState
      BY <1>1 DEF BridgeState, Places
    <3>2. SameWork(bridge[b], kept)
      BY <1>1 DEF SameWork, HasPoll, BridgeState
    <3> HIDE DEF kept
    <3> QED
      BY <2>2, <3>1, <3>2, BecomesOne, SameWorks, UnchangedWorks DEF SystemInv
  <2> QED
    BY <2>1, <2>2 DEF Reconcile
<1>7. waited' \subseteq Ids /\ (Fault \/ UNCHANGED faults)
  BY SurroundingsTyped DEF Reconcile
<1> QED
  BY <1>2, <1>3, <1>6, <1>7, WorkDone

\* A round that fails: what it did to the list it did to the memory too.
LEMMA ReconcileRaisesStep ==
  ASSUME SystemInv, NEW b \in Ids, ReconcileRaises(b), Observe
  PROVE  SystemInv'
<1>1. bridge[b] \in BridgeState /\ bridge[b].got \in Polled /\ native \subseteq Symbols
  BY NumbersTyped, SurroundingsTyped DEF BridgeState
<1>2. PICK removed \in {{}, bridge[b].got.unsubscribe}, added \in {{}, bridge[b].got.subscribe},
           listing \in BOOLEAN :
        /\ native' = (native \ removed) \cup added
        /\ Becomes(b, [bridge[b] EXCEPT
             !.at = "connect", !.got = NoPoll, !.known = (@ \ removed) \cup added,
             !.tried = IF listing THEN bridge[b].got.revision ELSE @,
             !.age = IF listing THEN 0 ELSE @])
  BY DEF ReconcileRaises
<1> DEFINE t == [bridge[b] EXCEPT
             !.at = "connect", !.got = NoPoll, !.known = (@ \ removed) \cup added,
             !.tried = IF listing THEN bridge[b].got.revision ELSE @,
             !.age = IF listing THEN 0 ELSE @]
<1>3. removed \subseteq Symbols /\ added \subseteq Symbols /\ native' \subseteq Symbols
  BY <1>1, <1>2 DEF Polled
<1>4. /\ "connect" \in Places /\ NoPoll \in Polled
      /\ (bridge[b].known \ removed) \cup added \in SUBSET Symbols
      /\ bridge[b].got.revision \in Int /\ 0 \in Nat
  BY <1>1, <1>3 DEF Places, NoPoll, Polled, BridgeState
<1>5. t \in BridgeState
  BY <1>1, <1>4 DEF BridgeState
<1>6. /\ t.lease = bridge[b].lease /\ t.at = "connect" /\ t.got = NoPoll
      /\ t.probed = bridge[b].probed
      /\ t.tried = bridge[b].tried \/ t.tried = bridge[b].got.revision
  BY <1>1 DEF BridgeState
<1>7. Becomes(b, t)
  BY <1>2
<1> HIDE DEF t
<1>8. /\ bridge' \in [Ids -> BridgeState] /\ bridge'[b] = t
      /\ \A c \in Ids \ {b} : bridge'[c] = bridge[c]
  BY <1>5, <1>7, BecomesOne DEF SystemInv
<1>9. Works(b)
  <2>1. revision \in Nat /\ probe \in Nat /\ bridge[b].probed \in Nat
    BY NumbersTyped DEF BridgeState
  <2>2. (Leads(b) => InHand(bridge[b])) /\ At(b, "reconcile")
    BY DEF SystemInv, BridgeInv, LeaseInv, ReconcileRaises
  <2> QED
    BY <1>6, <1>8, <2>1, <2>2 DEF Works, InHand, HasPoll, NoPoll
<1>10. \A c \in Ids : Works(c)
  BY <1>8, <1>9, UnchangedWorks
<1>11. IInv' /\ LeaseKept /\ waited' \subseteq Ids /\ Fault
  BY IdleKeeps, SurroundingsTyped DEF ReconcileRaises
<1> QED
  BY <1>3, <1>8, <1>10, <1>11, WorkDone

LEMMA ReportStep ==
  ASSUME SystemInv, NEW b \in Ids, Report(b), Observe
  PROVE  SystemInv'
<1>1. native' \subseteq Symbols /\ waited' \subseteq Ids /\ (Fault \/ UNCHANGED faults)
  BY SurroundingsTyped DEF Report, Calls
<1>2. IInv' /\ LeaseKept
  BY IdleKeeps, PostKeeps DEF Report, Fenced
<1>3. bridge' \in [Ids -> BridgeState] /\ \A c \in Ids : Works(c)
  BY GoesToWorks, FencedWorks, CallFailedWorks DEF Report, Places
<1> QED
  BY <1>1, <1>2, <1>3, WorkDone

\* Steps after which each bridge has the same work in hand.
LEMMA EnvironmentStep ==
  ASSUME SystemInv, Observe, IInv', LeaseKept,
         native' \subseteq Symbols, waited' \subseteq Ids, Fault \/ UNCHANGED faults,
         bridge' \in [Ids -> BridgeState], \A b \in Ids : SameWork(bridge[b], bridge'[b])
  PROVE  SystemInv'
  BY SameWorks, WorkDone

LEMMA SameWorkItself ==
  ASSUME SystemInv, NEW b \in Ids
  PROVE  bridge[b] \in BridgeState /\ SameWork(bridge[b], bridge[b])
<1>1. bridge[b] \in BridgeState /\ (HasPoll(bridge[b]) \/ bridge[b].got = NoPoll)
  BY NumbersTyped DEF SystemInv, BridgeInv, LeaseInv
<1> QED
  BY <1>1 DEF SameWork, HasPoll

LEMMA SameWorkAged ==
  ASSUME SystemInv, NEW b \in Ids, NEW age \in Nat
  PROVE  /\ [bridge[b] EXCEPT !.age = age] \in BridgeState
         /\ SameWork(bridge[b], [bridge[b] EXCEPT !.age = age])
  BY SameWorkItself DEF SameWork, HasPoll, BridgeState

LEMMA SameWorkConnected ==
  ASSUME SystemInv, NEW b \in Ids, NEW sock \in Int
  PROVE  /\ [bridge[b] EXCEPT !.sock = sock] \in BridgeState
         /\ SameWork(bridge[b], [bridge[b] EXCEPT !.sock = sock])
  BY SameWorkItself DEF SameWork, HasPoll, BridgeState

LEMMA HangStep ==
  ASSUME SystemInv, NEW b \in Ids, Hang(b), Observe
  PROVE  SystemInv'
<1>1. \A c \in Ids : SameWork(bridge[c], bridge'[c])
  BY SameWorkItself DEF Hang
<1> QED
  BY <1>1, EnvironmentStep, IdleKeeps, SurroundingsTyped DEF Hang, Calls

LEMMA DriftStep ==
  ASSUME SystemInv, TerminalDrifts, Observe
  PROVE  SystemInv'
<1>1. \A c \in Ids : SameWork(bridge[c], bridge'[c])
  BY SameWorkItself DEF TerminalDrifts
<1> QED
  BY <1>1, EnvironmentStep, IdleKeeps, SurroundingsTyped DEF TerminalDrifts

LEMMA ConnectionLostStep ==
  ASSUME SystemInv, NEW b \in Ids, ConnectionLost(b), Observe
  PROVE  SystemInv'
<1> DEFINE t == [bridge[b] EXCEPT !.sock = 0]
<1>1. t \in BridgeState /\ SameWork(bridge[b], t)
  BY SameWorkConnected
<1>2. Becomes(b, t)
  BY DEF ConnectionLost
<1> HIDE DEF t
<1>3. /\ bridge' \in [Ids -> BridgeState] /\ bridge'[b] = t
      /\ \A c \in Ids \ {b} : bridge'[c] = bridge[c]
  BY <1>1, <1>2, BecomesOne DEF SystemInv
<1>4. \A c \in Ids : SameWork(bridge[c], bridge'[c])
  BY <1>1, <1>3, SameWorkItself
<1> QED
  BY <1>3, <1>4, EnvironmentStep, IdleKeeps, SurroundingsTyped DEF ConnectionLost

LEMMA SystemTickStep ==
  ASSUME SystemInv, SystemTick, Observe
  PROVE  SystemInv'
<1>1. ASSUME NEW b \in Ids
      PROVE  bridge'[b] \in BridgeState /\ SameWork(bridge[b], bridge'[b])
  <2> DEFINE age == IF bridge[b].age < KeepAlive THEN bridge[b].age + 1 ELSE bridge[b].age
  <2>1. bridge[b] \in BridgeState
    BY NumbersTyped
  <2>2. bridge'[b] = [bridge[b] EXCEPT !.age = age]
    BY <2>1 DEF SystemTick, BridgeState
  <2>3. age \in Nat
    BY <2>1 DEF BridgeState
  <2> HIDE DEF age
  <2> QED
    BY <2>2, <2>3, SameWorkAged
<1>2. bridge' \in [Ids -> BridgeState]
  BY <1>1 DEF SystemTick
<1>3. \A b \in Ids : SameWork(bridge[b], bridge'[b])
  BY <1>1
<1>4. IInv' /\ LeaseKept
  BY TickKeeps DEF SystemTick
<1> QED
  BY <1>2, <1>3, <1>4, EnvironmentStep, SurroundingsTyped DEF SystemTick

LEMMA ControlRequestStep ==
  ASSUME SystemInv, Control, Observe
  PROVE  SystemInv'
<1>1. \A b \in Ids : SameWork(bridge[b], bridge'[b])
  BY SameWorkItself DEF Control
<1> QED
  BY <1>1, EnvironmentStep, ControlKeeps, SurroundingsTyped DEF Control

LEMMA RestartKeeps ==
  ASSUME SystemInv, DatasourceRestart, Observe
  PROVE  SystemInv'
<1>1. ASSUME NEW b \in Ids
      PROVE  bridge'[b] \in BridgeState
  <2> DEFINE sock == IF bridge[b].sock > 0 THEN 0 ELSE bridge[b].sock
  <2>1. bridge[b] \in BridgeState
    BY NumbersTyped
  <2>2. bridge'[b] = [bridge[b] EXCEPT !.sock = sock]
    BY <2>1 DEF DatasourceRestart, BridgeState
  <2>3. sock \in Int
    BY <2>1 DEF BridgeState
  <2> HIDE DEF sock
  <2> QED
    BY <2>2, <2>3, SameWorkConnected
<1>2. bridge' \in [Ids -> BridgeState]
  BY <1>1 DEF DatasourceRestart
<1>3. SystemTypeOK'
  BY <1>2, ObserveTyped, SystemAssumption DEF SystemInv, SystemTypeOK, DatasourceRestart, Fault
<1>4. TypeOK'
  <2>1. call' \in [Clients -> Waiting \cup {NoCall}]
    BY DEF DatasourceRestart
  <2>2. candidate' \in [id : Ids \cup {NoOwner}, since : Nat, gap : Nat]
    BY DEF DatasourceRestart, NoCandidate
  <2>3. /\ answer'.op = "none" /\ answer'.about = {} /\ answer'.result = "none"
    BY DEF DatasourceRestart, Silent, NoAnswer
  <2>4. generation' \in Nat /\ probe' = 0 /\ probeDone' \in 0..probe'
    BY NumbersTyped DEF DatasourceRestart
  <2>5. /\ ownerId' = NoOwner /\ seenAge' = 0 /\ retired' = {} /\ desired' = {} /\ revision' = 0
        /\ converged' = NotConverged /\ observed' = {} /\ reported' = {} /\ failing' = FALSE
    BY DEF DatasourceRestart, Invalidate
  <2> QED
    BY <2>1, <2>2, <2>3, <2>4, <2>5 DEF TypeOK
<1>5. IInv'
  <2>1. GateInv'
    BY DEF GateInv, GateIsCurrent, HealthyMeansExact, DatasourceRestart, Invalidate, NotConverged
  <2>2. CallInv'
    BY NoCallIsIdle DEF CallInv, WaitIsForCurrent, RemembersSubscribe, DatasourceRestart
  <2>3. WithinCapacity' /\ SubscribedMeansLive'
    BY FS_EmptySet, TdxAssumption DEF WithinCapacity, SubscribedMeansLive, DatasourceRestart,
       Silent, NoAnswer
  <2> QED
    BY <1>4, <2>1, <2>2, <2>3 DEF IInv
<1> QED
  BY <1>3, <1>5, RestartStep DEF SystemInv

-----------------------------------------------------------------------------
LEMMA SystemInitInv == SystemInit => SystemInv
<1> SUFFICES ASSUME SystemInit PROVE SystemInv
  OBVIOUS
<1>1. IInv
  BY InitInv DEF SystemInit
<1>2. NewBridge \in BridgeState /\ NewBridge.got = NoPoll
  BY SystemAssumption DEF NewBridge, BridgeState, Polled, NoPoll, NoSocket, Places
<1>3. SystemTypeOK
  BY <1>2, SystemAssumption DEF SystemInit, SystemTypeOK
<1>4. BridgeInv
  BY <1>2 DEF SystemInit, Init, BridgeInv, LeaseInv, ReadInv, Leads, NewBridge, NoCall
<1> QED
  BY <1>1, <1>3, <1>4 DEF SystemInv

LEMMA SystemStep == SystemInv /\ [SystemNext]_sysVars => SystemInv'
<1> SUFFICES ASSUME SystemInv, [SystemNext]_sysVars PROVE SystemInv'
  OBVIOUS
<1>1. ASSUME NEW b \in Ids, BridgeLoop(b), Observe PROVE SystemInv'
  BY <1>1, RegisterCallStep, ConnectStep, PollCallStep, ReconcileStep, ReportStep
     DEF BridgeLoop
<1>2. CASE UNCHANGED sysVars
  <2>1. IInv'
    BY <1>2, StutterStep DEF SystemInv, sysVars, codeVars
  <2>2. SystemTypeOK' /\ BridgeInv'
    BY <1>2 DEF SystemInv, SystemTypeOK, BridgeInv, LeaseInv, ReadInv, Leads, InHand, HasPoll,
       sysVars, codeVars, vars, ownerVars, nativeVars, desiredVars
  <2> QED
    BY <2>1, <2>2 DEF SystemInv
<1> QED
  BY <1>1, <1>2, StartStep, ReconcileRaisesStep, PushStep, HangStep, ConnectionLostStep,
     DriftStep, RestartKeeps, SystemTickStep, ControlRequestStep
     DEF SystemNext

\* The conjunction the argument rests on is inductive.
THEOREM SystemInductive == SystemSpec => []SystemInv
<1> QED
  BY SystemInitInv, SystemStep, PTL DEF SystemSpec

\* The types of the gateway's state and of the bridges'.
THEOREM SystemTyped == SystemSpec => [](TypeOK /\ SystemTypeOK)
<1>1. SystemInv => TypeOK /\ SystemTypeOK
  BY DEF SystemInv, IInv
<1> QED
  BY SystemInductive, <1>1, PTL

\* What the gateway alone keeps it keeps beside real bridges, lost calls and
\* restarts: the gate, the health check, the waits, the answers to subscribes
\* and the capacity.
THEOREM SystemKeepsGateway ==
  SystemSpec => [](GateIsCurrent /\ HealthyMeansExact /\ WaitIsForCurrent
                     /\ SubscribedMeansLive /\ WithinCapacity)
<1>1. SystemInv =>
        GateIsCurrent /\ HealthyMeansExact /\ WaitIsForCurrent /\ SubscribedMeansLive
          /\ WithinCapacity
  BY DEF SystemInv, IInv, GateInv, CallInv
<1> QED
  BY SystemInductive, <1>1, PTL

\* At most one process leads, the one the gateway knows by name.
THEOREM OneLeader == SystemSpec => [](\A b \in Ids : Leads(b) => ownerId = b)
<1>1. SystemInv => \A b \in Ids : Leads(b) => ownerId = b
  BY DEF SystemInv, BridgeInv, LeaseInv
<1> QED
  BY SystemInductive, <1>1, PTL

\* A bridge that leads remembers no probe and no revision that this gateway
\* has not given out.
THEOREM LeaderInStep == SystemSpec => []InStep
<1>1. SystemInv => InStep
  BY DEF SystemInv, BridgeInv, LeaseInv, Leads, InHand, InStep
<1> QED
  BY SystemInductive, <1>1, PTL

\* What one step answers to a read.
LEMMA ReadAnswer ==
  ASSUME SystemInv, [SystemNext]_sysVars, NEW k \in Clients,
         call[k].op = "get", call'[k] = NoCall, answer'.result = "success"
  PROVE  answer'.about \in shown[k]
<1>1. call \in [Clients -> Waiting \cup {NoCall}] /\ NoCall.op # "get"
  BY DEF SystemInv, IInv, TypeOK, NoCall
<1>2. answer' # NoAnswer
  BY DEF NoAnswer
<1>3. Control
  <2>1. ASSUME GatewayIdle PROVE FALSE
    BY <1>2, <2>1 DEF GatewayIdle, Silent
  <2>2. ASSUME NEW g, Poll(g) PROVE FALSE
    BY <1>2, <2>2 DEF Poll, Silent
  <2>3. ASSUME NEW g, NEW rev, NEW active, NEW clean, NEW probed,
               PostResult(g, rev, active, clean, probed)
        PROVE  FALSE
    BY <1>2, <2>3 DEF PostResult, Silent
  <2>4. ASSUME NEW o, RegisterOwner(o) \/ ContestOwner(o) \/ TakeOver(o) PROVE FALSE
    BY <1>2, <2>4 DEF RegisterOwner, ContestOwner, TakeOver, Silent
  <2>5. ASSUME DatasourceRestart \/ Tick PROVE FALSE
    BY <1>2, <2>5 DEF DatasourceRestart, Tick, Silent
  <2>6. ASSUME UNCHANGED sysVars PROVE FALSE
    BY <1>1, <2>6 DEF sysVars, codeVars, vars
  <2>7. ASSUME NEW b \in Ids, BridgeLoop(b) PROVE FALSE
    BY <2>1, <2>2, <2>3, <2>4, <2>7
       DEF BridgeLoop, Register, Refused, Connect, PollGateway, Fenced, Reconcile, Report
  <2> QED
    BY <2>1, <2>2, <2>5, <2>6, <2>7
       DEF SystemNext, StartBridge, ReconcileRaises, Push, PostSnapshot, Hang, ConnectionLost,
           TerminalDrifts, SystemTick
<1>4. PICK j \in Clients :
        \/ \E s \in Symbols : Subscribe(j, s) \/ Unsubscribe(j, s)
        \/ \E wanted \in SUBSET Symbols : \E symbols \in Truncations(wanted) :
             \E reordered \in BOOLEAN : Sync(j, symbols, reordered)
        \/ GetSubscriptions(j)
        \/ WaitEnds(j)
        \/ WaitTimesOut(j)
  BY <1>3 DEF Control, ControlNext
<1>5. ASSUME NEW op \in Mutations, NEW about, NEW symbols, NEW reordered,
             Mutate(j, op, about, symbols, reordered)
      PROVE  FALSE
  <2> DEFINE c == [op |-> op, about |-> about, target |-> symbols,
                   number |-> revision', left |-> ControlTimeout]
  <2>1. Idle(j) /\ (call' = call \/ call' = [call EXCEPT ![j] = c])
    BY <1>5 DEF Mutate
  <2> HIDE DEF c
  <2> QED
    BY <1>1, <2>1 DEF Idle
<1>6. ASSUME GetSubscriptions(j) PROVE FALSE
  BY <1>2, <1>6 DEF GetSubscriptions, Silent, Answered
<1>7. WaitEnds(j) \/ WaitTimesOut(j)
  BY <1>4, <1>5, <1>6 DEF Subscribe, Unsubscribe, Sync, Mutations
<1>8. j = k
  BY <1>1, <1>7 DEF WaitEnds, WaitTimesOut, Finish
<1>9. ProbeReached(call[k].number) /\ Finish(k, reported, "success")
  BY <1>7, <1>8 DEF WaitEnds, WaitTimesOut, Finish, Answered, Verdict, Mutations
<1>10. reported \in shown[k]
  BY <1>9 DEF ProbeReached, SystemInv, BridgeInv, ReadInv
<1> QED
  BY <1>9, <1>10 DEF Finish, Answered

\* A read that succeeds answers with a list the terminal had while the
\* request waited, or with what failed calls made of such a list.
THEOREM ReadsAreCurrent == SystemSpec => ReadIsCurrent
<1>1. SystemInv /\ [SystemNext]_sysVars =>
        [\A k \in Clients :
           call[k].op = "get" /\ call'[k] = NoCall /\ answer'.result = "success" =>
             answer'.about \in shown[k]]_sysVars
  BY ReadAnswer
<1> QED
  BY SystemInductive, <1>1, PTL DEF SystemSpec, ReadIsCurrent

\* What each step of the system does to the owners.
LEMMA SystemRetiredStep ==
  ASSUME SystemInv, RetiredStayOut, [SystemNext]_sysVars
  PROVE  RetiredStayOut'
<1>1. ASSUME NEW o \in Ids, RegisterOwner(o) \/ TakeOver(o) PROVE RetiredStayOut'
  BY <1>1 DEF RegisterOwner, TakeOver, Admits, NewOwner, RetiredStayOut
<1>2. ASSUME UNCHANGED <<ownerId, retired>> PROVE RetiredStayOut'
  BY <1>2 DEF RetiredStayOut
<1>3. ASSUME GatewayIdle PROVE RetiredStayOut'
  BY <1>2, <1>3 DEF GatewayIdle, gatewayVars, ownerVars
<1>4. ASSUME NEW g, Poll(g) PROVE RetiredStayOut'
  BY <1>2, <1>4 DEF Poll
<1>5. ASSUME NEW g, NEW rev, NEW active, NEW clean, NEW probed,
             PostResult(g, rev, active, clean, probed)
      PROVE  RetiredStayOut'
  BY <1>2, <1>5 DEF PostResult
<1>6. ASSUME NEW o \in Ids, ContestOwner(o) PROVE RetiredStayOut'
  BY <1>2, <1>6 DEF ContestOwner
<1>7. ASSUME Control \/ Tick \/ UNCHANGED sysVars PROVE RetiredStayOut'
  BY <1>2, <1>7 DEF Control, ControlNext, Subscribe, Unsubscribe, Sync, Mutate,
     GetSubscriptions, WaitEnds, WaitTimesOut, Finish, Tick, sysVars, codeVars, vars, ownerVars
<1>8. ASSUME DatasourceRestart PROVE RetiredStayOut'
  BY <1>8 DEF DatasourceRestart, RetiredStayOut
<1>9. ASSUME NEW b \in Ids, BridgeLoop(b) PROVE RetiredStayOut'
  BY <1>1, <1>3, <1>4, <1>5, <1>6, <1>9
     DEF BridgeLoop, Register, Refused, Connect, PollGateway, Fenced, Reconcile, Report
<1> QED
  BY <1>3, <1>4, <1>7, <1>8, <1>9
     DEF SystemNext, StartBridge, ReconcileRaises, Push, PostSnapshot, Hang, ConnectionLost,
         TerminalDrifts, SystemTick

\* An owner replaced while fresh stays out until the datasource restarts, also
\* when the answers to its registrations are lost.
THEOREM SystemRetiredOut == SystemSpec => []RetiredStayOut
<1>1. SystemInit => RetiredStayOut
  BY RetiredInit DEF SystemInit
<1> QED
  BY <1>1, SystemInductive, SystemRetiredStep, PTL DEF SystemSpec
=============================================================================
