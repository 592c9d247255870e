------------------------ MODULE StallRecoveryProofs ------------------------
(***************************************************************************)
(* Proofs about StallRecovery, for every activity window, grace period and *)
(* number of recovery rounds.                                              *)
(*                                                                         *)
(* A tick of the detector sets the state by the time and the last activity *)
(* of that moment; what has to be carried is that nothing else falls out   *)
(* of step with it before time passes, also while a synchronisation runs   *)
(* (Settled), and that the count the alarm goes by is never ahead of the   *)
(* rounds that were made (CountIsHonest).                                  *)
(***************************************************************************)
EXTENDS StallRecovery, TLAPS

\* The types of the detector, of the watchdog and of the history.
DetectorTypeOK ==
  /\ time \in 0 .. Day - 1
  /\ age \in 0 .. Never
  /\ state \in {"idle", "verified", "pushing"}
  /\ cycles \in 0 .. MaxCycles
  /\ escalated \in BOOLEAN
  /\ watchdog \in {"asleep", "due", "syncing"}
  /\ spent \in Nat
  /\ rounds \in 0 .. MaxCycles

\* No time has passed since the last tick of the detector, if there was one.
JustTicked == watchdog # "due" /\ spent = 0

\* Until time passes the state is what the window and the last activity say;
\* a detector without any activity yet is only known to be idle outside.
Settled ==
  JustTicked => /\ age # Never => state = Judged
                /\ ~InWindow => state = "idle"

\* The count of the detector forgets rounds at the end of a window, but it
\* never counts one that was not made.
CountIsHonest == cycles <= rounds

IInv == DetectorTypeOK /\ Settled /\ CountIsHonest /\ AlarmIsEarned

-----------------------------------------------------------------------------
LEMMA Numbers ==
  /\ Day \in Nat /\ Day > 0 /\ Grace \in Nat /\ MaxCycles \in Nat /\ MaxSync \in Nat
  /\ Old \in Nat /\ Old = Grace + MaxSync + 2 /\ Never = Old + 1
  BY StallAssumptions DEF Old, Never

LEMMA InitInv == Init => IInv
<1> SUFFICES ASSUME Init PROVE IInv
  OBVIOUS
<1>1. DetectorTypeOK
  <2>1. escalated \in BOOLEAN
    BY Zenon DEF Init
  <2>2. /\ time \in 0 .. Day - 1 /\ age \in 0 .. Never /\ cycles \in 0 .. MaxCycles
        /\ spent \in Nat /\ rounds \in 0 .. MaxCycles
    BY Numbers DEF Init
  <2> QED
    BY <2>1, <2>2 DEF Init, DetectorTypeOK
<1>2. Settled /\ CountIsHonest /\ AlarmIsEarned
  BY Numbers DEF Init, Settled, CountIsHonest, AlarmIsEarned
<1> QED
  BY <1>1, <1>2 DEF IInv

\* A round more never counts more than MaxCycles.
LEMMA NotedBounds ==
  ASSUME NEW n \in 0 .. MaxCycles, NEW m \in 0 .. MaxCycles, n <= m
  PROVE  /\ Noted(n) \in 0 .. MaxCycles
         /\ Noted(n) <= Noted(m)
         /\ n <= Noted(m)
         /\ m = MaxCycles => Noted(m) = MaxCycles
  BY Numbers DEF Noted

LEMMA CyclesJudgedBounds ==
  ASSUME DetectorTypeOK, CountIsHonest
  PROVE  CyclesJudged \in 0 .. MaxCycles /\ CyclesJudged <= rounds
  BY Numbers DEF CyclesJudged, DetectorTypeOK, CountIsHonest

-----------------------------------------------------------------------------
(* Which steps leave the detector alone, and what the others do to it. *)

\* Time, activity, detector and watchdog stand still.
Undisturbed == UNCHANGED <<time, detector, watchdog, spent, rounds>>

LEMMA UndisturbedInv == IInv /\ Undisturbed => IInv'
  BY DEF IInv, Undisturbed, detector, DetectorTypeOK, Settled, JustTicked, CountIsHonest,
         AlarmIsEarned, Judged, InWindow

LEMMA TickInv == IInv /\ Tick => IInv'
<1> SUFFICES ASSUME IInv, Tick PROVE IInv'
  OBVIOUS
<1>1. DetectorTypeOK'
  BY Numbers DEF IInv, Tick, DetectorTypeOK
<1>2. Settled'
  BY Numbers DEF IInv, Tick, DetectorTypeOK, Settled, JustTicked
<1>3. CountIsHonest'
  BY DEF IInv, Tick, CountIsHonest
<1>4. AlarmIsEarned'
  BY Numbers DEF IInv, Tick, DetectorTypeOK, AlarmIsEarned
<1> QED
  BY <1>1, <1>2, <1>3, <1>4 DEF IInv

\* What the two watchdogs have in common: the state is judged anew, at most
\* one round is counted, on both counters, and an alarm has its reasons.
Judges ==
  /\ watchdog = "due"
  /\ state' = Judged
  /\ \/ cycles' = CyclesJudged /\ rounds' = rounds
     \/ cycles' = Noted(CyclesJudged) /\ rounds' = Noted(rounds)
  /\ escalated' = (escalated \/ Escalates)
  /\ watchdog' \in {"asleep", "syncing"}
  /\ UNCHANGED <<time, age, spent>>

LEMMA WatchdogsJudge == TdxWatchdog \/ QmtWatchdog => Judges
  BY DEF TdxWatchdog, QmtWatchdog, Judges

LEMMA JudgesInv == IInv /\ Judges => IInv'
<1> SUFFICES ASSUME IInv, Judges PROVE IInv'
  OBVIOUS
<1> USE DEF IInv
<1>1. CyclesJudged \in 0 .. MaxCycles /\ CyclesJudged <= rounds
  BY CyclesJudgedBounds
<1>2. Judged' = Judged /\ InWindow' = InWindow
  BY DEF Judges, Judged, InWindow
<1>3. /\ cycles' \in 0 .. MaxCycles /\ rounds' \in 0 .. MaxCycles
      /\ cycles' <= rounds'
      /\ rounds = MaxCycles => rounds' = MaxCycles
  BY <1>1, NotedBounds DEF Judges, DetectorTypeOK
<1>4. DetectorTypeOK'
  BY <1>3 DEF Judges, DetectorTypeOK, Judged
<1>5. Settled'
  BY <1>2 DEF Judges, Settled, JustTicked, Judged
<1>6. AlarmIsEarned'
  <2>1. CASE escalated
    BY <2>1, <1>3, Numbers DEF Judges, AlarmIsEarned, DetectorTypeOK
  <2>2. CASE Escalates
    <3>1. rounds = MaxCycles
      BY <2>2, <1>1, Numbers DEF Escalates, DetectorTypeOK
    <3>2. age > Grace /\ age # Never
      BY <2>2, Numbers DEF Escalates, Judged, DetectorTypeOK
    <3> QED
      BY <3>1, <3>2, <1>3, Numbers DEF Judges, AlarmIsEarned
  <2> QED
    BY <2>1, <2>2 DEF Judges, AlarmIsEarned
<1> QED
  BY <1>3, <1>4, <1>5, <1>6 DEF CountIsHonest

LEMMA SyncEndsInv == IInv /\ SyncEnds => IInv'
<1> SUFFICES ASSUME IInv, SyncEnds PROVE IInv'
  OBVIOUS
<1> USE DEF IInv
<1>1. \/ cycles' = cycles /\ rounds' = rounds
      \/ cycles' = Noted(cycles) /\ rounds' = Noted(rounds)
  BY DEF SyncEnds
<1>2. /\ cycles' \in 0 .. MaxCycles /\ rounds' \in 0 .. MaxCycles
      /\ cycles' <= rounds'
      /\ rounds = MaxCycles => rounds' = MaxCycles
  BY <1>1, NotedBounds DEF DetectorTypeOK, CountIsHonest
<1>3. DetectorTypeOK'
  BY <1>2 DEF SyncEnds, DetectorTypeOK
<1>4. Settled'
  BY DEF SyncEnds, Settled, JustTicked, Judged, InWindow
<1>5. AlarmIsEarned'
  BY <1>2, Numbers DEF SyncEnds, AlarmIsEarned, DetectorTypeOK
<1> QED
  BY <1>2, <1>3, <1>4, <1>5 DEF CountIsHonest

LEMMA TouchInv ==
  ASSUME IInv, Touch, rounds' = 0, UNCHANGED <<time, watchdog, spent>>
  PROVE  IInv'
<1> USE DEF IInv
<1>1. DetectorTypeOK'
  <2>1. escalated' \in BOOLEAN
    BY Zenon DEF Touch
  <2>2. age' \in 0 .. Never /\ cycles' \in 0 .. MaxCycles /\ rounds' \in 0 .. MaxCycles
    BY Numbers DEF Touch
  <2>3. state' \in {"idle", "verified", "pushing"}
    BY DEF Touch, DetectorTypeOK
  <2> QED
    BY <2>1, <2>2, <2>3 DEF DetectorTypeOK
<1>2. InWindow' = InWindow
  BY DEF InWindow
<1>3. Settled'
  BY <1>2, Numbers DEF Touch, Settled, JustTicked, Judged
<1>4. CountIsHonest' /\ AlarmIsEarned'
  BY DEF Touch, CountIsHonest, AlarmIsEarned
<1> QED
  BY <1>1, <1>3, <1>4

-----------------------------------------------------------------------------
LEMMA NextInv == IInv /\ [Next]_vars => IInv'
<1> SUFFICES ASSUME IInv, [Next]_vars PROVE IInv'
  OBVIOUS
<1>1. CASE Tick
  BY <1>1, TickInv
<1>2. CASE TdxWatchdog \/ QmtWatchdog
  BY <1>2, WatchdogsJudge, JudgesInv
<1>3. CASE SyncEnds
  BY <1>3, SyncEndsInv
<1>4. CASE Observability
  BY <1>4, TouchInv DEF Observability
<1>5. CASE Snapshot
  BY <1>5, TouchInv DEF Snapshot
<1>6. CASE ClientSync \/ ClientSyncEnds \/ ClientSubscribe \/ Unblock
  BY <1>6, UndisturbedInv DEF ClientSync, ClientSyncEnds, ClientSubscribe, Unblock, Undisturbed
<1>7. CASE TdxDesire \/ Poll \/ BridgeRestart \/ FallSilent \/ ComeBack
  BY <1>7, UndisturbedInv DEF TdxDesire, Poll, BridgeRestart, FallSilent, ComeBack, Undisturbed
<1>8. CASE UNCHANGED vars
  BY <1>8, UndisturbedInv DEF vars, Undisturbed
<1> QED
  BY <1>1, <1>2, <1>3, <1>4, <1>5, <1>6, <1>7, <1>8 DEF Next

LEMMA Invariance == Spec => []IInv
  BY InitInv, NextInv, PTL DEF Spec

\* Every reachable state of detector and watchdog is well typed, and no
\* counter of rounds ever passes max_recovery_cycles.
THEOREM DetectorTyped == Spec => []DetectorTypeOK
  BY Invariance, PTL DEF IInv

\* Between two ticks of the detector its state, on which the hosts act, says
\* what the window and the last activity say.
THEOREM StateCurrent == Spec => []StateIsCurrent
<1>1. IInv => StateIsCurrent
  BY DEF IInv, Settled, JustTicked, StateIsCurrent
<1> QED
  BY <1>1, Invariance, PTL

\* An alarm that stands is over a silence longer than the grace period, in
\* which all the rounds were made.
THEOREM AlarmEarned == Spec => []AlarmIsEarned
  BY Invariance, PTL DEF IInv
=============================================================================
