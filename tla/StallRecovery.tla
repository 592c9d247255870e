---------------------------- MODULE StallRecovery ----------------------------
(***************************************************************************)
(* The recovery of subscriptions that have gone silent: the state machine  *)
(* of src/datasource/realtime/stall_detector.py, the watchdog that ticks   *)
(* it in the TDX gateway and in the QMT subscription controller, and what  *)
(* either does while the machine says "pushing" until data flows again.    *)
(*                                                                         *)
(* Time passes in watchdog periods.  `time' is the time of day, and `age'  *)
(* the time since the last activity, up to Old, from where on it no longer *)
(* matters.  `host' is chosen once: the TDX gateway re-issues the desired  *)
(* set to a bridge that polls; the QMT watchdog runs a full                *)
(* synchronisation itself, under the lock of the client commands.          *)
(*                                                                         *)
(* What a subscription is made of is left to the modules of the two hosts: *)
(* here it is held, by the registry or in the bridge's report, and alive,  *)
(* that is, the terminal pushes data for it.                               *)
(***************************************************************************)
EXTENDS Naturals

CONSTANTS
  Day,        \* the length of a day
  Segments,   \* the activity window: pairs <<start, end>> of times of day
  Grace,      \* stall_grace_seconds
  MaxCycles,  \* max_recovery_cycles
  MaxSync,    \* bound: periods that pass during one synchronisation
  MaxChanges  \* bound: changes of a TDX client from one set to another

ASSUME StallAssumptions ==
  /\ Day \in Nat \ {0}
  /\ Segments \subseteq (0 .. Day) \X (0 .. Day)
  /\ Grace \in Nat /\ MaxCycles \in Nat /\ MaxSync \in Nat /\ MaxChanges \in Nat

Old == Grace + MaxSync + 2   \* bound: ages beyond it count as it
Never == Old + 1             \* no activity since the start

VARIABLES
  host,        \* "tdx" or "qmt"
  time,        \* the time of day
  age,         \* how long ago _last_activity was, or Never
  state,       \* _state
  cycles,      \* _cycle_count
  escalated,   \* _escalated
  watchdog,    \* "asleep", "due" for its tick, or "syncing" (QMT)
  spent,       \* periods that have passed during the synchronisation
  commanded,   \* QMT: a client command holds _mutation_lock
  desired,     \* there are desired symbols
  held,        \* the desired set is subscribed, for all the host knows
  stale,       \* QMT: what is held is the whole subscription of another set
  single,      \* QMT: a client has a single subscription beside it
  blocked,     \* QMT: reconciliation_required, or the journal unhealthy
  alive,       \* the terminal pushes data for what is held
  healthy,     \* the terminal answers calls and pushes what it answered for
  changes,     \* TDX: changes from one desired set to another, so far
  moved,       \* TDX: the bridge's callback counter differs from the last one
  rounds       \* history: recovery rounds since the last activity

detector == <<age, state, cycles, escalated>>
subscription == <<desired, held, stale, single, blocked, changes>>
terminal == <<alive, healthy, moved>>
vars == <<host, time, detector, watchdog, spent, commanded, subscription, terminal, rounds>>

----------------------------------------------------------------------------
(* ActivityWindow and StallDetector. *)

InWindow == \E s \in Segments : s[1] <= time /\ time < s[2]

\* _touch: an accepted snapshot, or a callback counter that moved.
Touch ==
  /\ age' = 0
  /\ cycles' = 0
  /\ escalated' = FALSE
  /\ state' = IF InWindow THEN "verified" ELSE state

\* What evaluate() makes of the time and the last activity.
Judged == IF ~InWindow THEN "idle" ELSE IF age <= Grace THEN "verified" ELSE "pushing"

\* Variation: the count survives the end of the window, lunch included, and
\* is lost when the detector pushes again.
CyclesRestarted == IF Judged = "pushing" THEN 0 ELSE cycles

\* The rounds evaluate() goes by; an idle detector starts over.
CyclesJudged == IF InWindow THEN cycles ELSE 0

\* Variation: one round is taken for enough.
EscalatesEarly ==
  Judged = "pushing" /\ age # Never /\ CyclesJudged + 1 >= MaxCycles

\* Silence without any earlier activity is never an alarm.
Escalates ==
  Judged = "pushing" /\ age # Never /\ CyclesJudged >= MaxCycles

\* note_recovery.  The count matters up to MaxCycles.
Noted(n) == IF n < MaxCycles THEN n + 1 ELSE n

----------------------------------------------------------------------------
Init ==
  /\ host \in {"tdx", "qmt"}
  /\ time \in 0 .. Day - 1
  /\ age = Never
  /\ state = "idle"
  /\ cycles = 0
  /\ escalated = FALSE
  /\ watchdog = "asleep"
  /\ spent = 0
  /\ commanded = FALSE
  /\ desired = FALSE
  /\ held = FALSE
  /\ stale = FALSE
  /\ single = FALSE
  /\ blocked = FALSE
  /\ alive = FALSE
  /\ healthy \in BOOLEAN
  /\ changes = 0
  /\ moved = FALSE
  /\ rounds = 0

\* A period passes.  The watchdog has had its turn, or awaits its calls.
Tick ==
  /\ watchdog # "due"
  /\ watchdog = "syncing" => spent < MaxSync
  /\ time' = (time + 1) % Day
  /\ age' = IF age < Old THEN age + 1 ELSE age
  /\ IF watchdog = "asleep" THEN watchdog' = "due" /\ spent' = 0
                            ELSE watchdog' = watchdog /\ spent' = spent + 1
  /\ UNCHANGED <<host, state, cycles, escalated, commanded, subscription, terminal, rounds>>

\* run_stall_watchdog: a tick in "pushing" is a round.
TdxWatchdog ==
  /\ host = "tdx"
  /\ watchdog = "due"
  /\ state' = Judged
  /\ cycles' = IF Judged = "pushing" THEN Noted(CyclesJudged) ELSE CyclesJudged
  /\ rounds' = IF Judged = "pushing" THEN Noted(rounds) ELSE rounds
  /\ escalated' = (escalated \/ Escalates)
  /\ watchdog' = "asleep"
  /\ UNCHANGED <<host, time, age, spent, commanded, subscription, terminal>>

\* execute turns a synchronisation away at once while another command is under
\* way or the journal is not reconciled.
Refused == commanded \/ blocked

\* run_recovery_watchdog: it synchronises when there is something desired.
\* One that is turned away counts as a round nevertheless.
QmtWatchdog ==
  LET recovers == Judged = "pushing" /\ desired
  IN /\ host = "qmt"
     /\ watchdog = "due"
     /\ state' = Judged
     /\ cycles' = IF recovers /\ Refused THEN Noted(CyclesJudged) ELSE CyclesJudged
     /\ rounds' = IF recovers /\ Refused THEN Noted(rounds) ELSE rounds
     /\ escalated' = (escalated \/ Escalates)
     /\ watchdog' = IF recovers /\ ~Refused THEN "syncing" ELSE "asleep"
     /\ UNCHANGED <<host, time, age, spent, commanded, subscription, terminal>>

----------------------------------------------------------------------------
(* QMT: what a synchronisation does with the subscriptions. *)

\* All handles are cancelled, and the desired set is subscribed as a whole,
\* unless nothing is desired.
Synchronised ==
  /\ healthy
  /\ held' = desired
  /\ stale' = FALSE
  /\ single' = FALSE
  /\ alive' = desired
  /\ UNCHANGED blocked

\* A call failed or timed out: some handles may be gone, and the journal may
\* be left to be reconciled.
SyncFailed ==
  /\ ~healthy
  /\ held' \in {held, FALSE}
  /\ stale' = (stale /\ held')
  /\ single' \in {single, FALSE}
  /\ alive' = (alive /\ (held' \/ single'))
  /\ blocked' \in {blocked, TRUE}

SyncEnds ==
  /\ watchdog = "syncing"
  /\ Synchronised \/ SyncFailed
  /\ watchdog' = "asleep"
  /\ cycles' = IF state = "pushing" THEN Noted(cycles) ELSE cycles
  /\ rounds' = IF state = "pushing" THEN Noted(rounds) ELSE rounds
  /\ UNCHANGED <<host, changes, time, age, state, escalated, spent, commanded, desired, healthy, moved>>

\* _registry_covers: the registry holds just the desired set.
Covered == ~single' /\ held = desired' /\ ~stale'

\* A client's sync_subscriptions, of any set or of none: nothing is called
\* when data flows and the registry holds just that set.
ClientSync ==
  /\ host = "qmt"
  /\ watchdog # "syncing"
  /\ ~Refused
  /\ desired' \in BOOLEAN
  /\ stale' \in IF held THEN BOOLEAN ELSE {FALSE}
  /\ UNCHANGED single
  /\ commanded' = ~(state = "verified" /\ Covered)
  /\ UNCHANGED <<host, changes, time, detector, watchdog, spent, held, blocked, terminal, rounds>>

ClientSyncEnds ==
  /\ commanded
  /\ Synchronised \/ SyncFailed
  /\ commanded' = FALSE
  /\ UNCHANGED <<host, changes, time, detector, watchdog, spent, desired, healthy, moved, rounds>>

\* A client's subscribe of a symbol of its own.
ClientSubscribe ==
  /\ host = "qmt"
  /\ watchdog # "syncing"
  /\ ~Refused
  /\ healthy
  /\ ~single
  /\ single' = TRUE
  /\ alive' = TRUE
  /\ UNCHANGED <<host, changes, time, detector, watchdog, spent, commanded, desired, held, stale, blocked, healthy, moved, rounds>>

\* The journal is reconciled, by an operator or after the terminal restarted.
Unblock ==
  /\ blocked
  /\ blocked' = FALSE
  /\ UNCHANGED <<host, changes, time, detector, watchdog, spent, commanded, desired, held, stale, single, terminal, rounds>>

----------------------------------------------------------------------------
(* TDX: the bridge polls, subscribes what it is told and reports it. *)

\* A client changes the desired set.  What was last reported active may cover
\* the new set or not; a snapshot is not accepted before it is reported.
TdxDesire ==
  /\ host = "tdx"
  /\ desired' \in BOOLEAN
  /\ changes' = IF desired /\ desired' THEN changes + 1 ELSE changes
  /\ changes' <= MaxChanges
  /\ held' \in {held /\ desired', FALSE}
  /\ alive' = (alive /\ held')
  /\ UNCHANGED <<host, time, detector, watchdog, spent, commanded, stale, single, blocked, healthy, moved, rounds>>

\* Variation: a symbol that was reported active is not issued again.
ReissuedMissing == ~held

\* Whether a poll is answered with the desired symbols to be subscribed.
Reissued == state = "pushing" \/ ~held

Poll ==
  /\ host = "tdx"
  /\ desired
  /\ Reissued
  /\ healthy
  /\ held' = TRUE
  /\ alive' = TRUE
  /\ UNCHANGED <<host, changes, time, detector, watchdog, spent, commanded, desired, stale, single, blocked, healthy, moved, rounds>>

\* The bridge's counters: one that has not moved is no sign of life.
Observability ==
  /\ host = "tdx"
  /\ moved
  /\ moved' = FALSE
  /\ Touch
  /\ rounds' = 0
  /\ UNCHANGED <<host, time, watchdog, spent, commanded, subscription, alive, healthy>>

\* The bridge starts again: nothing is reported active, and the counter
\* begins at zero, which may differ from the last one.
BridgeRestart ==
  /\ host = "tdx"
  /\ ~healthy
  /\ held' = FALSE
  /\ alive' = FALSE
  /\ moved' \in BOOLEAN
  /\ UNCHANGED <<host, changes, time, detector, watchdog, spent, commanded, desired, stale, single, blocked, healthy, rounds>>

----------------------------------------------------------------------------
\* A snapshot of a symbol that is held is accepted.
Snapshot ==
  /\ alive
  /\ held \/ single
  /\ Touch
  /\ rounds' = 0
  /\ moved' \in IF host = "tdx" THEN {moved, TRUE} ELSE {moved}
  /\ UNCHANGED <<host, time, watchdog, spent, commanded, subscription, alive, healthy>>

\* The terminal stops to answer and to push, with the subscriptions in place.
FallSilent ==
  /\ healthy
  /\ healthy' = FALSE
  /\ alive' \in {alive, FALSE}
  /\ UNCHANGED <<host, time, detector, watchdog, spent, commanded, subscription, moved, rounds>>

\* It answers again; what it had stopped to push it does not resume.
ComeBack ==
  /\ ~healthy
  /\ healthy' = TRUE
  /\ UNCHANGED <<host, time, detector, watchdog, spent, commanded, subscription, alive, moved, rounds>>

Next ==
  \/ Tick \/ TdxWatchdog \/ QmtWatchdog \/ SyncEnds
  \/ ClientSync \/ ClientSyncEnds \/ ClientSubscribe \/ Unblock
  \/ TdxDesire \/ Poll \/ Observability \/ BridgeRestart
  \/ Snapshot \/ FallSilent \/ ComeBack

\* The watchdog task and the calls it awaits, which a timeout bounds; a bridge
\* that polls, and a terminal that pushes what is alive, many times within any
\* part of the window, so not only before it opens or after it closes.
Fairness ==
  /\ WF_vars(Tick) /\ WF_vars(TdxWatchdog) /\ WF_vars(QmtWatchdog)
  /\ WF_vars(SyncEnds) /\ WF_vars(ClientSyncEnds)
  /\ SF_vars(Poll)
  /\ SF_vars(InWindow /\ Snapshot)

Spec == Init /\ [][Next]_vars /\ Fairness

----------------------------------------------------------------------------
\* Once the watchdog has had its tick, and no synchronisation held it up, the
\* state says what the window and the last activity say
\* (StallDetector.evaluate, _touch): hosts act on it between two ticks.
StateIsCurrent == watchdog = "asleep" /\ spent = 0 /\ age # Never => state = Judged

\* The alarm is raised over a silence longer than the grace period in which
\* MaxCycles rounds were made, and activity takes it back
\* (StallDetector._touch, evaluate, note_recovery).
AlarmIsEarned == escalated => age > Grace /\ age # Never /\ rounds >= MaxCycles

\* A subscription that was alive once and stays silent raises the alarm,
\* whatever the window does in between (evaluate, the two watchdogs); a QMT
\* host must have something desired to recover.
SilenceIsReported == <>[](age = Old /\ desired) => <>[]escalated

\* When the terminal is well again and nothing blocks the control, data flows
\* again: what a stalled subscription needs is re-issued, though the host
\* believes to have it (poll, run_recovery_watchdog, _sync).
Recovers == <>[](healthy /\ desired /\ ~blocked) => []<>(state = "verified")
=============================================================================
