------------------------- MODULE QmtHistoryDownload -------------------------
(***************************************************************************)
(* History downloads of the QMT datasource, end to end: the job registry   *)
(* (src/datasource/qmt/history_download.py), the command gateway it drives *)
(* (QmtCommandGateway) and the history loop of the bridge that runs inside *)
(* the terminal (qmt/builtin_bridge/mist_qmt_realtime_bridge.py).          *)
(*                                                                         *)
(* A job runs as one coroutine.  It only lets others run while it sleeps   *)
(* between two looks at its command, so taking a result, ending the task   *)
(* and starting the next one are a single step.  The bridge is one thread  *)
(* in a terminal process: registering, polling, executing and answering    *)
(* are calls of their own, each of which may get lost, and while it        *)
(* executes a native download it sends nothing.                            *)
(***************************************************************************)
EXTENDS QmtCommandGateway

CONSTANTS
  Jobs,              \* jobs that can be submitted
  TasksPerJob,       \* tasks of a job: stocks times base periods
  CommandTimeout,    \* timeout_seconds of every download command
  BusyMargin,        \* the seconds run_job adds to it for extend_busy_until
  JobTtl,            \* _JOB_TTL_SECONDS
  MaxFaults          \* bound of the model: bridge restarts and lost calls

ASSUME DownloadAssumption ==
  /\ IsFiniteSet(Jobs) /\ MaxCommands >= Cardinality(Jobs) * TasksPerJob
  /\ TasksPerJob \in Nat \ {0}
  /\ CommandTimeout \in Nat \ {0}
  /\ BusyMargin \in Nat
  /\ JobTtl \in Nat
  /\ MaxFaults \in Nat

VARIABLES
  job,      \* the registry: every job, its tasks and what its coroutine awaits
  bridge,   \* the bridge process: its owner_id, its lease and what it executes
  native,   \* what the terminal did for each command
  faults    \* restarts and lost calls so far

registryVars == <<job, bridge, native, faults>>
downloadVars == <<vars, registryVars>>

Tasks == 1..TasksPerJob
TaskStates == {"pending", "running", "done", "failed"}

\* The outcome of download_history_data for the one period of a command: the
\* native call worked, it raised, or the runtime does not expose it.
NativeOutcomes == {"downloaded", "period_failed", "unavailable"}

\* The handler reports a period that raised inside an ok result.
AnswerOk(outcome) == outcome \in {"downloaded", "period_failed"}

NotYet == 0      \* a task whose command has not been accepted

\* left counts down to the deadline of the awaited command and age up from
\* completed_at.
NoJob == [phase |-> "absent", state |-> [t \in Tasks |-> "pending"],
          command |-> [t \in Tasks |-> NotYet], at |-> 1, left |-> 0, age |-> 0]

-----------------------------------------------------------------------------
(* The coroutine of a job. *)

\* The command that enqueue creates next in book k, as a set of one.
NextOf(k) == {c \in Commands : /\ k[c].place = "unborn"
                               /\ \A d \in Commands : d < c => k[d].place # "unborn"}

Ended(r, t, state) == [r EXCEPT !.state[t] = state, !.at = t + 1]

Completed(r) == [r EXCEPT !.phase = "completed", !.age = 0]

\* _run_job goes on with the next task of job record r, the gateway holding
\* book k and held bytes: extend the busy window, then enqueue.  A refused
\* enqueue fails the task, and, nothing having moved, those after it as well.
GoOn(j, r, k, held) ==
  IF r.at > TasksPerJob
  THEN /\ job' = [job EXCEPT ![j] = Completed(r)]
       /\ cmd' = k /\ retained' = held
       /\ UNCHANGED leaseVars
  ELSE /\ busyLeft' = BusyExtended(CommandTimeout + BusyMargin)
       /\ UNCHANGED <<owner, generation, heartbeatAge>>
       /\ retained' = held
       /\ IF HasCapacity(k, held)
          THEN \E c \in NextOf(k) :
                 /\ cmd' = [k EXCEPT ![c] = Queued(CommandTimeout)]
                 /\ job' = [job EXCEPT ![j] =
                      [r EXCEPT !.phase = "active", !.state[r.at] = "running",
                                !.command[r.at] = c, !.left = CommandTimeout]]
          ELSE /\ cmd' = k
               /\ job' = [job EXCEPT ![j] =
                    Completed([r EXCEPT !.at = TasksPerJob + 1,
                                        !.state = [t \in Tasks |->
                                           IF t < r.at THEN r.state[t] ELSE "failed"]])]

\* _cleanup drops completed jobs after their TTL.
CleanedUp ==
  [j \in Jobs |-> IF job[j].phase = "completed" /\ job[j].age > JobTtl
                  THEN [NoJob EXCEPT !.phase = "removed"] ELSE job[j]]

\* submit_download_job only creates the coroutine.
Submit(j) ==
  /\ job[j].phase = "absent"
  /\ job' = [CleanedUp EXCEPT ![j].phase = "submitted"]
  /\ UNCHANGED <<vars, bridge, native, faults>>

JobStatus ==
  /\ job' = CleanedUp
  /\ UNCHANGED <<vars, bridge, native, faults>>

StartJob(j) ==
  /\ job[j].phase = "submitted"
  /\ GoOn(j, job[j], Maintained, MaintainedBytes)
  /\ UNCHANGED <<bridge, native, faults>>

\* result.ok of the stored result of c.
Succeeded(c) == Maintained[c].outcome = "answered" /\ AnswerOk(native[c])

\* Variation: the loop ends at the deadline without raising.
GivenUpSilently(r) == Ended(r, r.at, "done")

\* TimeoutError: the deadline has passed.
GivenUp(r) == Ended(r, r.at, "failed")

\* One round of the loop in _download_one: the deadline is looked at first,
\* and once it has passed the result is not looked for any more.
AwaitCommand(j) ==
  LET r == job[j]
      c == r.command[r.at]
  IN  /\ r.phase = "active"
      /\ \/ /\ r.left > 0
            /\ Maintained[c].place = "result"
            /\ GoOn(j, Ended(r, r.at, IF Succeeded(c) THEN "done" ELSE "failed"),
                    [Maintained EXCEPT ![c] = Gone],
                    MaintainedBytes - Maintained[c].bytes)
         \/ /\ r.left > 0
            /\ Maintained[c].place # "result"
            /\ Observe
            /\ UNCHANGED job
         \/ /\ r.left = 0 /\ r.at < TasksPerJob
            /\ GoOn(j, GivenUp(r), Maintained, MaintainedBytes)
         \/ /\ r.left = 0 /\ r.at = TasksPerJob
            /\ GoOn(j, GivenUp(r), cmd, retained)
      /\ UNCHANGED <<bridge, native, faults>>

-----------------------------------------------------------------------------
(* The bridge.  mist_qmt_realtime_bridge_tick registers when it holds no    *)
(* lease, polls for one command, executes it and posts the result.          *)

NoLease == 0
Idle == 0

Fault == faults < MaxFaults /\ faults' = faults + 1

\* _register_owner; a refusal, or a response that got lost, leaves the bridge
\* without a lease.
BridgeRegister ==
  /\ bridge.lease = NoLease
  /\ RegisterOwner(bridge.id)
  /\ bridge' = [bridge EXCEPT !.lease = generation']
  /\ UNCHANGED <<job, native, faults>>

BridgeRegisterLost ==
  /\ bridge.lease = NoLease
  /\ RegisterOwner(bridge.id)
  /\ Fault
  /\ UNCHANGED <<job, bridge, native>>

\* _poll_history, answered.
BridgePoll ==
  /\ bridge.lease # NoLease /\ bridge.running = Idle
  /\ Poll(bridge.id, bridge.lease, 1)
  /\ bridge' = [bridge EXCEPT !.running =
                  CHOOSE c \in Commands \cup {Idle} :
                    LET claimed == Oldest(Pending(Maintained), 1)
                    IN  IF claimed = {} THEN c = Idle ELSE c \in claimed]
  /\ UNCHANGED <<job, native, faults>>

\* The gateway handed out the command but the response never arrived.
BridgePollLost ==
  /\ bridge.lease # NoLease /\ bridge.running = Idle
  /\ Poll(bridge.id, bridge.lease, 1)
  /\ Fault
  /\ UNCHANGED <<job, bridge, native>>

\* _lease_rejected: the bridge forgets its lease and registers again.
BridgePollRefused ==
  /\ bridge.lease # NoLease /\ bridge.running = Idle
  /\ ~RequireOwner(bridge.id, bridge.lease)
  /\ Observe
  /\ bridge' = [bridge EXCEPT !.lease = NoLease]
  /\ UNCHANGED <<job, native, faults>>

\* _execute_history_command returns and its result is posted; the bridge does
\* not look at how the post ended.
BridgeAnswer(outcome, bytes) ==
  /\ bridge.running # Idle
  /\ \/ PostResult(bridge.id, bridge.lease, bridge.running, bytes)
     \/ ~RequireOwner(bridge.id, bridge.lease) /\ Observe
  /\ native' = [native EXCEPT ![bridge.running] = outcome]
  /\ bridge' = [bridge EXCEPT !.running = Idle]
  /\ UNCHANGED <<job, faults>>

BridgeAnswerLost(outcome) ==
  /\ bridge.running # Idle
  /\ Fault
  /\ native' = [native EXCEPT ![bridge.running] = outcome]
  /\ bridge' = [bridge EXCEPT !.running = Idle]
  /\ UNCHANGED <<vars, job>>

\* The terminal dies and starts again, as a process with any id.
BridgeRestart(o) ==
  /\ Fault
  /\ bridge' = [id |-> o, lease |-> NoLease, running |-> Idle]
  /\ UNCHANGED <<vars, job, native>>

\* The datasource restarts: its gateway and its registry start empty.  Lease
\* tokens and command ids are random, so none of the old ones is valid again.
DatasourceRestart ==
  /\ Fault
  /\ owner' = NoOwner
  /\ heartbeatAge' = 0
  /\ busyLeft' = 0
  /\ cmd' = [c \in Commands |-> IF cmd[c].place = "unborn" THEN Unborn ELSE Gone]
  /\ retained' = 0
  /\ job' = [j \in Jobs |-> IF job[j].phase = "absent" THEN job[j]
                            ELSE [NoJob EXCEPT !.phase = "lost"]]
  /\ UNCHANGED <<generation, bridge, native>>

-----------------------------------------------------------------------------
\* Variation: the deadline is computed anew in every round.
AgedJobNewDeadline(r) ==
  IF r.phase = "completed" /\ r.age <= JobTtl THEN [r EXCEPT !.age = @ + 1] ELSE r

AgedJob(r) ==
  CASE r.phase = "active" /\ r.left > 0            -> [r EXCEPT !.left = @ - 1]
    [] r.phase = "completed" /\ r.age <= JobTtl    -> [r EXCEPT !.age = @ + 1]
    [] OTHER                                       -> r

DownloadTick ==
  /\ Tick
  /\ job' = [j \in Jobs |-> AgedJob(job[j])]
  /\ UNCHANGED <<bridge, native, faults>>

DownloadInit ==
  /\ Init
  /\ job = [j \in Jobs |-> NoJob]
  /\ bridge \in [id : Owners, lease : {NoLease}, running : {Idle}]
  /\ native = [c \in Commands |-> "none"]
  /\ faults = 0

DownloadNext ==
  \/ \E j \in Jobs : Submit(j) \/ StartJob(j) \/ AwaitCommand(j)
  \/ JobStatus
  \/ BridgeRegister \/ BridgeRegisterLost
  \/ BridgePoll \/ BridgePollLost \/ BridgePollRefused
  \/ \E outcome \in NativeOutcomes :
       \/ \E bytes \in AnswerBytes : BridgeAnswer(outcome, bytes)
       \/ BridgeAnswerLost(outcome)
  \/ \E o \in Owners : BridgeRestart(o)
  \/ DatasourceRestart
  \/ DownloadTick

DownloadSpec == DownloadInit /\ [][DownloadNext]_downloadVars

\* Time passes, the event loop resumes a coroutine that is due, and the
\* terminal keeps calling the tick of a bridge that does not execute.
FairDownloadSpec ==
  /\ DownloadSpec
  /\ WF_downloadVars(DownloadTick)
  /\ \A j \in Jobs : WF_downloadVars(StartJob(j)) /\ WF_downloadVars(AwaitCommand(j))
  /\ WF_downloadVars(BridgeRegister)

-----------------------------------------------------------------------------
\* A task is reported done only when the terminal executed the command of
\* that very task: a timeout, an owner replacement, a refused or substituted
\* result, or the result of another task never counts as a download.
DoneWasExecuted ==
  \A j \in Jobs : \A t \in Tasks :
    job[j].state[t] = "done" =>
      /\ job[j].command[t] # NotYet
      /\ native[job[j].command[t]] \in {"downloaded", "period_failed"}

\* A job that was submitted ends, whatever the bridge and the network do:
\* every wait of its coroutine is bounded.  Only a restart of the datasource
\* forgets it.
JobsFinish ==
  \A j \in Jobs : job[j].phase = "submitted" ~> job[j].phase \in {"completed", "lost"}

\* A bridge without a lease gets one again: the busy windows that downloads
\* open for the old owner all end, so a restarted terminal is let in.
LeaseReturns == bridge.lease = NoLease ~> RequireOwner(bridge.id, bridge.lease)
=============================================================================
