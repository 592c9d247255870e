--------------------------- MODULE QmtSubscription ---------------------------
(***************************************************************************)
(* The subscription controller of the QMT service                          *)
(* (src/datasource/qmt/realtime/subscription.py, class                     *)
(* QmtSubscriptionController): it executes one control request at a time   *)
(* through one slot for a native call, which the bridge in the terminal    *)
(* polls, and keeps the handles of the terminal's subscriptions in a       *)
(* registry.  Each step is written to a journal, from which a restarted    *)
(* datasource restores the registry and what it has to clean up before it  *)
(* takes requests again.                                                   *)
(*                                                                         *)
(* A request runs without a pause between two native calls, so a step is   *)
(* the handling of one reply up to the next call, with the records it      *)
(* writes.  How the journal's files survive rotation and compaction is the *)
(* subject of QmtJournal: here it is the sequence of every record written, *)
(* which restores what the files restore as long as LosesNothing holds     *)
(* there; its exception is not in this model.  Times are positions in the  *)
(* journal.  The gateway's lease is a boot count: the lease itself is the  *)
(* subject of QmtCommandGateway.                                           *)
(***************************************************************************)
EXTENDS QmtJournalRecords

CONSTANTS
  IdsRestart,    \* whether a new terminal counts its subscriptions anew
  MaxOps,        \* bound of the model: control requests that call the terminal
  MaxFaults,     \* bound of the model: timeouts, refusals, lost calls, failing writes
  MaxRestarts    \* bound of the model: restarts of the datasource, and of the terminal

ASSUME SubscriptionAssumption ==
  /\ IdsRestart \in BOOLEAN
  /\ MaxOps \in Nat /\ MaxFaults \in Nat /\ MaxRestarts \in Nat

VARIABLES
  memory,     \* the controller: registry, startup recovery, slot and request
  journal,    \* the records of the journal
  healthy,    \* journal.healthy
  intact,     \* the journal can be read back
  boot,       \* the run of the datasource, which its leases belong to
  owner,      \* started_at of the registered owner
  bridge,     \* the bridge: when it started, its lease, the command it has
  late,       \* a reply the bridge no longer waits to see posted
  live,       \* the terminal's subscriptions
  nextId,     \* the id of the terminal's next subscription
  granted,    \* history: the ids a datasource was told and no observation has written off
  discarded,  \* history: the ids it was told that an observation has written off
  ops, faults, restarts

terminalVars == <<live, nextId>>
journalVars == <<journal, healthy, intact>>
boundVars == <<ops, faults, restarts>>
vars == <<memory, journalVars, boot, owner, bridge, late, terminalVars, granted, discarded,
          boundVars>>

Unstarted == -1

NoSlot == [seq |-> 0, method |-> "none", id |-> 0, about |-> {}, exposed |-> FALSE]
NoCommand == [seq |-> 0, method |-> "none", id |-> 0, about |-> {}]
Reply(command, says, id, lease) == [call |-> command, says |-> says, id |-> id, lease |-> lease]
NoReply == Reply(NoCommand, "none", 0, 0)
Task(kind, todo, desired) == [kind |-> kind, todo |-> todo, desired |-> desired, failed |-> FALSE]
NoTask == Task("none", {}, {})

-----------------------------------------------------------------------------
\* The controller after a start that read the journal, or could not.
Restored(known) ==
  [whole |-> known.whole, singles |-> known.singles, retained |-> known.retained,
   candidates |-> known.candidates, unknown |-> known.unknown,
   required |-> known.candidates # {} \/ known.unknown # 0,
   phase |-> "not_started", seq |-> 0, slot |-> NoSlot, task |-> NoTask]

-----------------------------------------------------------------------------
(* What one step does: the controller after it, and the records it writes. *)

Course(m, records) == [memory |-> m, records |-> records]

\* The request or the recovery is over, and with it the wait for a reply.
Ended(m) == [m EXCEPT !.slot = NoSlot, !.task = NoTask]

\* _native_call up to the wait.
Calling(c, method, id, about) ==
  LET seq == c.memory.seq + 1
  IN  Course([c.memory EXCEPT
                !.seq = seq,
                !.slot = [seq |-> seq, method |-> method, id |-> id, about |-> about,
                          exposed |-> FALSE]],
             Append(c.records, Record("native_intent", seq, method, id, about)))

Handles(m) ==
  (IF m.whole = NoWhole THEN {} ELSE {Handle(m.whole.id, {})})
    \cup {Handle(m.singles[s], {s}) : s \in {x \in Symbols : m.singles[x] # 0}}

\* The whole subscription comes first; in which order the others do is left open.
First(handles) ==
  IF \E h \in handles : h.about = {} THEN {h \in handles : h.about = {}} ELSE handles

\* _sync and _unsubscribe go on: the next cancel, then the subscription of
\* what is desired, unless a cancel failed.
NextOfRequest(c) ==
  LET t == c.memory.task
  IN  IF t.todo # {}
      THEN {Calling(Course([c.memory EXCEPT !.task.todo = @ \ {h}], c.records),
                    "cancel", h.id, h.about) : h \in First(t.todo)}
      ELSE IF t.failed \/ t.desired = {} THEN {Course(Ended(c.memory), c.records)}
      ELSE {Calling(c, "whole", 0, t.desired)}

\* _earliest_unresolved_recovery_time: where the recovery intents are whose
\* subId was never confirmed, and the calls whose callSequence was never
\* answered.
Unresolved(records) ==
  LET done == {r.id : r \in {x \in ToSet(records) :
                 x.kind \in {"recovery_terminal", "recovery_result"} /\ x.what = "confirmed"}}
      answered == {r.seq : r \in {x \in ToSet(records) : x.kind = "native_result"}}
  IN  {i \in DOMAIN records :
         \/ records[i].kind = "recovery_intent" /\ records[i].id \notin done
         \/ records[i].kind = "native_intent" /\ records[i].seq \notin answered}

\* The evidence of _attempt_auto_unlock: the terminal of the owner started
\* after the earliest of them.
TerminalRestarted(records, started) == \E i \in Unresolved(records) : i <= started

Unlocked(m) ==
  [m EXCEPT !.whole = NoWhole, !.singles = [s \in Symbols |-> 0], !.retained = {},
            !.candidates = {}, !.unknown = 0, !.required = FALSE, !.phase = "completed"]

\* The end of reconcile_startup.
Recovered(c) ==
  LET m == [Ended(c.memory) EXCEPT
              !.required = c.memory.candidates # {} \/ c.memory.unknown # 0]
  IN  IF ~m.required THEN Course([m EXCEPT !.phase = "completed"], c.records)
      ELSE IF TerminalRestarted(journal \o c.records, owner)
      THEN Course(Unlocked(m), Append(c.records, Observation))
      ELSE Course([m EXCEPT !.phase = "degraded"], c.records)

\* reconcile_startup goes on with the next candidate.
NextCleanup(c) ==
  LET todo == c.memory.task.todo
  IN  IF todo = {} THEN {Recovered(c)}
      ELSE {Calling(Course([c.memory EXCEPT
                              !.task.todo = @ \ {h},
                              !.candidates = Tried(@, {h.id})],
                           Append(c.records, Record("recovery_intent", 0, "none", h.id, h.about))),
                    "cancel", h.id, h.about) : h \in First(todo)}

-----------------------------------------------------------------------------
(* The reply to a native call, and its absence. *)

\* _cancel_handle: false says that the terminal has no such subscription.  No
\* integers are configured as success (unsubscribe_success_values).
\* Variation: any reply will do.
ConfirmsAll(says) == says # "failure"
Confirms(says) == says \in {"true", "false"}

Dropped(m, h) ==
  IF h.about = {} THEN [m EXCEPT !.whole = NoWhole]
  ELSE [m EXCEPT !.singles = [s \in Symbols |-> IF s \in h.about THEN 0 ELSE @[s]]]

Registered(m, slot, id) ==
  IF slot.method = "whole" THEN [m EXCEPT !.whole = [id |-> id, symbols |-> slot.about]]
  ELSE [m EXCEPT !.singles = [s \in Symbols |-> IF s \in slot.about THEN id ELSE @[s]]]

\* The rest of _attempt_startup_cleanup.
Cleaned(m, slot, confirmed) ==
  LET note(kind, what) == Record(kind, 0, what, slot.id, slot.about)
  IN  IF confirmed
      THEN Course(Resolved(m, slot.id),
                  <<note("recovery_result", "confirmed"),
                    note("registry_transition", "unsubscribed"),
                    note("recovery_terminal", "confirmed")>>)
      ELSE Course(m, <<note("recovery_result", "unconfirmed")>>)

\* The courses after reply says, for a subscription with an id.  The recovery
\* may run out of time before its next candidate.
Answers(says, id) ==
  LET slot == memory.slot
      m == [memory EXCEPT !.slot = NoSlot]
      result == <<Record("native_result", slot.seq, says, id, {})>>
  IN  CASE memory.task.kind = "startup" ->
             LET c == Cleaned(m, slot, Confirms(says))
                 next == Course(c.memory, result \o c.records)
             IN  NextCleanup(next) \cup {Recovered(next)}
        [] memory.task.kind # "startup" /\ slot.method = "cancel" ->
             NextOfRequest(
               IF Confirms(says)
               THEN Course(Dropped(m, slot),
                           Append(result, Record("registry_transition", 0, "unsubscribed",
                                                 slot.id, slot.about)))
               ELSE Course([m EXCEPT !.task.failed = TRUE], result))
        [] OTHER ->
             {IF says = "id"
              THEN Course(Ended(Registered(m, slot, id)),
                          Append(result, Record("registry_transition", 0, slot.method,
                                                id, slot.about)))
              ELSE Course(Ended(m), result)}

\* Without a reply.
Timeouts ==
  LET slot == memory.slot
      m == [memory EXCEPT !.slot = NoSlot]
  IN  CASE memory.task.kind = "startup" ->
             NextCleanup(Cleaned(m, slot, FALSE)) \cup {Recovered(Cleaned(m, slot, FALSE))}
        [] memory.task.kind # "startup" /\ slot.method = "cancel" ->
             NextOfRequest(Course([m EXCEPT !.task.failed = TRUE], <<>>))
        [] OTHER -> {Course(Ended(m), <<>>)}

\* The controller when the journal fails after n records of this step: the
\* recovery degrades, and a handle whose transition is not durable is retained.
Stopped(c, n) ==
  LET slot == memory.slot
      retains(m, id) == [Ended(m) EXCEPT
        !.required = TRUE,
        !.retained = @ \cup {Handle(id, IF slot.method = "whole" THEN {} ELSE slot.about)}]
      wrote(what) == \E i \in DOMAIN c.records :
        c.records[i].kind = "registry_transition" /\ c.records[i].what \in what
  IN  IF memory.phase \in {"not_started", "running"} \/ memory.task.kind = "startup"
      THEN [Ended(memory) EXCEPT !.unknown = @ + 1, !.required = TRUE, !.phase = "degraded"]
      ELSE IF n < 2 /\ wrote({"unsubscribed"}) THEN retains(memory, slot.id)
      ELSE IF n < 2 /\ wrote({"whole", "single"}) THEN retains(c.memory, c.records[2].id)
      ELSE Ended(c.memory)

Written(c, told) ==
  /\ memory' = c.memory
  /\ journal' = journal \o c.records
  /\ granted' = IF Observation \in ToSet(c.records) THEN {} ELSE told
  /\ discarded' = IF Observation \in ToSet(c.records) THEN discarded \cup told ELSE discarded
  /\ UNCHANGED <<healthy, intact>>

\* The journal fails: the record that was refused may be on the disk, or half
\* of it, and then the journal cannot be read back.
Broken(c, told) ==
  \E n \in 0..(Len(c.records) - 1), tail \in {"none", "half", "whole"} :
    LET kept == SubSeq(c.records, 1, IF tail = "whole" THEN n + 1 ELSE n)
    IN  /\ memory' = Stopped(c, n)
        /\ journal' = journal \o kept
        /\ granted' = IF Observation \in ToSet(kept) THEN {} ELSE told
        /\ discarded' = IF Observation \in ToSet(kept) THEN discarded \cup told ELSE discarded
        /\ healthy' = FALSE
        /\ intact' = (tail # "half")

\* A step costs what it needs of faults; breaks says that the journal fails.
Costs(n) == faults + n <= MaxFaults /\ faults' = faults + n
Fault(b) == IF b THEN 1 ELSE 0
Takes(c, told, breaks) ==
  IF breaks THEN Broken(c, told) ELSE Written(c, told)

-----------------------------------------------------------------------------
(* Requests.  The route starts to read them after reconcile_startup. *)

MayControl ==
  /\ memory.phase \notin {"not_started", "running"}
  /\ memory.task = NoTask
  /\ ~memory.required /\ healthy
  /\ ops < MaxOps /\ ops' = ops + 1

Requests(courses) ==
  /\ MayControl
  /\ \E c \in courses, breaks \in BOOLEAN :
       /\ c.records # <<>>
       /\ Takes(c, granted, breaks)
       /\ Costs(Fault(breaks))
  /\ UNCHANGED <<boot, owner, bridge, late, terminalVars, restarts>>

\* contains_symbol.
\* Variation: the whole subscription is not looked at.
HasSingle(s) == memory.singles[s] # 0
ContainsSymbol(s) == s \in memory.whole.symbols \/ memory.singles[s] # 0

Subscribe(s) ==
  /\ ~ContainsSymbol(s)
  /\ Requests({Calling(Course([memory EXCEPT !.task = Task("subscribe", {}, {})], <<>>),
                       "single", 0, {s})})

Unsubscribe(s) ==
  /\ s \notin memory.whole.symbols /\ memory.singles[s] # 0
  /\ Requests(NextOfRequest(Course(
       [memory EXCEPT !.task = Task("unsubscribe", {Handle(memory.singles[s], {s})}, {})], <<>>)))

\* A sync of the client, or of the watchdog.  One that is skipped because
\* the data flows changes nothing.
Sync(desired) ==
  Requests(NextOfRequest(Course(
    [memory EXCEPT !.task = Task("sync", Handles(memory), desired)], <<>>)))

\* The first client that connects.
ReconcileStartup ==
  /\ memory.phase = "not_started"
  /\ LET todo == {Handle(c.id, c.about) : c \in {x \in memory.candidates : ~x.tried}}
         start == [memory EXCEPT !.phase = "running", !.task = Task("startup", todo, {})]
     IN  \E c \in NextCleanup(Course(start, <<>>)), breaks \in BOOLEAN :
           /\ breaks => c.records # <<>>
           /\ c.records # <<>> => healthy
           /\ Takes(c, granted, breaks)
           /\ Costs(Fault(breaks))
  /\ UNCHANGED <<boot, owner, bridge, late, terminalVars, ops, restarts>>

\* No answer can come any more.
Unanswerable ==
  /\ memory.slot.exposed
  /\ bridge.lease # boot \/ bridge.command.seq # memory.slot.seq
  /\ late.lease # boot \/ late.call.seq # memory.slot.seq

CallTimesOut ==
  /\ memory.slot # NoSlot
  /\ \E c \in Timeouts, breaks \in BOOLEAN :
       /\ breaks => c.records # <<>>
       /\ Takes(c, granted, breaks)
       /\ Costs(Fault(~Unanswerable) + Fault(breaks))
  /\ UNCHANGED <<boot, owner, bridge, late, terminalVars, ops, restarts>>

-----------------------------------------------------------------------------
(* The bridge and the terminal. *)

\* The owner registers, and the controller tries to unlock.  When the
\* observation cannot be written the route fails, and the bridge, without a
\* token, registers again; what the recovery then leaves unrecorded is over.
\* A reply under an older lease will be refused.
RegisterBridge ==
  /\ bridge.lease # boot /\ bridge.command = NoCommand
  /\ owner' = bridge.started
  /\ late' = NoReply
  /\ LET unlocks == /\ memory.required /\ memory.phase \in {"running", "degraded"}
                    /\ healthy
                    /\ TerminalRestarted(journal, owner')
     IN  \/ /\ bridge' = [bridge EXCEPT !.lease = boot]
            /\ IF unlocks THEN Written(Course(Unlocked(memory), <<Observation>>), granted)
               ELSE UNCHANGED <<memory, journalVars, granted, discarded>>
            /\ UNCHANGED faults
         \/ /\ unlocks
            /\ Broken(Course(memory, <<Observation>>), granted)
            /\ Costs(1)
            /\ UNCHANGED bridge
  /\ UNCHANGED <<boot, terminalVars, ops, restarts>>

\* poll_command, and the bridge's loss of the command.
PollCommand ==
  /\ bridge.lease = boot /\ bridge.command = NoCommand
  /\ memory.slot # NoSlot /\ ~memory.slot.exposed
  /\ memory' = [memory EXCEPT !.slot.exposed = TRUE]
  /\ LET s == memory.slot
         command == [seq |-> s.seq, method |-> s.method, id |-> s.id, about |-> s.about]
     IN  \/ bridge' = [bridge EXCEPT !.command = command] /\ UNCHANGED faults
         \/ UNCHANGED bridge /\ Costs(1)
  /\ UNCHANGED <<journalVars, boot, owner, late, terminalVars, granted, discarded, ops, restarts>>

\* What the terminal makes of a command: does says that it took effect.
Sensible(command, does, says) ==
  IF command.method = "cancel"
  THEN does = (command.id \in Ids(live)) /\ says = (IF does THEN "true" ELSE "false")
  ELSE does /\ says = "id"

Possible(command, does, says) ==
  IF command.method = "cancel"
  THEN /\ does => command.id \in Ids(live)
       /\ says \in {"other", "failure"} \/ Sensible(command, does, says)
  ELSE says \in {"other", "failure"} \/ Sensible(command, does, says)

Executes(command, does) ==
  IF ~does THEN UNCHANGED terminalVars
  ELSE IF command.method = "cancel"
  THEN live' = WithoutId(live, command.id) /\ UNCHANGED nextId
  ELSE live' = live \cup {Handle(nextId, command.about)} /\ nextId' = nextId + 1

\* post_result: the lease holds and the callSequence is that of the slot.
\* Variation: the callSequence is not compared.
AcceptsAny(reply) == reply.lease = boot /\ memory.slot.exposed
Accepts(reply) ==
  reply.lease = boot /\ memory.slot.exposed /\ memory.slot.seq = reply.call.seq

PostResult(reply, breaks) ==
  IF Accepts(reply)
  THEN LET told == IF reply.says = "id" THEN granted \cup {reply.id} ELSE granted
       IN  \E c \in Answers(reply.says, reply.id) : Takes(c, told, breaks)
  ELSE ~breaks /\ UNCHANGED <<memory, journalVars, granted, discarded>>

\* _execute_subscription_command, and the post of its result, which the bridge
\* may give up while it is under way.
BridgeExecutes ==
  LET command == bridge.command
  IN  /\ command # NoCommand
      /\ bridge' = [bridge EXCEPT !.command = NoCommand]
      /\ \E does, delayed, breaks \in BOOLEAN, says \in {"id", "true", "false", "other", "failure"} :
           LET reply == Reply(command, says, IF says = "id" THEN nextId ELSE 0, bridge.lease)
           IN  /\ Possible(command, does, says)
               /\ Executes(command, does)
               /\ Costs(Fault(~Sensible(command, does, says)) + Fault(delayed) + Fault(breaks))
               /\ IF delayed
                  THEN late' = reply /\ ~breaks /\ UNCHANGED <<memory, journalVars, granted, discarded>>
                  ELSE PostResult(reply, breaks) /\ UNCHANGED late
      /\ UNCHANGED <<boot, owner, ops, restarts>>

LateReply ==
  /\ late # NoReply
  /\ late' = NoReply
  /\ \E breaks \in BOOLEAN : PostResult(late, breaks) /\ Costs(Fault(breaks))
  /\ UNCHANGED <<boot, owner, bridge, terminalVars, ops, restarts>>

-----------------------------------------------------------------------------
(* Restarts. *)

\* The datasource starts again.  An operator may have left an observation,
\* once the terminal has lost its subscriptions.
DatasourceRestart ==
  /\ restarts[1] < MaxRestarts
  /\ restarts' = [restarts EXCEPT ![1] = @ + 1]
  /\ boot' = boot + 1
  /\ owner' = Unstarted
  /\ healthy' = intact
  /\ LET m == Restored(IF intact THEN Replay(journal) ELSE Unknown(Forgotten))
     IN  \/ memory' = m /\ UNCHANGED <<journal, granted, discarded>>
         \/ /\ live = {} /\ intact /\ m.required
            /\ memory' = Unlocked(m)
            /\ journal' = Append(journal, Observation)
            /\ granted' = {}
            /\ discarded' = discarded \cup granted
  /\ UNCHANGED <<intact, bridge, late, terminalVars, ops, faults>>

\* The terminal starts again, and with it the bridge.
TerminalRestart ==
  /\ restarts[2] < MaxRestarts
  /\ restarts' = [restarts EXCEPT ![2] = @ + 1]
  /\ live' = {}
  /\ nextId' = IF IdsRestart THEN 1 ELSE nextId
  /\ granted' = {}
  /\ discarded' = {}
  /\ bridge' = [started |-> Len(journal), lease |-> 0, command |-> NoCommand]
  /\ UNCHANGED <<memory, journalVars, boot, owner, late, ops, faults>>

Init ==
  /\ memory = Restored(Forgotten)
  /\ journal = <<>> /\ healthy = TRUE /\ intact = TRUE
  /\ boot = 1
  /\ owner = Unstarted
  /\ bridge = [started |-> 0, lease |-> 0, command |-> NoCommand]
  /\ late = NoReply
  /\ live = {} /\ nextId = 1
  /\ granted = {} /\ discarded = {}
  /\ ops = 0 /\ faults = 0 /\ restarts = <<0, 0>>

Next ==
  \/ \E s \in Symbols : Subscribe(s) \/ Unsubscribe(s)
  \/ \E desired \in SUBSET Symbols : Sync(desired)
  \/ ReconcileStartup
  \/ CallTimesOut
  \/ RegisterBridge
  \/ PollCommand
  \/ BridgeExecutes
  \/ LateReply
  \/ DatasourceRestart
  \/ TerminalRestart

Spec == Init /\ [][Next]_vars

-----------------------------------------------------------------------------
(* Properties. *)

Now == Replay(journal)
RegistryIds(m) == {m.singles[s] : s \in Symbols} \cup {m.whole.id}

\* What the terminal has of the subscriptions a datasource was told of.  An
\* observation declares all of them released.  An operator's is true; that of
\* the automatic unlock need not be, although its docstring says "every stale
\* subId is invalid": the start of the terminal is compared with the earliest
\* unresolved record only, and the registry that is emptied may be younger.
\* What it writes off while it lives is in neither the registry nor the
\* journal: the properties name it as their exception.  Held is the rest.
Answered == {h \in live : h.id \in granted \cup discarded}
WrittenOff == {h \in live : h.id \in discarded}
Held == {h \in live : h.id \in granted}

\* The controller's state has the types of its fields, a slot exists exactly
\* while a request or the recovery waits for a reply, the recovery runs exactly
\* while its phase says so, and the terminal hands out no id twice
\* (_native_call, _mutation_lock and _startup_lock).
SubTypeOK ==
  /\ memory.whole \in [id : Nat, symbols : SUBSET Symbols]
  /\ (memory.whole.id = 0) = (memory.whole.symbols = {})
  /\ memory.singles \in [Symbols -> Nat]
  /\ memory.phase \in {"not_started", "running", "degraded", "completed"}
  /\ memory.task.kind \in {"none", "subscribe", "unsubscribe", "sync", "startup"}
  /\ (memory.task = NoTask) = (memory.slot = NoSlot)
  /\ memory.phase = "running" => memory.task.kind = "startup"
  /\ memory.slot.seq <= memory.seq
  /\ healthy => intact
  /\ \A h \in live : h.id \in 1..(nextId - 1)
  /\ bridge.lease <= boot /\ bridge.started <= Len(journal)

\* A reply ends the call it answers and no other: what the controller takes
\* from the bridge answers the call that waits, also when that call came in the
\* place of one that timed out, and the reply is late (post_result compares
\* the callSequence).
Answering(command) ==
  /\ command.method = memory.slot.method
  /\ command.id = memory.slot.id
  /\ command.about = memory.slot.about
ReplyMatches ==
  [][/\ BridgeExecutes /\ memory' # memory => Answering(bridge.command)
     /\ LateReply /\ memory' # memory => Answering(late.call)]_vars

\* While the controller takes requests, every subscription of the terminal
\* whose id it was told is one of its registry, over timeouts, lost replies,
\* failing writes and restarts (_cancel_handle drops a handle only on a boolean
\* reply): all it forgets while it lives is what an automatic unlock has
\* written off.
AnsweredAreOwned ==
  (healthy /\ ~memory.required) => Ids(Answered) \subseteq RegistryIds(memory) \cup discarded

\* No symbol is in two subscriptions the controller was told of: a second one
\* is refused, and a sync cancels what there is before it subscribes
\* (contains_symbol, _sync).  One that an automatic unlock has written off
\* while it lived does not count: its symbol can be subscribed again.
NoSymbolTwice ==
  \A h, k \in Answered \ WrittenOff : h.id # k.id => h.about \cap k.about = {}

\* Wherever the datasource stops, what its journal holds is enough to find
\* every subscription it was told of that the terminal still has, or to know
\* that something is missing, which keeps it from taking requests
\* (_restore_startup_state).  What an automatic unlock has written off while it
\* lived cannot be found: the journal says it is released.
RecoverableAfterCrash ==
  intact => \/ Now.unknown > 0
            \/ Ids(Answered) \subseteq Ids(Now.candidates) \cup discarded

\* The registry is what a restart would restore from the journal, as long as
\* the journal takes records (_restore_startup_state against _cancel_handle,
\* _subscribe, _subscribe_whole and _attempt_startup_cleanup).
JournalAgrees ==
  healthy => memory.whole = Now.whole /\ memory.singles = Now.singles
=============================================================================
