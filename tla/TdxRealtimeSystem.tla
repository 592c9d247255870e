------------------------- MODULE TdxRealtimeSystem -------------------------
(***************************************************************************)
(* The TDX realtime gateway together with the bridge processes in the      *)
(* terminal (tdx/builtin_bridge/mist_tdx_realtime_bridge.py) and their TCP *)
(* connections (src/datasource/realtime_tcp.py).                           *)
(*                                                                         *)
(* A bridge process goes through one loop: connect, poll, reconcile the    *)
(* terminal's subscription list, report.  Each HTTP call is one step, for  *)
(* the gateway handles it atomically; it may be lost before the gateway    *)
(* saw it or after.  The sleeps between calls are the steps of time.       *)
(*                                                                         *)
(* A process that exits does not come back: the next one has another pid   *)
(* and so another owner_id.  Snapshots go over TCP, the default transport. *)
(* After a restart of the datasource leases are new, because the token and *)
(* the stream epoch are random: generation keeps counting for that.        *)
(***************************************************************************)
EXTENDS TdxRealtimeGateway

CONSTANTS
  KeepAlive,     \* NATIVE_KEEPALIVE_INTERVAL_SECONDS
  MaxFaults      \* bound of the model: lost calls, hangs, drifts and restarts

ASSUME SystemAssumption == Ids \subseteq Nat /\ KeepAlive \in Nat /\ MaxFaults \in Nat

VARIABLES
  bridge,     \* the state of each bridge process
  native,     \* the terminal's subscription list
  waited,     \* the bridges that called the gateway since the last Tick, or hang
  faults,     \* faults so far
  shown       \* the lists a read of each client may answer with while it waits

codeVars == <<vars, bridge, native, waited, faults>>
sysVars == <<codeVars, shown>>
gatewayVars == <<ownerVars, nativeVars, desiredVars, probe, call>>

\* Where a process is in run_bridge; "renew" is the loop that registers again.
Places == {"new", "start", "connect", "poll", "reconcile", "report", "renew", "exited"}

\* A connection is bound to the lease of its register frame; 0 means that the
\* server closed it, or never bound it, and the bridge has not noticed.
NoSocket == -1
NoPoll == [revision |-> 0, desired |-> {}, probe |-> 0, unsubscribe |-> {}, subscribe |-> {}]

\* lease: lease_token; known: _active_native; tried: last_attempted_revision;
\* probed: last_native_probe_revision; age: since last_native_probe_monotonic;
\* got: the response to the poll of this round.
NewBridge == [at |-> "new", lease |-> 0, known |-> {}, tried |-> -1, probed |-> 0,
              age |-> KeepAlive, sock |-> NoSocket, got |-> NoPoll]

At(b, place) == bridge[b].at = place
Runs(b) == ~At(b, "new") /\ ~At(b, "exited")
Becomes(b, state) == bridge' = [bridge EXCEPT ![b] = state]
GoesTo(b, place) == Becomes(b, [bridge[b] EXCEPT !.at = place, !.got = NoPoll])

Calls(b) == waited' = waited \cup {b}
GatewayIdle == Silent /\ UNCHANGED gatewayVars
Fault == faults < MaxFaults /\ faults' = faults + 1

-----------------------------------------------------------------------------
(* Registration. *)

\* Processes are numbered in the order of their starts.  Bound of the model:
\* beside another process one starts only in a behaviour without other faults.
StartBridge(b) ==
  /\ At(b, "new")
  /\ \A other \in Ids : other < b => ~At(other, "new")
  /\ IF \E other \in Ids : Runs(other)
     THEN faults = 0 /\ faults' = MaxFaults
     ELSE UNCHANGED faults
  /\ GoesTo(b, "start")
  /\ Calls(b)
  /\ GatewayIdle
  /\ UNCHANGED native

\* BridgeOwner.register when it succeeds: everything read under the old lease
\* is forgotten, the connection is not touched.
\* Variation: the probe revision is not forgotten.
RegisteredKeepingProbe(s, lease) ==
  [s EXCEPT !.at = "connect", !.lease = lease, !.known = {}, !.tried = -1, !.age = KeepAlive]
Registered(s, lease) ==
  [s EXCEPT !.at = "connect", !.lease = lease, !.known = {}, !.tried = -1, !.age = KeepAlive,
            !.probed = 0]

\* The first registration is tried until it succeeds.  In the main loop an
\* exception leaves the loop of registrations, and the next call is a poll
\* under the old lease: the registration or its answer may have been lost.
CallFailed(b) == GoesTo(b, IF At(b, "start") THEN "start" ELSE "connect")

Refused(b) == ~Admits(b) /\ GatewayIdle

Register(b) ==
  /\ At(b, "start") \/ At(b, "renew")
  /\ Calls(b)
  /\ UNCHANGED native
  /\ \/ /\ RegisterOwner(b) \/ TakeOver(b)
        /\ \/ Becomes(b, Registered(bridge[b], generation')) /\ UNCHANGED faults
           \/ CallFailed(b) /\ Fault
     \/ GatewayIdle /\ CallFailed(b) /\ Fault
     \/ /\ ContestOwner(b) \/ Refused(b)
        /\ UNCHANGED <<bridge, faults>>

-----------------------------------------------------------------------------
(* The main loop. *)

\* reconnect_if_needed: only without a socket is a register frame sent, with
\* the lease now in hand.  handle_connection binds it if owner_matches.
BoundTo(b) == IF bridge[b].lease = generation /\ ownerId # NoOwner THEN generation ELSE 0

Connect(b) ==
  /\ At(b, "connect")
  /\ Becomes(b, [bridge[b] EXCEPT
       !.at = "poll", !.sock = IF @ # NoSocket THEN @ ELSE BoundTo(b)])
  /\ GatewayIdle
  /\ UNCHANGED <<native, waited, faults>>

\* A snapshot of the queue, sent before the poll.  A dead socket is noticed
\* and closed; otherwise the gateway handles the frame under the lease of the
\* connection, and keeps its rejection to itself.
Push(b, s) ==
  /\ At(b, "poll")
  /\ s \in native
  /\ bridge[b].sock # NoSocket
  /\ IF bridge[b].sock = 0
     THEN Becomes(b, [bridge[b] EXCEPT !.sock = NoSocket]) /\ GatewayIdle
     ELSE /\ UNCHANGED bridge
          /\ IF HoldsLease(bridge[b].sock) THEN PostSnapshot(bridge[b].sock, s) ELSE GatewayIdle
  /\ UNCHANGED <<native, waited, faults>>

\* What a bridge makes of an error of the gateway: without a fresh owner it
\* registers again, with another lease in force it exits.
Fenced(b) ==
  /\ ~HoldsLease(bridge[b].lease)
  /\ GatewayIdle
  /\ IF Fresh
     THEN Becomes(b, [NewBridge EXCEPT !.at = "exited"])
     ELSE GoesTo(b, "renew")

PollGateway(b) ==
  /\ At(b, "poll")
  /\ Calls(b)
  /\ UNCHANGED native
  /\ \/ /\ Poll(bridge[b].lease)
        /\ \E pushing \in BOOLEAN :
             Becomes(b, [bridge[b] EXCEPT !.at = "reconcile", !.got = PollResponse(pushing)])
        /\ UNCHANGED faults
     \/ /\ Fenced(b)
        /\ UNCHANGED faults
     \/ /\ Poll(bridge[b].lease) \/ GatewayIdle
        /\ CallFailed(b)
        /\ Fault

\* When the terminal is asked for its list, and not the list from before
\* reported.
KeepAliveDue(s) == s.age >= KeepAlive
ProbeDue(s) ==
  \/ s.got.unsubscribe # {} \/ s.got.subscribe # {}
  \/ s.got.revision # s.tried
  \/ KeepAliveDue(s)
  \/ s.got.probe > s.probed

\* unsubscribe_hq, then subscribe_hq, which the terminal may not honour.
Reconcile(b) ==
  LET s == bridge[b]
  IN  /\ At(b, "reconcile")
      /\ \E ignored \in SUBSET s.got.subscribe :
           /\ IF ignored = {} THEN UNCHANGED faults ELSE Fault
           /\ native' = (native \ s.got.unsubscribe) \cup (s.got.subscribe \ ignored)
      /\ Becomes(b, IF ProbeDue(s)
                    THEN [s EXCEPT !.at = "report", !.tried = s.got.revision, !.age = 0,
                                   !.known = native', !.probed = s.got.probe]
                    ELSE [s EXCEPT !.at = "report"])
      /\ GatewayIdle
      /\ UNCHANGED waited

\* The terminal raises in one of the calls: what was done stays done.  That
\* the list is being read is on record before it is.
ReconcileRaises(b) ==
  LET s == bridge[b]
  IN  /\ At(b, "reconcile")
      /\ \E removed \in {{}, s.got.unsubscribe}, added \in {{}, s.got.subscribe},
            listing \in BOOLEAN :
           /\ added # {} => removed = s.got.unsubscribe
           /\ listing => ProbeDue(s) /\ removed = s.got.unsubscribe /\ added = s.got.subscribe
           /\ native' = (native \ removed) \cup added
           /\ Becomes(b, [s EXCEPT
                !.at = "connect", !.got = NoPoll, !.known = (@ \ removed) \cup added,
                !.tried = IF listing THEN s.got.revision ELSE @,
                !.age = IF listing THEN 0 ELSE @])
      /\ Fault
      /\ GatewayIdle
      /\ UNCHANGED waited

\* The report; rejected are the desired symbols that are not listed.
Report(b) ==
  LET s == bridge[b]
      Post == PostResult(s.lease, s.got.revision, s.known, s.got.desired \subseteq s.known,
                         s.probed)
  IN  /\ At(b, "report")
      /\ Calls(b)
      /\ UNCHANGED native
      /\ \/ Post /\ GoesTo(b, "connect") /\ UNCHANGED faults
         \/ Fenced(b) /\ UNCHANGED faults
         \/ (Post \/ GatewayIdle) /\ CallFailed(b) /\ Fault

-----------------------------------------------------------------------------
(* The environment. *)

\* The list changes by itself: the terminal reconnects, or something else in
\* it subscribes.
TerminalDrifts ==
  /\ \E list \in SUBSET Symbols : list # native /\ native' = list
  /\ Fault
  /\ GatewayIdle
  /\ UNCHANGED <<bridge, waited>>

\* A process hangs for as long as it takes: time no longer waits for it.
Hang(b) ==
  /\ Runs(b) /\ b \notin waited
  /\ Calls(b)
  /\ Fault
  /\ GatewayIdle
  /\ UNCHANGED <<bridge, native>>

\* The TCP connection breaks; the bridge sees it when it next sends.
ConnectionLost(b) ==
  /\ bridge[b].sock > 0
  /\ Becomes(b, [bridge[b] EXCEPT !.sock = 0])
  /\ Fault
  /\ GatewayIdle
  /\ UNCHANGED <<native, waited>>

\* The datasource forgets everything and the clients' requests with it.
DatasourceRestart ==
  /\ ownerId' = NoOwner /\ seenAge' = 0 /\ retired' = {} /\ candidate' = NoCandidate
  /\ desired' = {} /\ revision' = 0
  /\ Invalidate
  /\ reported' = {} /\ probe' = 0 /\ probeDone' = 0
  /\ call' = [k \in Clients |-> NoCall]
  /\ bridge' = [b \in Ids |-> [bridge[b] EXCEPT !.sock = IF @ > 0 THEN 0 ELSE @]]
  /\ Fault
  /\ Silent
  /\ UNCHANGED <<generation, native, waited>>

\* Time passes when every running process has called since the last step of
\* time, or hangs: a loop takes about a second, the lease ten.
SystemTick ==
  /\ \A b \in Ids : Runs(b) => b \in waited
  /\ Tick
  /\ waited' = {}
  /\ bridge' = [b \in Ids |-> [bridge[b] EXCEPT !.age = IF @ < KeepAlive THEN @ + 1 ELSE @]]
  /\ UNCHANGED <<native, faults>>

Control == ControlNext /\ UNCHANGED <<bridge, native, waited, faults>>

-----------------------------------------------------------------------------
\* The lists a read that waits may answer with, a history variable: those the
\* terminal had since the request, and what the calls of a round that failed
\* made of such a list in the memory of the bridge.  That memory is reported
\* without another look if the round came to the reading of the list, which
\* counts as read before it is.
Retold(k) ==
  {bridge'[b].known : b \in {c \in Ids : At(c, "reconcile") /\ bridge[c].known \in shown[k]}}

Observe ==
  shown' = [k \in Clients |->
    CASE call'[k].op # "get" -> {}
      [] call[k].op = "get"  -> shown[k] \cup {native'} \cup Retold(k)
      [] OTHER               -> {native, native'}]

SystemInit ==
  /\ Init
  /\ bridge = [b \in Ids |-> NewBridge]
  /\ native = {}
  /\ waited = {}
  /\ faults = 0
  /\ shown = [k \in Clients |-> {}]

BridgeLoop(b) ==
  Register(b) \/ Connect(b) \/ PollGateway(b) \/ Reconcile(b) \/ Report(b)

SystemNext ==
  \/ \E b \in Ids :
       \/ StartBridge(b) /\ Observe
       \/ BridgeLoop(b) /\ Observe
       \/ ReconcileRaises(b) /\ Observe
       \/ \E s \in Symbols : Push(b, s) /\ Observe
       \/ Hang(b) /\ Observe
       \/ ConnectionLost(b) /\ Observe
  \/ TerminalDrifts /\ Observe
  \/ DatasourceRestart /\ Observe
  \/ SystemTick /\ Observe
  \/ Control /\ Observe

SystemSpec == SystemInit /\ [][SystemNext]_sysVars

\* The processes run, the clock ticks, and the event loop resumes a request
\* whose wait is over.
FairSystemSpec ==
  /\ SystemSpec
  /\ WF_codeVars(SystemTick)
  /\ \A b \in Ids : WF_codeVars(BridgeLoop(b))
  /\ \A k \in Clients :
       WF_codeVars((WaitEnds(k) \/ WaitTimesOut(k))
                     /\ UNCHANGED <<bridge, native, waited, faults>>)

-----------------------------------------------------------------------------
\* A bridge under the lease in force never remembers a probe or a revision
\* the gateway has not given out: otherwise a later read, or a later change,
\* would go unnoticed until the number is reached again.
InStep ==
  \A b \in Ids :
    bridge[b].lease = generation /\ ownerId # NoOwner =>
      bridge[b].probed <= probe /\ bridge[b].tried <= revision

\* A read that succeeds answers with a list that the terminal had while the
\* request waited, or with what the bridge made of such a list by calls of a
\* round that failed, over reports of older lists, lost calls, new leases and
\* restarts.
ReadIsCurrent ==
  [][\A k \in Clients :
       call[k].op = "get" /\ call'[k] = NoCall /\ answer'.result = "success" =>
         answer'.about \in shown[k]]_sysVars

\* Every control request is answered.
ControlsAnswer == \A k \in Clients : ~Idle(k) ~> Idle(k)

\* When faults and changes cease, the terminal lists exactly what is wanted
\* and the gateway knows it, unless no process is left that may hold the
\* lease.
Synced == native = desired /\ observed = desired /\ converged = revision
Converges == <>[]Synced \/ <>[](\A b \in Ids : Runs(b) => b \in retired)

\* mist_tdx_realtime_bridge.py:398: the connection of a bridge follows its
\* lease, or its snapshots would be rejected for ever.
StaleSocket(b) == bridge[b].lease = generation /\ bridge[b].sock \in 1..(generation - 1)
SocketFollowsLease == \A b \in Ids : StaleSocket(b) ~> ~StaleSocket(b)
=============================================================================
