---------------------------- MODULE WsConnections ----------------------------
(***************************************************************************)
(* The WebSocket clients of a realtime datasource: the ConnectionManager   *)
(* (src/ws/manager.py), the handler every connection runs (the /ws/        *)
(* realtime routes of the QMT and the TDX service), and, for QMT, the      *)
(* leader the collector keeps (src/datasource/qmt/realtime/runtime.py).    *)
(*                                                                         *)
(* Both services run the same manager, each its own; their handlers differ *)
(* in how they write to their client.  `provider' is chosen once, so that  *)
(* one model has the behaviours of either.                                 *)
(*                                                                         *)
(* A step is what runs between two awaits.  Handlers and broadcasts        *)
(* interleave; the manager's asyncio.Lock is `lock', which only a handler  *)
(* that is accepting its socket keeps over an await.                       *)
(***************************************************************************)
EXTENDS Naturals, FiniteSets

CONSTANTS
  Sockets,      \* the connections ever opened, each with its handler
  Clients,      \* client ids
  NameOf,       \* the client id a socket connects with
  Broadcasts,   \* the broadcasts that may be under way at once
  NoSocket,     \* not a socket
  NoClient,     \* not a client
  MaxTimeouts   \* bound: sends that time out on a socket that is open

ASSUME ConnectionAssumptions ==
  /\ NameOf \in [Sockets -> Clients]
  /\ NoSocket \notin Sockets
  /\ NoClient \notin Clients
  /\ MaxTimeouts \in Nat

VARIABLES
  provider,     \* whose handlers run: "qmt" or "tdx"
  connections,  \* manager._connections
  lock,         \* manager._lock: the handler that keeps it, or NoSocket
  handler,      \* where the handler of a socket is
  up,           \* the server has not yet noticed the end of the socket
  leader,       \* collector.leader_client_id
  connected,    \* collector.connected_clients
  pending,      \* of a broadcast: sockets it still sends to
  failures,     \* of a broadcast: sockets it failed to send to
  phase,        \* of a broadcast: "idle" or "sending"
  failed,       \* history: the sockets a send failed or timed out on
  timeouts      \* sends that timed out so far

manager == <<connections, lock>>
collector == <<leader, connected>>
broadcasting == <<pending, failures, phase>>
vars == <<provider, manager, handler, up, collector, broadcasting, failed, timeouts>>

Phases == {"new", "accepting", "ready", "serving", "replying", "dropping",
           "closing", "done", "leaked"}

\* A handler whose end the `finally' of its route will see to.
Guarded == {"serving", "replying", "dropping", "closing"}

\* A handler that has registered its socket and has not run to its end.
Attached == Guarded \cup {"ready"}

Registered(s) == connections[NameOf[s]] = s

Init ==
  /\ provider \in {"qmt", "tdx"}
  /\ connections = [n \in Clients |-> NoSocket]
  /\ lock = NoSocket
  /\ handler = [s \in Sockets |-> "new"]
  /\ up = [s \in Sockets |-> TRUE]
  /\ leader = NoClient
  /\ connected = {}
  /\ pending = [b \in Broadcasts |-> {}]
  /\ failures = [b \in Broadcasts |-> {}]
  /\ phase = [b \in Broadcasts |-> "idle"]
  /\ failed = {}
  /\ timeouts = 0

----------------------------------------------------------------------------
(* The collector's leadership. *)

MayLead(n) == leader \in {NoClient, n}

ClaimLeader(n) ==
  /\ connected' = connected \cup {n}
  /\ leader' = IF MayLead(n) THEN n ELSE leader

\* Variation: whoever leads, the end of a handler leaves the leader alone.
LeaveCollectorLeading(n) ==
  /\ connected' = connected \ {n}
  /\ leader' = leader

LeaveCollector(n) ==
  /\ connected' = connected \ {n}
  /\ leader' = IF leader = n THEN NoClient ELSE leader

----------------------------------------------------------------------------
(* connect_unique: the check, the accept and the registration under the    *)
(* lock.                                                                   *)

\* Variation: connect, which registers whether or not the id is in use.
ConnectAnyway(s) ==
  /\ handler[s] = "new"
  /\ lock = NoSocket
  /\ lock' = s
  /\ handler' = [handler EXCEPT ![s] = "accepting"]
  /\ UNCHANGED <<provider, connections, up, collector, broadcasting, failed, timeouts>>

Connect(s) ==
  /\ handler[s] = "new"
  /\ lock = NoSocket
  /\ \/ /\ connections[NameOf[s]] = NoSocket
        /\ lock' = s
        /\ handler' = [handler EXCEPT ![s] = "accepting"]
     \/ /\ connections[NameOf[s]] # NoSocket  \* refused and closed
        /\ lock' = lock
        /\ handler' = [handler EXCEPT ![s] = "done"]
  /\ UNCHANGED <<provider, connections, up, collector, broadcasting, failed, timeouts>>

\* The socket is accepted and registered; QMT's handler then claims the
\* leadership and awaits the startup reconciliation before it sends its
\* ready, TDX's sends its ready at once.
Accepted(s) ==
  /\ handler[s] = "accepting"
  /\ connections' = [connections EXCEPT ![NameOf[s]] = s]
  /\ lock' = NoSocket
  /\ handler' = [handler EXCEPT ![s] = "ready"]
  /\ \/ provider = "qmt" /\ ClaimLeader(NameOf[s])
     \/ provider = "tdx" /\ UNCHANGED collector
  /\ UNCHANGED <<provider, up, broadcasting, failed, timeouts>>

\* accept raises on a peer that has gone: nothing was registered.
AcceptFails(s) ==
  /\ handler[s] = "accepting"
  /\ ~up[s]
  /\ lock' = NoSocket
  /\ handler' = [handler EXCEPT ![s] = "done"]
  /\ UNCHANGED <<provider, connections, up, collector, broadcasting, failed, timeouts>>

----------------------------------------------------------------------------
(* Writing to a client.  QMT writes to the socket of the handler; TDX asks *)
(* send_to_client, which looks the client id up, and on a failure removes  *)
(* whatever is registered for the id by then, except to turn down a        *)
(* message with fields it does not know (_send_invalid_fields).            *)

\* websocket.send_text of a handler, by where the handler is afterwards.
WriteDirectly(s, sent, broken) ==
  /\ handler' = [handler EXCEPT ![s] = IF up[s] THEN sent ELSE broken]
  /\ failed' = IF up[s] THEN failed ELSE failed \cup {s}

SendToClient(s) ==
  LET ws == connections[NameOf[s]]
      broken == ws # NoSocket /\ ~up[ws]
  IN /\ provider = "tdx"
     /\ handler' = [handler EXCEPT ![s] = IF broken THEN "dropping" ELSE "serving"]
     /\ failed' = IF broken THEN failed \cup {ws} ELSE failed

\* The ready message.  QMT sends it ahead of its try block: a failure ends
\* the handler and leaves its registration and its leadership behind.
SendReady(s) ==
  /\ handler[s] = "ready"
  /\ \/ provider = "qmt" /\ WriteDirectly(s, "serving", "leaked")
     \/ SendToClient(s)
  /\ UNCHANGED <<provider, manager, up, collector, broadcasting, timeouts>>

\* manager.disconnect after a send of send_to_client failed.
DropClient(s) ==
  /\ handler[s] = "dropping"
  /\ lock = NoSocket
  /\ connections' = [connections EXCEPT ![NameOf[s]] = NoSocket]
  /\ handler' = [handler EXCEPT ![s] = "serving"]
  /\ UNCHANGED <<provider, lock, up, collector, broadcasting, failed, timeouts>>

----------------------------------------------------------------------------
(* The loop of a handler. *)

\* A ping, or a message that is refused for its form.
Ping(s) ==
  /\ handler[s] = "serving"
  /\ up[s]
  /\ handler' = [handler EXCEPT ![s] = "replying"]
  /\ UNCHANGED <<provider, manager, up, collector, broadcasting, failed, timeouts>>

\* A subscription command: the controller's execute, or the gateway's
\* execute_control, is awaited before the reply and leaves the connections
\* alone.
Asked(s) ==
  /\ handler[s] = "serving"
  /\ up[s]
  /\ handler' = [handler EXCEPT ![s] = "replying"]
  /\ UNCHANGED <<provider, manager, up, broadcasting, failed, timeouts>>

\* To QMT's controller: the handler takes the leadership when nobody has it,
\* and turns the command down when another client leads.
LedCommand(s) == provider = "qmt" /\ Asked(s) /\ ClaimLeader(NameOf[s])

\* To TDX's gateway, which any client may command.
FreeCommand(s) == provider = "tdx" /\ Asked(s) /\ UNCHANGED collector

\* What was asked raises, whatever the state of the socket.
Raises(s) ==
  /\ handler' = [handler EXCEPT ![s] = "closing"]
  /\ UNCHANGED failed

\* The reply, or the end of the handler when it cannot be written or made: the
\* collector forgets the client as the `finally' begins.
Reply(s) ==
  /\ handler[s] = "replying"
  /\ WriteDirectly(s, "serving", "closing") \/ SendToClient(s) \/ Raises(s)
  /\ IF handler'[s] = "closing" THEN LeaveCollector(NameOf[s])
                                ELSE UNCHANGED collector
  /\ UNCHANGED <<provider, manager, up, broadcasting, timeouts>>

\* receive_text raises WebSocketDisconnect.
Disconnected(s) ==
  /\ handler[s] = "serving"
  /\ ~up[s]
  /\ handler' = [handler EXCEPT ![s] = "closing"]
  /\ IF provider = "qmt" THEN LeaveCollector(NameOf[s]) ELSE UNCHANGED collector
  /\ UNCHANGED <<provider, manager, up, broadcasting, failed, timeouts>>

\* manager.disconnect at the end of the `finally': by client id.
Unregister(s) ==
  /\ handler[s] = "closing"
  /\ lock = NoSocket
  /\ connections' = [connections EXCEPT ![NameOf[s]] = NoSocket]
  /\ handler' = [handler EXCEPT ![s] = "done"]
  /\ UNCHANGED <<provider, lock, up, collector, broadcasting, failed, timeouts>>

\* The peer goes away, or the network does.
HangUp(s) ==
  /\ handler[s] \in Attached \cup {"accepting"}
  /\ up[s]
  /\ up' = [up EXCEPT ![s] = FALSE]
  /\ UNCHANGED <<provider, manager, handler, collector, broadcasting, failed, timeouts>>

----------------------------------------------------------------------------
(* broadcast: it copies the registrations under the lock, sends to all of  *)
(* them without it, and takes it again to evict those it could not reach.  *)

StartBroadcast(b) ==
  /\ phase[b] = "idle"
  /\ lock = NoSocket
  /\ pending' = [pending EXCEPT ![b] = {s \in Sockets : Registered(s)}]
  /\ failures' = [failures EXCEPT ![b] = {}]
  /\ phase' = [phase EXCEPT ![b] = "sending"]
  /\ UNCHANGED <<provider, manager, handler, up, collector, failed, timeouts>>

Sent(b, s) ==
  /\ s \in pending[b]
  /\ pending' = [pending EXCEPT ![b] = @ \ {s}]
  /\ \/ /\ up[s]
        /\ UNCHANGED <<failures, failed>>
     \/ /\ ~up[s]
        /\ failures' = [failures EXCEPT ![b] = @ \cup {s}]
        /\ failed' = failed \cup {s}
  /\ UNCHANGED <<provider, manager, handler, up, collector, phase, timeouts>>

\* A client that is connected and does not read.
SendTimesOut(b, s) ==
  /\ s \in pending[b]
  /\ up[s]
  /\ timeouts < MaxTimeouts
  /\ timeouts' = timeouts + 1
  /\ pending' = [pending EXCEPT ![b] = @ \ {s}]
  /\ failures' = [failures EXCEPT ![b] = @ \cup {s}]
  /\ failed' = failed \cup {s}
  /\ UNCHANGED <<provider, manager, handler, up, collector, phase>>

\* Variation: the client ids of the failed sends are evicted.
EvictIds(b) == [n \in Clients |->
                  IF \E s \in failures[b] : NameOf[s] = n THEN NoSocket ELSE connections[n]]

\* Variation: a failed send is logged and nobody is evicted.
EvictNobody(b) == connections

\* What is left of the registrations: a socket is evicted, never its client
\* id, which another socket may have by now.
Evict(b) == [n \in Clients |->
               IF connections[n] \in failures[b] THEN NoSocket ELSE connections[n]]

FinishBroadcast(b) ==
  /\ phase[b] = "sending"
  /\ pending[b] = {}
  /\ failures[b] # {} => lock = NoSocket
  /\ connections' = Evict(b)
  /\ phase' = [phase EXCEPT ![b] = "idle"]
  /\ failures' = [failures EXCEPT ![b] = {}]
  /\ UNCHANGED <<provider, lock, handler, up, collector, pending, failed, timeouts>>

----------------------------------------------------------------------------
Handling(s) ==
  \/ Connect(s) \/ Accepted(s) \/ AcceptFails(s) \/ SendReady(s)
  \/ DropClient(s) \/ Reply(s) \/ Disconnected(s) \/ Unregister(s)

Broadcasting(b) ==
  \/ StartBroadcast(b) \/ FinishBroadcast(b) \/ \E s \in Sockets : Sent(b, s)

Next ==
  \/ \E s \in Sockets : Handling(s) \/ Ping(s) \/ LedCommand(s) \/ FreeCommand(s) \/ HangUp(s)
  \/ \E b \in Broadcasts : Broadcasting(b) \/ \E s \in Sockets : SendTimesOut(b, s)

\* A handler that has something to do does it; snapshots keep coming, and a
\* broadcast ends, since its sends are bounded by a timeout.
Fairness ==
  /\ \A s \in Sockets : WF_vars(Handling(s))
  /\ \A b \in Broadcasts : WF_vars(Broadcasting(b))

Spec == Init /\ [][Next]_vars /\ Fairness

----------------------------------------------------------------------------
\* A connection that is being served is the registered one of its client id,
\* unless a send failed on it or on another connection of the id
\* (ConnectionManager.connect_unique, disconnect and broadcast): two clients
\* of one id never share the service while nothing fails.
KeepsItsPlace ==
  \A s \in Sockets : handler[s] \in Attached \ {"closing"} /\ ~Registered(s) =>
    \E t \in Sockets : NameOf[t] = NameOf[s] /\ t \in failed

\* The leader is a client with a handler that has not run to its end, or one
\* whose handler failed before its try block
\* (QmtRealtimeCollector.claim_leader, disconnect): a client that went away
\* in any other way does not keep the others from the subscriptions.
LeaderIsAttached ==
  leader # NoClient =>
    \E s \in Sockets : NameOf[s] = leader /\ handler[s] \in (Attached \ {"closing"}) \cup {"leaked"}

\* A broadcast takes away only registrations of sockets it failed to send to,
\* though clients come and go while it sends (ConnectionManager.broadcast).
EvictsOnlyFailed ==
  [][\A b \in Broadcasts, n \in Clients :
       phase[b] = "sending" /\ phase'[b] = "idle" /\ connections'[n] # connections[n]
         => connections[n] \in failures[b]]_vars

IsDead(s) == s # NoSocket /\ ~up[s]

\* A client whose connection is gone can connect again: its registration is
\* removed, by its handler or, when that ended before its try block, by a
\* broadcast (websocket_quote, tdx_realtime, ConnectionManager.broadcast).
IdComesFree ==
  \A n \in Clients : IsDead(connections[n]) ~> ~IsDead(connections[n])
=============================================================================
