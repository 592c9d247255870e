---------------------------- MODULE BridgeIngest ----------------------------
(***************************************************************************)
(* The way of a quote from the terminal to the WebSocket clients: the      *)
(* callback and the queue of a builtin bridge, its SocketSender, the TCP   *)
(* server (src/datasource/realtime_tcp.py) and the acceptance by the QMT   *)
(* controller or the TDX gateway, which publishes.                         *)
(*                                                                         *)
(* `host' is chosen once.  A QMT callback brings the data, and the queue   *)
(* holds it with the id of its subscription; a TDX callback brings a code, *)
(* and the data is fetched as the queue is drained.  QMT frames carry the  *)
(* lease the bridge has when it sends them, TDX frames are given the lease *)
(* their connection was registered with.                                   *)
(*                                                                         *)
(* The tick of the bridge is here a cycle of polling, connecting and       *)
(* draining.  A lease that is lost while its connection stays is left to   *)
(* TdxRealtimeSystem, and what a poll brings to QmtSubscription.           *)
(*                                                                         *)
(* There is one symbol.  `market' numbers its quotes, and stays at         *)
(* MaxQuotes when it gets there, so that quotes never run out.             *)
(***************************************************************************)
EXTENDS Naturals, Sequences, FiniteSets

CONSTANTS
  Conns,       \* TCP connections that may exist at once, being reused
  NoConn,      \* not a connection
  QueueMax,    \* BRIDGE_QUEUE_MAX
  WireMax,     \* bound: frames in a connection
  MaxQuotes,   \* bound: quotes told apart
  MaxSubs,     \* bound: subscription ids the terminal gives out
  MaxDuring,   \* bound: callbacks during one drain
  MaxBoots,    \* bound: starts of the datasource
  MaxFaults    \* bound: broken connections and frames that are too large

ASSUME IngestAssumptions ==
  /\ NoConn \notin Conns
  /\ QueueMax \in Nat \ {0} /\ WireMax \in Nat \ {0}
  /\ MaxQuotes \in Nat /\ MaxSubs \in Nat \ {0} /\ MaxDuring \in Nat
  /\ MaxBoots \in Nat \ {0} /\ MaxFaults \in Nat

VARIABLES
  host, transport,  \* "qmt" or "tdx"; "tcp" or "http"
  market,           \* the number of the latest quote
  live,             \* the id of the terminal's subscription, 0 for none
  armed,            \* the id its callback holder was activated with
  queue,            \* BRIDGE_QUEUE
  step,             \* the bridge loop: "polling", "subscribing", "connecting" or "draining"
  lease,            \* the lease the bridge has, 0 for none
  during,           \* callbacks since the drain began
  socket,           \* the connection of its sender
  boot,             \* which start of the datasource this is
  owner,            \* the lease of the owner it knows, 0 for none
  owned,            \* the subscription it holds: its id, or 0
  server,           \* the handler of a connection
  bound,            \* the lease a connection was registered with
  wire,             \* frames sent over a connection and not read
  lastOn,           \* history: the latest quote shown of a connection
  faults            \* faults so far

terminal == <<market, live, armed>>
bridge == <<queue, step, lease, socket, during>>
datasource == <<boot, owner, owned>>
connection == <<server, bound, wire, lastOn>>
kind == <<host, transport>>
vars == <<kind, terminal, bridge, datasource, connection, faults>>

Snapshot(n, id, l) == [quote |-> n, sub |-> id, lease |-> l]

Init ==
  /\ host \in {"qmt", "tdx"}
  /\ transport \in {"tcp", "http"}
  /\ market = 0 /\ live = 0 /\ armed = 0
  /\ queue = <<>>
  /\ step = "polling"
  /\ lease = 0
  /\ socket = NoConn
  /\ during = 0
  /\ boot = 1 /\ owner = 0 /\ owned = 0
  /\ server = [k \in Conns |-> "closed"]
  /\ bound = [k \in Conns |-> 0]
  /\ wire = [k \in Conns |-> <<>>]
  /\ lastOn = [k \in Conns |-> 0]
  /\ faults = 0

----------------------------------------------------------------------------
(* The terminal and the callback. *)

\* deque(maxlen=...).append: a full queue forgets its oldest entry.
Pushed(e) == IF Len(queue) < QueueMax THEN Append(queue, e) ELSE Append(Tail(queue), e)

\* A QMT callback whose holder has no id yet, since the native call has not
\* returned, drops what it was given.
QmtQueued(n) == IF armed = live THEN Pushed(Snapshot(n, armed, 0)) ELSE queue

TdxQueued == Pushed(Snapshot(0, 0, 0))

\* The terminal calls back, with a new quote or once more with the last.
Quote ==
  /\ live # 0
  /\ market' \in {market, IF market < MaxQuotes THEN market + 1 ELSE market}
  /\ queue' = IF host = "qmt" THEN QmtQueued(market') ELSE TdxQueued
  /\ step = "draining" => during < MaxDuring
  /\ during' = IF step = "draining" THEN during + 1 ELSE during
  /\ UNCHANGED <<kind, live, armed, step, lease, socket, datasource, connection, faults>>

\* QMT: it calls back with what is not a quote.
QuoteUnusable ==
  /\ host = "qmt" /\ live # 0
  /\ market < MaxQuotes
  /\ faults < MaxFaults
  /\ faults' = faults + 1
  /\ market' = market + 1
  /\ UNCHANGED <<kind, live, armed, bridge, datasource, connection>>

----------------------------------------------------------------------------
(* The bridge's loop: its lease, its subscription, its sender. *)

\* A QMT bridge that learns that it lost its lease forgets it, and registers
\* in the next tick; until then its frames carry none.
QmtForgets == host = "qmt" /\ lease # 0 /\ lease # owner /\ lease' = 0 /\ UNCHANGED owner

\* A TDX bridge registers at once.
Registers ==
  /\ IF host = "qmt" THEN lease = 0 ELSE lease # owner \/ lease = 0
  /\ owner' = boot
  /\ lease' = boot

KeepsLease == lease # 0 /\ lease = owner /\ UNCHANGED <<lease, owner>>

\* Only with the TCP transport is there a sender to drain the queue with.
HasSender == transport = "tcp"

Poll ==
  /\ step = "polling"
  /\ QmtForgets \/ Registers \/ KeepsLease
  /\ step' = IF HasSender THEN "connecting" ELSE "polling"
  /\ UNCHANGED <<kind, terminal, queue, socket, boot, owned, connection, faults, during>>

\* The datasource has the symbol subscribed, anew when it had it before: the
\* terminal gives out an id, and calls back from then on.
Subscribe ==
  /\ step = "polling"
  /\ lease # 0 /\ lease = owner
  /\ owned = 0 \/ live < MaxSubs
  /\ live' = IF live < MaxSubs THEN live + 1 ELSE live
  /\ armed' = 0
  /\ owned' = 0
  /\ step' = "subscribing"
  /\ UNCHANGED <<kind, market, queue, lease, socket, boot, owner, connection, faults, during>>

\* The native call returns the id and the datasource is told.
Subscribed ==
  /\ step = "subscribing"
  /\ armed' = live
  /\ owned' = IF lease = owner THEN live ELSE owned
  /\ step' = "polling"
  /\ UNCHANGED <<kind, market, live, queue, lease, socket, boot, owner, connection, faults, during>>

\* Variation: the register frame of the first connection is sent again.
RegisteringFirst == 1

\* The register frame is made of the lease of now.
Registering == lease

Reconnect ==
  /\ step = "connecting"
  /\ socket = NoConn
  /\ \E k \in Conns :
       /\ server[k] = "closed"
       /\ socket' = k
       /\ server' = [server EXCEPT ![k] = "registering"]
       /\ bound' = [bound EXCEPT ![k] = Registering]
  /\ step' = "draining"
  /\ UNCHANGED <<kind, terminal, queue, lease, datasource, wire, lastOn, faults, during>>

\* The connect fails: the queue is drained without.
ConnectFails ==
  /\ step = "connecting"
  /\ socket = NoConn
  /\ faults < MaxFaults
  /\ faults' = faults + 1
  /\ step' = "draining"
  /\ UNCHANGED <<kind, terminal, queue, lease, socket, datasource, connection, during>>

StayConnected ==
  /\ step = "connecting"
  /\ socket # NoConn
  /\ step' = "draining"
  /\ UNCHANGED <<kind, terminal, queue, lease, socket, datasource, connection, faults, during>>

----------------------------------------------------------------------------
(* _drain_bridge_queue and SocketSender.send. *)

\* Variation: the queue is drained from its new end.
NextNewest == queue[Len(queue)]

\* popleft; TDX fetches the quote of now.
NextQueued == Head(queue)

QmtFrame == [NextQueued EXCEPT !.lease = lease]

TdxFrame == Snapshot(market, 0, 0)

Frame == IF host = "qmt" THEN QmtFrame ELSE TdxFrame

Drained == IF NextQueued = Head(queue) THEN Tail(queue) ELSE SubSeq(queue, 1, Len(queue) - 1)

\* Variation: what cannot be sent stays in the queue.
DroppedKept == queue

\* Without a connection a frame is dropped; reconnecting is for the next tick.
Dropped == Drained

Drop ==
  /\ step = "draining"
  /\ queue # <<>>
  /\ socket = NoConn
  /\ queue' = Dropped
  /\ UNCHANGED <<kind, terminal, step, lease, socket, datasource, connection, faults, during>>

\* The frame is written.  When the peer has closed the connection the system
\* may take it all the same, or the send raises and the socket is given up.
Send ==
  /\ step = "draining"
  /\ queue # <<>>
  /\ socket # NoConn
  /\ queue' = Drained
  /\ \/ /\ server[socket] # "closed"
        /\ Len(wire[socket]) < WireMax
        /\ wire' = [wire EXCEPT ![socket] = Append(@, Frame)]
        /\ UNCHANGED socket
     \/ /\ server[socket] = "closed"
        /\ socket' = NoConn
        /\ UNCHANGED wire
  /\ UNCHANGED <<kind, terminal, step, lease, datasource, server, bound, lastOn, faults, during>>

SendIsLost ==
  /\ step = "draining"
  /\ queue # <<>>
  /\ socket # NoConn
  /\ server[socket] = "closed"
  /\ faults < MaxFaults
  /\ faults' = faults + 1
  /\ queue' = Drained
  /\ UNCHANGED <<kind, terminal, step, lease, socket, datasource, connection, during>>

\* A frame above FRAME_MAX_BYTES: the send raises, and the socket is closed
\* with it.
SendTooLarge ==
  /\ step = "draining"
  /\ queue # <<>>
  /\ socket # NoConn
  /\ faults < MaxFaults
  /\ faults' = faults + 1
  /\ queue' = Drained
  /\ socket' = NoConn
  /\ UNCHANGED <<kind, terminal, step, lease, datasource, connection, during>>

\* TDX: the terminal had no quote to give.
FetchNone ==
  /\ step = "draining"
  /\ queue # <<>>
  /\ host = "tdx"
  /\ faults < MaxFaults
  /\ faults' = faults + 1
  /\ queue' = Drained
  /\ UNCHANGED <<kind, terminal, step, lease, socket, datasource, connection, during>>

DrainEnds ==
  /\ step = "draining"
  /\ queue = <<>>
  /\ step' = "polling"
  /\ during' = 0
  /\ UNCHANGED <<kind, terminal, queue, lease, socket, datasource, connection, faults>>

----------------------------------------------------------------------------
(* handle_connection. *)

Closes(k) ==
  /\ server' = [server EXCEPT ![k] = "closed"]
  /\ bound' = [bound EXCEPT ![k] = 0]
  /\ wire' = [wire EXCEPT ![k] = <<>>]
  /\ lastOn' = [lastOn EXCEPT ![k] = 0]

\* The register frame.  Only TDX has its lease validated.
Register(k) ==
  /\ server[k] = "registering"
  /\ IF host = "tdx" /\ (owner = 0 \/ bound[k] # owner)
     THEN Closes(k)
     ELSE /\ server' = [server EXCEPT ![k] = "reading"]
          /\ UNCHANGED <<bound, wire, lastOn>>
  /\ UNCHANGED <<kind, terminal, bridge, datasource, faults>>

\* accept_snapshot: the lease of the frame and the owner of its subscription.
QmtAccepts(f) == owned # 0 /\ f.lease = owner /\ f.sub = owned

\* post_snapshot, with the identity of the connection.
TdxAccepts(k) == owned # 0 /\ bound[k] = owner

Acceptable(k) ==
  owner # 0 /\ IF host = "qmt" THEN QmtAccepts(Head(wire[k])) ELSE TdxAccepts(k)

\* It is published, and the handler awaits the broadcast.
Show(k) ==
  /\ server[k] = "reading"
  /\ wire[k] # <<>>
  /\ Acceptable(k)
  /\ server' = [server EXCEPT ![k] = "publishing"]
  /\ lastOn' = [lastOn EXCEPT ![k] = Head(wire[k]).quote]
  /\ wire' = [wire EXCEPT ![k] = Tail(@)]
  /\ UNCHANGED <<kind, terminal, bridge, datasource, bound, faults>>

\* A rejection is logged and the next frame is read.
Reject(k) ==
  /\ server[k] = "reading"
  /\ wire[k] # <<>>
  /\ ~Acceptable(k)
  /\ wire' = [wire EXCEPT ![k] = Tail(@)]
  /\ UNCHANGED <<kind, terminal, bridge, datasource, server, bound, lastOn, faults>>

\* A native value that is unsafe, or not of its contract, is rejected too.
RejectUnsafe(k) ==
  /\ server[k] = "reading"
  /\ wire[k] # <<>>
  /\ faults < MaxFaults
  /\ faults' = faults + 1
  /\ wire' = [wire EXCEPT ![k] = Tail(@)]
  /\ UNCHANGED <<kind, terminal, bridge, datasource, server, bound, lastOn>>

\* The broadcast ends.
Published(k) ==
  /\ server[k] = "publishing"
  /\ server' = [server EXCEPT ![k] = "reading"]
  /\ UNCHANGED <<kind, terminal, bridge, datasource, bound, wire, lastOn, faults>>

\* What the bridge wrote before it closed the connection is read to the end.
EndOfStream(k) ==
  /\ server[k] = "reading"
  /\ socket # k
  /\ wire[k] = <<>>
  /\ Closes(k)
  /\ UNCHANGED <<kind, terminal, bridge, datasource, faults>>

Break(k) ==
  /\ server[k] # "closed"
  /\ faults < MaxFaults
  /\ faults' = faults + 1
  /\ Closes(k)
  /\ UNCHANGED <<kind, terminal, bridge, datasource>>

\* The datasource starts again: no owner, no subscriptions, no connections.
Restart ==
  /\ boot < MaxBoots
  /\ boot' = boot + 1
  /\ owner' = 0
  /\ owned' = 0
  /\ server' = [k \in Conns |-> "closed"]
  /\ bound' = [k \in Conns |-> 0]
  /\ wire' = [k \in Conns |-> <<>>]
  /\ lastOn' = [k \in Conns |-> 0]
  /\ UNCHANGED <<kind, terminal, bridge, faults>>

----------------------------------------------------------------------------
Handling(k) ==
  Register(k) \/ Show(k) \/ Reject(k) \/ Published(k) \/ EndOfStream(k)

Draining == Drop \/ Send
Bridging == Poll \/ Subscribed \/ Reconnect \/ StayConnected \/ Draining \/ DrainEnds

Next ==
  \/ Quote \/ Bridging \/ Subscribe
  \/ QuoteUnusable \/ ConnectFails \/ SendIsLost \/ SendTooLarge \/ FetchNone
  \/ \E k \in Conns : Handling(k) \/ RejectUnsafe(k) \/ Break(k)
  \/ Restart

\* The terminal keeps calling back while something is subscribed; the bridge's
\* loop runs, and runs faster than the callbacks fill its queue; a client has
\* subscribed again what is not; handlers read, and broadcasts end.
Fairness ==
  /\ WF_vars(Quote) /\ WF_vars(Bridging)
  /\ SF_vars(owned = 0 /\ Subscribe)
  /\ \A k \in Conns : WF_vars(Handling(k))

Spec == Init /\ [][Next]_vars /\ Fairness

----------------------------------------------------------------------------
\* The clients are shown the quotes that come over a connection in the order
\* the terminal had them (the bridge's deque and drain, SocketSender, the
\* inline ingest of handle_connection): a later snapshot is never followed by
\* an older one, unless the connection was replaced in between.
InCaptureOrder ==
  [][\A k \in Conns : server'[k] = "publishing" => lastOn'[k] >= lastOn[k]]_vars

\* With the TCP transport a queue is drained, connection or not
\* (mist_qmt_realtime_bridge_tick, run_bridge, _drain_bridge_queue): what
\* waits there never outlives the tick it could be sent in.  With the HTTP
\* transport, which both bridges name, nothing drains it.
QueueDrains == transport = "tcp" => ((queue # <<>>) ~> (queue = <<>>))

\* After the last fault and the last restart the clients are shown quotes
\* again, and on and on (reconnect_if_needed, _make_register_frame, register).
\* A TDX lease that is lost while its connection stays is not part of it.
QuotesFlow == transport = "tcp" => []<><<\E k \in Conns : Show(k)>>_vars
=============================================================================
