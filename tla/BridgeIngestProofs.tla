------------------------- MODULE BridgeIngestProofs -------------------------
(***************************************************************************)
(* Proofs about BridgeIngest, for every number of connections, quotes,     *)
(* subscriptions, callbacks, restarts and faults.                          *)
(*                                                                         *)
(* That clients are shown the quotes of a connection in the order the      *)
(* terminal had them is a matter of every place a quote passes.  The       *)
(* invariant OnTheWay follows it: the queue of a QMT bridge is in order,   *)
(* what was written to a connection is in order and is not newer than what *)
(* the queue still holds for it, and nothing of it is older than what was  *)
(* shown of that connection.  A connection that was closed forgets what    *)
(* was shown of it, as the property does.                                  *)
(***************************************************************************)
EXTENDS BridgeIngest, TLAPS

Entries == [quote : Nat, sub : Nat, lease : Nat]

IngestTypeOK ==
  /\ host \in {"qmt", "tdx"} /\ transport \in {"tcp", "http"}
  /\ market \in Nat /\ live \in Nat /\ armed \in Nat
  /\ queue \in Seq(Entries)
  /\ step \in {"polling", "subscribing", "connecting", "draining"}
  /\ lease \in Nat /\ during \in Nat /\ socket \in Conns \cup {NoConn}
  /\ boot \in Nat /\ owner \in Nat /\ owned \in Nat /\ faults \in Nat
  /\ server \in [Conns -> {"closed", "registering", "reading", "publishing"}]
  /\ bound \in [Conns -> Nat] /\ lastOn \in [Conns -> Nat]
  /\ wire \in [Conns -> Seq(Entries)]

\* The quotes of a sequence are not older than n, and not newer.
Since(n, s) == \A i \in 1..Len(s) : n <= s[i].quote
UpTo(n, s) == \A i \in 1..Len(s) : s[i].quote <= n
Ordered(s) == \A i, j \in 1..Len(s) : i <= j => s[i].quote <= s[j].quote

\* TDX entries have no quote of their own until they are sent.
Waiting == IF host = "qmt" THEN queue ELSE <<>>

QueueInOrder == Ordered(Waiting) /\ UpTo(market, Waiting)

WiresInOrder ==
  \A k \in Conns :
    /\ Ordered(wire[k]) /\ UpTo(market, wire[k])
    /\ Since(lastOn[k], wire[k]) /\ lastOn[k] <= market

\* What is still in the queue follows what was sent over the connection.
QueueFollowsWire ==
  socket # NoConn =>
    /\ Since(lastOn[socket], Waiting)
    /\ \A i \in 1..Len(wire[socket]) : Since(wire[socket][i].quote, Waiting)

ClosedIsEmpty == \A k \in Conns : server[k] = "closed" => wire[k] = <<>> /\ lastOn[k] = 0

OnTheWay == QueueInOrder /\ WiresInOrder /\ QueueFollowsWire /\ ClosedIsEmpty

-----------------------------------------------------------------------------
(* Sequences of entries. *)

LEMMA QuotesTyped ==
  ASSUME NEW s \in Seq(Entries)
  PROVE  Since(0, s) /\ \A i \in 1..Len(s) : s[i] \in Entries /\ s[i].quote \in Nat
<1>1. \A i \in 1..Len(s) : s[i] \in Entries
  OBVIOUS
<1>2. \A e \in Entries : e.quote \in Nat /\ 0 <= e.quote
  BY DEF Entries
<1> QED BY <1>1, <1>2 DEF Since

LEMMA TailKeeps ==
  ASSUME NEW s \in Seq(Entries), s # <<>>
  PROVE  /\ Head(s) = s[1] /\ Head(s) \in Entries /\ Tail(s) \in Seq(Entries)
         /\ Len(s) \in Nat \ {0} /\ Len(Tail(s)) = Len(s) - 1
         /\ \A i \in 1..Len(Tail(s)) : Tail(s)[i] = s[i + 1] /\ i + 1 \in 1..Len(s)
         /\ Ordered(s) => Ordered(Tail(s)) /\ Since(Head(s).quote, Tail(s))
         /\ \A n \in Nat : (Since(n, s) => Since(n, Tail(s))) /\ (UpTo(n, s) => UpTo(n, Tail(s)))
<1>1. /\ Head(s) = s[1] /\ Head(s) \in Entries /\ Tail(s) \in Seq(Entries)
      /\ Len(s) \in Nat \ {0} /\ Len(Tail(s)) = Len(s) - 1
  OBVIOUS
<1>2. \A i \in 1..Len(Tail(s)) : Tail(s)[i] = s[i + 1] /\ i + 1 \in 1..Len(s)
  BY <1>1
<1>3. \A n \in Nat : (Since(n, s) => Since(n, Tail(s))) /\ (UpTo(n, s) => UpTo(n, Tail(s)))
  BY <1>1, <1>2 DEF Since, UpTo
<1>4. ASSUME Ordered(s)
      PROVE  Ordered(Tail(s)) /\ Since(Head(s).quote, Tail(s))
  <2>1. Ordered(Tail(s))
    <3> SUFFICES ASSUME NEW i \in 1..Len(Tail(s)), NEW j \in 1..Len(Tail(s)), i <= j
                 PROVE  Tail(s)[i].quote <= Tail(s)[j].quote
      BY DEF Ordered
    <3>1. i + 1 \in 1..Len(s) /\ j + 1 \in 1..Len(s) /\ i + 1 <= j + 1
      BY <1>1, <1>2
    <3>2. s[i + 1].quote <= s[j + 1].quote
      BY <1>4, <3>1 DEF Ordered
    <3> QED BY <1>2, <3>2
  <2>2. \A i \in 1..Len(s) : s[1].quote <= s[i].quote
    <3> SUFFICES ASSUME NEW i \in 1..Len(s) PROVE s[1].quote <= s[i].quote
      OBVIOUS
    <3>1. 1 \in 1..Len(s) /\ 1 <= i
      BY <1>1
    <3> QED BY <1>4, <3>1 DEF Ordered
  <2> QED BY <1>1, <1>2, <2>1, <2>2 DEF Since
<1> QED BY <1>1, <1>2, <1>3, <1>4

LEMMA AppendKeeps ==
  ASSUME NEW s \in Seq(Entries), NEW e \in Entries
  PROVE  /\ Append(s, e) \in Seq(Entries)
         /\ Ordered(s) /\ UpTo(e.quote, s) => Ordered(Append(s, e))
         /\ \A n \in Nat : /\ Since(n, s) /\ n <= e.quote => Since(n, Append(s, e))
                           /\ UpTo(n, s) /\ e.quote <= n => UpTo(n, Append(s, e))
<1>1. /\ Append(s, e) \in Seq(Entries) /\ Len(s) \in Nat
      /\ Len(Append(s, e)) = Len(s) + 1 /\ Append(s, e)[Len(s) + 1] = e
      /\ \A i \in 1..Len(s) : Append(s, e)[i] = s[i]
  OBVIOUS
<1>2. \A i \in 1..Len(Append(s, e)) : i \in 1..Len(s) \/ i = Len(s) + 1
  BY <1>1
<1>3. \A n \in Nat : /\ Since(n, s) /\ n <= e.quote => Since(n, Append(s, e))
                     /\ UpTo(n, s) /\ e.quote <= n => UpTo(n, Append(s, e))
  BY <1>1, <1>2 DEF Since, UpTo
<1>4. ASSUME Ordered(s), UpTo(e.quote, s) PROVE Ordered(Append(s, e))
  <2> SUFFICES ASSUME NEW i \in 1..Len(Append(s, e)), NEW j \in 1..Len(Append(s, e)), i <= j
               PROVE  Append(s, e)[i].quote <= Append(s, e)[j].quote
    BY DEF Ordered
  <2>1. CASE j \in 1..Len(s)
    <3>1. i \in 1..Len(s)
      BY <1>1, <2>1
    <3> QED BY <1>1, <1>4, <2>1, <3>1 DEF Ordered
  <2>2. CASE j = Len(s) + 1 /\ i \in 1..Len(s)
    BY <1>1, <1>4, <2>2 DEF UpTo
  <2>3. CASE j = Len(s) + 1 /\ i = Len(s) + 1
    BY <1>1, <2>3 DEF Entries
  <2> QED BY <1>2, <2>1, <2>2, <2>3
<1> QED BY <1>1, <1>3, <1>4

LEMMA EmptyKeeps ==
  /\ <<>> \in Seq(Entries) /\ Ordered(<<>>)
  /\ \A n \in Nat : Since(n, <<>>) /\ UpTo(n, <<>>)
BY DEF Ordered, Since, UpTo

LEMMA UpToLater ==
  ASSUME NEW s \in Seq(Entries), NEW m \in Nat, NEW n \in Nat, UpTo(m, s), m <= n
  PROVE  UpTo(n, s)
<1> SUFFICES ASSUME NEW i \in 1..Len(s) PROVE s[i].quote <= n
  BY DEF UpTo
<1>1. s[i] \in Entries /\ s[i].quote <= m
  BY DEF UpTo
<1> QED BY <1>1 DEF Entries

-----------------------------------------------------------------------------
(* The types. *)

LEMMA PushedTyped ==
  ASSUME IngestTypeOK, NEW e \in Entries
  PROVE  Pushed(e) \in Seq(Entries)
<1>1. CASE Len(queue) < QueueMax
  BY <1>1, AppendKeeps DEF Pushed, IngestTypeOK
<1>2. CASE ~(Len(queue) < QueueMax)
  <2>1. queue # <<>>
    BY <1>2, IngestAssumptions
  <2>2. Tail(queue) \in Seq(Entries)
    BY <2>1, TailKeeps DEF IngestTypeOK
  <2> QED BY <1>2, <2>2, AppendKeeps DEF Pushed
<1> QED BY <1>1, <1>2

LEMMA FrameTyped ==
  ASSUME IngestTypeOK, queue # <<>>
  PROVE  Frame \in Entries /\ Drained = Tail(queue) /\ Drained \in Seq(Entries)
<1>1. Head(queue) \in Entries /\ Tail(queue) \in Seq(Entries)
  BY TailKeeps DEF IngestTypeOK
<1> QED
  BY <1>1 DEF IngestTypeOK, Entries, Frame, QmtFrame, TdxFrame, NextQueued, Drained, Snapshot

LEMMA InitTyped == Init => IngestTypeOK
BY IngestAssumptions, EmptyKeeps DEF Init, IngestTypeOK

LEMMA QuoteTyped == IngestTypeOK /\ Quote => IngestTypeOK'
<1> SUFFICES ASSUME IngestTypeOK, Quote PROVE IngestTypeOK'
  OBVIOUS
<1>1. market' \in Nat
  BY DEF Quote, IngestTypeOK
<1>2. Snapshot(market', armed, 0) \in Entries /\ Snapshot(0, 0, 0) \in Entries
  BY <1>1 DEF IngestTypeOK, Entries, Snapshot
<1>3. queue' \in Seq(Entries)
  <2>1. /\ Pushed(Snapshot(market', armed, 0)) \in Seq(Entries)
        /\ Pushed(Snapshot(0, 0, 0)) \in Seq(Entries) /\ queue \in Seq(Entries)
    BY <1>2, PushedTyped DEF IngestTypeOK
  <2> QED BY <2>1 DEF Quote, QmtQueued, TdxQueued
<1>4. during' \in Nat
  BY DEF Quote, IngestTypeOK
<1> QED BY <1>1, <1>3, <1>4 DEF Quote, IngestTypeOK, kind, datasource, connection

LEMMA BridgeTyped ==
  IngestTypeOK /\ (QuoteUnusable \/ Poll \/ Subscribe \/ Subscribed \/ Reconnect
                   \/ ConnectFails \/ StayConnected \/ DrainEnds) => IngestTypeOK'
<1> SUFFICES ASSUME IngestTypeOK
             PROVE  QuoteUnusable \/ Poll \/ Subscribe \/ Subscribed \/ Reconnect
                    \/ ConnectFails \/ StayConnected \/ DrainEnds => IngestTypeOK'
  OBVIOUS
<1> USE DEF IngestTypeOK, kind, terminal, bridge, datasource, connection
<1>1. ASSUME QuoteUnusable PROVE IngestTypeOK'
  BY <1>1 DEF QuoteUnusable
<1>2. ASSUME Poll PROVE IngestTypeOK'
  <2>1. lease' \in Nat /\ owner' \in Nat
    BY <1>2 DEF Poll, QmtForgets, Registers, KeepsLease
  <2>2. step' \in {"polling", "connecting"}
    BY <1>2 DEF Poll
  <2> QED BY <1>2, <2>1, <2>2 DEF Poll
<1>3. ASSUME Subscribe PROVE IngestTypeOK'
  BY <1>3 DEF Subscribe
<1>4. ASSUME Subscribed PROVE IngestTypeOK'
  BY <1>4 DEF Subscribed
<1>5. ASSUME Reconnect PROVE IngestTypeOK'
  <2>1. PICK k \in Conns : /\ socket' = k /\ server' = [server EXCEPT ![k] = "registering"]
                           /\ bound' = [bound EXCEPT ![k] = lease]
    BY <1>5 DEF Reconnect, Registering
  <2>2. server' \in [Conns -> {"closed", "registering", "reading", "publishing"}]
    BY <2>1
  <2>3. bound' \in [Conns -> Nat] /\ socket' \in Conns \cup {NoConn}
    BY <2>1
  <2> QED BY <1>5, <2>2, <2>3 DEF Reconnect
<1>6. ASSUME ConnectFails PROVE IngestTypeOK'
  BY <1>6 DEF ConnectFails
<1>7. ASSUME StayConnected PROVE IngestTypeOK'
  BY <1>7 DEF StayConnected
<1>8. ASSUME DrainEnds PROVE IngestTypeOK'
  BY <1>8 DEF DrainEnds
<1> QED BY <1>1, <1>2, <1>3, <1>4, <1>5, <1>6, <1>7, <1>8

LEMMA DrainTyped ==
  IngestTypeOK /\ (Drop \/ Send \/ SendIsLost \/ SendTooLarge \/ FetchNone) => IngestTypeOK'
<1> SUFFICES ASSUME IngestTypeOK, Drop \/ Send \/ SendIsLost \/ SendTooLarge \/ FetchNone
             PROVE  IngestTypeOK'
  OBVIOUS
<1>1. Frame \in Entries /\ Drained \in Seq(Entries)
  BY FrameTyped DEF Drop, Send, SendIsLost, SendTooLarge, FetchNone
<1> USE DEF IngestTypeOK, kind, terminal, datasource, connection
<1>2. ASSUME Drop PROVE IngestTypeOK'
  BY <1>1, <1>2 DEF Drop, Dropped
<1>3. ASSUME Send PROVE IngestTypeOK'
  <2>1. queue' \in Seq(Entries) /\ socket' \in Conns \cup {NoConn}
    BY <1>1, <1>3 DEF Send
  <2>2. wire' \in [Conns -> Seq(Entries)]
    <3>1. CASE UNCHANGED wire
      BY <3>1
    <3>2. CASE wire' = [wire EXCEPT ![socket] = Append(@, Frame)] /\ socket \in Conns
      <4>1. Append(wire[socket], Frame) \in Seq(Entries)
        BY <1>1, <3>2, AppendKeeps
      <4> QED BY <3>2, <4>1
    <3> QED BY <1>3, <3>1, <3>2 DEF Send
  <2> QED BY <1>3, <2>1, <2>2 DEF Send
<1>4. ASSUME SendIsLost PROVE IngestTypeOK'
  BY <1>1, <1>4 DEF SendIsLost
<1>5. ASSUME SendTooLarge PROVE IngestTypeOK'
  BY <1>1, <1>5 DEF SendTooLarge
<1>6. ASSUME FetchNone PROVE IngestTypeOK'
  BY <1>1, <1>6 DEF FetchNone
<1> QED BY <1>2, <1>3, <1>4, <1>5, <1>6

LEMMA HandlerTyped ==
  ASSUME IngestTypeOK, NEW k \in Conns, Handling(k) \/ RejectUnsafe(k) \/ Break(k)
  PROVE  IngestTypeOK'
<1> USE DEF IngestTypeOK, kind, terminal, bridge, datasource, connection
<1>1. Closes(k) => /\ server' \in [Conns -> {"closed", "registering", "reading", "publishing"}]
                   /\ bound' \in [Conns -> Nat] /\ lastOn' \in [Conns -> Nat]
                   /\ wire' \in [Conns -> Seq(Entries)]
  BY EmptyKeeps DEF Closes
<1>2. wire[k] # <<>> =>
        Head(wire[k]) \in Entries /\ [wire EXCEPT ![k] = Tail(@)] \in [Conns -> Seq(Entries)]
  BY TailKeeps
<1>3. ASSUME Register(k) PROVE IngestTypeOK'
  BY <1>1, <1>3 DEF Register
<1>4. ASSUME Show(k) PROVE IngestTypeOK'
  BY <1>2, <1>4 DEF Show, Entries
<1>5. ASSUME Reject(k) PROVE IngestTypeOK'
  BY <1>2, <1>5 DEF Reject
<1>6. ASSUME Published(k) PROVE IngestTypeOK'
  BY <1>6 DEF Published
<1>7. ASSUME EndOfStream(k) PROVE IngestTypeOK'
  BY <1>1, <1>7 DEF EndOfStream
<1>8. ASSUME RejectUnsafe(k) PROVE IngestTypeOK'
  BY <1>2, <1>8 DEF RejectUnsafe
<1>9. ASSUME Break(k) PROVE IngestTypeOK'
  BY <1>1, <1>9 DEF Break
<1> QED BY <1>3, <1>4, <1>5, <1>6, <1>7, <1>8, <1>9 DEF Handling

LEMMA StepTyped == IngestTypeOK /\ [Next]_vars => IngestTypeOK'
<1>1. IngestTypeOK /\ Restart => IngestTypeOK'
  BY EmptyKeeps DEF Restart, IngestTypeOK, kind, terminal, bridge
<1>2. IngestTypeOK /\ UNCHANGED vars => IngestTypeOK'
  BY DEF IngestTypeOK, vars, kind, terminal, bridge, datasource, connection
<1> QED BY <1>1, <1>2, QuoteTyped, BridgeTyped, DrainTyped, HandlerTyped
        DEF Next, Bridging, Draining

-----------------------------------------------------------------------------
(* What is on its way stays in order. *)

LEMMA InitOnTheWay == Init => OnTheWay
<1> SUFFICES ASSUME Init PROVE OnTheWay
  OBVIOUS
<1>1. Waiting = <<>> /\ \A k \in Conns : wire[k] = <<>> /\ lastOn[k] = 0
  BY DEF Init, Waiting
<1> QED
  BY <1>1, EmptyKeeps, IngestAssumptions
  DEF Init, OnTheWay, QueueInOrder, WiresInOrder, QueueFollowsWire, ClosedIsEmpty

LEMMA WaitingTyped == IngestTypeOK => Waiting \in Seq(Entries)
BY EmptyKeeps DEF IngestTypeOK, Waiting

\* The connections are left alone, but the socket may be given up.
LEMMA WiresKept ==
  ASSUME IngestTypeOK, OnTheWay, market' \in Nat, market <= market',
         UNCHANGED <<wire, lastOn>>,
         \A k \in Conns : server'[k] = "closed" => server[k] = "closed"
  PROVE  WiresInOrder' /\ ClosedIsEmpty'
<1>1. WiresInOrder'
  <2> SUFFICES ASSUME NEW k \in Conns
               PROVE  /\ Ordered(wire[k]) /\ UpTo(market', wire[k])
                      /\ Since(lastOn[k], wire[k]) /\ lastOn[k] <= market'
    BY DEF WiresInOrder
  <2>1. wire[k] \in Seq(Entries) /\ lastOn[k] \in Nat /\ market \in Nat
    BY DEF IngestTypeOK
  <2>2. /\ Ordered(wire[k]) /\ UpTo(market, wire[k])
        /\ Since(lastOn[k], wire[k]) /\ lastOn[k] <= market
    BY DEF OnTheWay, WiresInOrder
  <2> QED BY <2>1, <2>2, UpToLater
<1> QED BY <1>1 DEF OnTheWay, ClosedIsEmpty

\* What follows the lines of the socket after the step did so before.
LEMMA QueueStillFollows ==
  ASSUME OnTheWay, UNCHANGED <<wire, lastOn>>, socket' \in {socket, NoConn}, IngestTypeOK,
         \A n \in Nat : n <= market /\ Since(n, Waiting) => Since(n, Waiting')
  PROVE  QueueFollowsWire'
<1> SUFFICES ASSUME socket # NoConn, socket' = socket PROVE QueueFollowsWire'
  BY DEF QueueFollowsWire
<1>1. socket \in Conns /\ lastOn[socket] \in Nat /\ wire[socket] \in Seq(Entries)
  BY DEF IngestTypeOK
<1>2. /\ lastOn[socket] <= market /\ UpTo(market, wire[socket]) /\ Since(lastOn[socket], Waiting)
      /\ \A i \in 1..Len(wire[socket]) : Since(wire[socket][i].quote, Waiting)
  BY <1>1 DEF OnTheWay, WiresInOrder, QueueFollowsWire
<1>3. \A i \in 1..Len(wire[socket]) : wire[socket][i].quote \in Nat /\ wire[socket][i].quote <= market
  BY <1>1, <1>2, QuotesTyped DEF UpTo
<1> QED BY <1>1, <1>2, <1>3 DEF QueueFollowsWire

LEMMA QuietStep ==
  ASSUME IngestTypeOK, OnTheWay, market' \in Nat, market <= market',
         socket' \in {socket, NoConn}, UNCHANGED <<host, queue, wire, lastOn>>,
         \A k \in Conns : server'[k] = "closed" => server[k] = "closed"
  PROVE  OnTheWay'
<1>1. Waiting' = Waiting /\ Waiting \in Seq(Entries) /\ market \in Nat
  BY WaitingTyped DEF Waiting, IngestTypeOK
<1>2. QueueInOrder'
  BY <1>1, UpToLater DEF OnTheWay, QueueInOrder
<1>3. QueueFollowsWire'
  BY <1>1, QueueStillFollows
<1> QED BY <1>2, <1>3, WiresKept DEF OnTheWay

LEMMA PushedKeeps ==
  ASSUME IngestTypeOK, NEW e \in Entries, Ordered(queue), UpTo(e.quote, queue)
  PROVE  /\ Ordered(Pushed(e)) /\ UpTo(e.quote, Pushed(e))
         /\ \A n \in Nat : Since(n, queue) /\ n <= e.quote => Since(n, Pushed(e))
<1> DEFINE s == IF Len(queue) < QueueMax THEN queue ELSE Tail(queue)
<1>1. queue \in Seq(Entries) /\ e.quote \in Nat
  BY DEF IngestTypeOK, Entries
<1>2. /\ s \in Seq(Entries) /\ Ordered(s) /\ UpTo(e.quote, s)
      /\ \A n \in Nat : Since(n, queue) => Since(n, s)
  <2>1. CASE Len(queue) < QueueMax
    BY <1>1, <2>1
  <2>2. CASE ~(Len(queue) < QueueMax)
    <3>1. queue # <<>>
      BY <2>2, IngestAssumptions
    <3> QED BY <1>1, <2>2, <3>1, TailKeeps
  <2> QED BY <2>1, <2>2
<1>3. Pushed(e) = Append(s, e)
  BY DEF Pushed
<1> HIDE DEF s
<1> QED BY <1>1, <1>2, <1>3, AppendKeeps

LEMMA QuoteStep ==
  ASSUME IngestTypeOK, OnTheWay, Quote
  PROVE  OnTheWay'
<1>1. /\ market' \in Nat /\ market \in Nat /\ market <= market'
      /\ UNCHANGED <<host, socket, wire, lastOn, server, armed>>
      /\ queue' = IF host = "qmt" THEN QmtQueued(market') ELSE TdxQueued
  BY DEF Quote, IngestTypeOK, kind, datasource, connection
<1>2. WiresInOrder' /\ ClosedIsEmpty'
  BY <1>1, WiresKept
<1>3. Ordered(Waiting') /\ UpTo(market', Waiting')
      /\ \A n \in Nat : n <= market /\ Since(n, Waiting) => Since(n, Waiting')
  <2>1. Ordered(Waiting) /\ UpTo(market', Waiting)
    BY <1>1, WaitingTyped, UpToLater DEF OnTheWay, QueueInOrder
  <2>2. CASE Waiting' = Waiting
    BY <2>1, <2>2
  <2>3. CASE Waiting' # Waiting
    <3> DEFINE e == Snapshot(market', armed, 0)
    <3>1. host = "qmt" /\ Waiting = queue /\ Waiting' = Pushed(e)
      BY <1>1, <2>3 DEF Waiting, QmtQueued
    <3>2. e \in Entries /\ e.quote = market'
      BY <1>1 DEF Snapshot, Entries, IngestTypeOK
    <3> HIDE DEF e
    <3>3. /\ Ordered(Pushed(e)) /\ UpTo(e.quote, Pushed(e))
          /\ \A n \in Nat : Since(n, queue) /\ n <= e.quote => Since(n, Pushed(e))
      BY <2>1, <3>1, <3>2, PushedKeeps
    <3>4. \A n \in Nat : n <= market => n <= e.quote
      BY <1>1, <3>2
    <3> QED BY <3>1, <3>2, <3>3, <3>4
  <2> QED BY <2>2, <2>3
<1>4. QueueFollowsWire'
  BY <1>1, <1>3, QueueStillFollows
<1> QED BY <1>2, <1>3, <1>4 DEF OnTheWay, QueueInOrder

\* An entry leaves the queue.
LEMMA WaitingTail ==
  ASSUME IngestTypeOK, OnTheWay, queue # <<>>, queue' = Drained, UNCHANGED host
  PROVE  /\ Ordered(Waiting') /\ UpTo(market, Waiting')
         /\ \A n \in Nat : Since(n, Waiting) => Since(n, Waiting')
         /\ host = "qmt" => Waiting = queue /\ Since(Head(queue).quote, Waiting')
<1>1. queue \in Seq(Entries) /\ Drained = Tail(queue) /\ market \in Nat
  BY FrameTyped DEF IngestTypeOK
<1>2. CASE host = "qmt"
  <2>1. Waiting = queue /\ Waiting' = Tail(queue)
    BY <1>1, <1>2 DEF Waiting
  <2>2. Ordered(queue) /\ UpTo(market, queue)
    BY <2>1 DEF OnTheWay, QueueInOrder
  <2> QED BY <1>1, <2>1, <2>2, TailKeeps
<1>3. CASE host # "qmt"
  BY <1>1, <1>3, EmptyKeeps DEF Waiting
<1> QED BY <1>2, <1>3

LEMMA LoseStep ==
  ASSUME IngestTypeOK, OnTheWay, queue # <<>>, queue' = Drained, socket' \in {socket, NoConn},
         UNCHANGED <<host, market, wire, lastOn, server>>
  PROVE  OnTheWay'
<1>1. market \in Nat
  BY DEF IngestTypeOK
<1>2. WiresInOrder' /\ ClosedIsEmpty'
  BY <1>1, WiresKept
<1>3. QueueFollowsWire'
  BY WaitingTail, QueueStillFollows
<1>4. QueueInOrder'
  BY WaitingTail DEF QueueInOrder
<1> QED BY <1>2, <1>3, <1>4 DEF OnTheWay

LEMMA SendStep ==
  ASSUME IngestTypeOK, OnTheWay, Send
  PROVE  OnTheWay'
<1>1. queue # <<>> /\ queue' = Drained /\ socket \in Conns /\ socket # NoConn
      /\ UNCHANGED <<host, market, lastOn, server>>
  BY DEF Send, IngestTypeOK, kind, terminal
<1>2. CASE socket' = NoConn /\ UNCHANGED wire
  BY <1>1, <1>2, LoseStep
<1>3. CASE /\ server[socket] # "closed" /\ socket' = socket
           /\ wire' = [wire EXCEPT ![socket] = Append(@, Frame)]
  <2> DEFINE w == wire[socket]
  <2>1. /\ wire \in [Conns -> Seq(Entries)] /\ w \in Seq(Entries) /\ Frame \in Entries
        /\ lastOn[socket] \in Nat /\ market \in Nat /\ queue \in Seq(Entries)
    BY <1>1, FrameTyped DEF IngestTypeOK
  <2>2. /\ Ordered(w) /\ UpTo(market, w) /\ Since(lastOn[socket], w) /\ lastOn[socket] <= market
        /\ Since(lastOn[socket], Waiting) /\ \A i \in 1..Len(w) : Since(w[i].quote, Waiting)
    BY <1>1 DEF OnTheWay, WiresInOrder, QueueFollowsWire
  <2>3. /\ Frame.quote \in Nat /\ Frame.quote <= market /\ UpTo(Frame.quote, w)
        /\ lastOn[socket] <= Frame.quote /\ Since(Frame.quote, Waiting')
    <3>1. CASE host = "qmt"
      <4>1. Waiting = queue /\ Since(Head(queue).quote, Waiting') /\ UpTo(market, queue)
        BY <1>1, <3>1, WaitingTail DEF OnTheWay, QueueInOrder
      <4>2. Head(queue) = queue[1] /\ 1 \in 1..Len(queue) /\ Head(queue) \in Entries
        BY <1>1, <2>1, TailKeeps
      <4>3. Frame.quote = Head(queue).quote
        BY <3>1, <4>2 DEF Frame, QmtFrame, NextQueued, Entries
      <4>4. Frame.quote \in Nat /\ Frame.quote <= market /\ lastOn[socket] <= Frame.quote
        BY <2>2, <4>1, <4>2, <4>3 DEF Since, UpTo, Entries
      <4>5. \A i \in 1..Len(w) : w[i].quote <= Frame.quote
        BY <2>2, <4>1, <4>2, <4>3 DEF Since
      <4> QED BY <4>1, <4>3, <4>4, <4>5 DEF UpTo
    <3>2. CASE host # "qmt"
      <4>1. Frame.quote = market /\ Waiting' = <<>>
        BY <1>1, <3>2 DEF Frame, TdxFrame, Snapshot, Waiting
      <4> QED BY <2>1, <2>2, <4>1, EmptyKeeps
    <3> QED BY <3>1, <3>2
  <2>4. /\ Ordered(Append(w, Frame)) /\ UpTo(market, Append(w, Frame))
        /\ Since(lastOn[socket], Append(w, Frame)) /\ Append(w, Frame) \in Seq(Entries)
    BY <2>1, <2>2, <2>3, AppendKeeps
  <2>5. /\ wire'[socket] = Append(w, Frame)
        /\ \A k \in Conns : k # socket => wire'[k] = wire[k]
    BY <1>1, <1>3, <2>1
  <2> HIDE DEF w
  <2>6. WiresInOrder'
    BY <1>1, <2>2, <2>4, <2>5 DEF OnTheWay, WiresInOrder
  <2>7. ClosedIsEmpty'
    BY <1>1, <1>3, <2>5 DEF OnTheWay, ClosedIsEmpty
  <2>8. QueueInOrder'
    BY <1>1, WaitingTail DEF QueueInOrder
  <2>9. QueueFollowsWire'
    <3>1. \A i \in 1..Len(Append(w, Frame)) :
            Append(w, Frame)[i] = Frame \/ (i \in 1..Len(w) /\ Append(w, Frame)[i] = w[i])
      BY <2>1
    <3>2. \A i \in 1..Len(w) : w[i].quote \in Nat
      BY <2>1, QuotesTyped
    <3>3. \A n \in Nat : Since(n, Waiting) => Since(n, Waiting')
      BY <1>1, WaitingTail
    <3>4. \A i \in 1..Len(Append(w, Frame)) : Since(Append(w, Frame)[i].quote, Waiting')
      BY <2>2, <2>3, <3>1, <3>2, <3>3
    <3>5. Since(lastOn[socket], Waiting')
      BY <2>1, <2>2, <3>3
    <3> QED BY <1>1, <1>3, <2>5, <3>4, <3>5 DEF QueueFollowsWire
  <2> QED BY <2>6, <2>7, <2>8, <2>9 DEF OnTheWay
<1> QED BY <1>2, <1>3 DEF Send

LEMMA ReconnectStep ==
  ASSUME IngestTypeOK, OnTheWay, Reconnect
  PROVE  OnTheWay'
<1>1. PICK k \in Conns : /\ server[k] = "closed" /\ socket' = k
                         /\ server' = [server EXCEPT ![k] = "registering"]
  BY DEF Reconnect
<1>2. UNCHANGED <<host, market, queue, wire, lastOn>> /\ market \in Nat
      /\ \A c \in Conns : server'[c] = "closed" => server[c] = "closed"
  BY <1>1 DEF Reconnect, IngestTypeOK, kind, terminal
<1>3. Waiting' = Waiting /\ Waiting \in Seq(Entries)
  BY <1>2, WaitingTyped DEF Waiting
<1>4. WiresInOrder' /\ ClosedIsEmpty'
  BY <1>2, WiresKept
<1>5. wire[k] = <<>> /\ lastOn[k] = 0
  BY <1>1 DEF OnTheWay, ClosedIsEmpty
<1>6. Since(0, Waiting)
  BY <1>3, QuotesTyped
<1>7. QueueFollowsWire'
  BY <1>1, <1>2, <1>3, <1>5, <1>6 DEF QueueFollowsWire
<1> QED BY <1>2, <1>3, <1>4, <1>7 DEF OnTheWay, QueueInOrder

\* A frame is read, shown or not.
LEMMA ReadStep ==
  ASSUME IngestTypeOK, OnTheWay, NEW k \in Conns, wire[k] # <<>>,
         wire' = [wire EXCEPT ![k] = Tail(@)],
         UNCHANGED <<host, market, queue, socket>>,
         \/ UNCHANGED lastOn
         \/ lastOn' = [lastOn EXCEPT ![k] = Head(wire[k]).quote],
         \A c \in Conns : server'[c] = "closed" => server[c] = "closed"
  PROVE  OnTheWay'
<1>1. wire[k] \in Seq(Entries) /\ lastOn \in [Conns -> Nat] /\ wire \in [Conns -> Seq(Entries)]
  BY DEF IngestTypeOK
<1>2. /\ Ordered(wire[k]) /\ UpTo(market, wire[k]) /\ Since(lastOn[k], wire[k])
      /\ lastOn[k] <= market /\ market \in Nat
  BY DEF OnTheWay, WiresInOrder, IngestTypeOK
<1>3. /\ Head(wire[k]) = wire[k][1] /\ 1 \in 1..Len(wire[k]) /\ Head(wire[k]) \in Entries
      /\ Tail(wire[k]) \in Seq(Entries)
      /\ \A i \in 1..Len(Tail(wire[k])) :
           Tail(wire[k])[i] = wire[k][i + 1] /\ i + 1 \in 1..Len(wire[k])
      /\ Ordered(Tail(wire[k])) /\ Since(Head(wire[k]).quote, Tail(wire[k]))
      /\ Since(lastOn[k], Tail(wire[k])) /\ UpTo(market, Tail(wire[k]))
  BY <1>1, <1>2, TailKeeps
<1>4. Head(wire[k]).quote <= market
  BY <1>2, <1>3 DEF UpTo
<1>5. /\ wire'[k] = Tail(wire[k]) /\ lastOn'[k] \in {lastOn[k], Head(wire[k]).quote}
      /\ \A c \in Conns : c # k => wire'[c] = wire[c] /\ lastOn'[c] = lastOn[c]
  BY <1>1
<1>6. WiresInOrder'
  BY <1>2, <1>3, <1>4, <1>5 DEF OnTheWay, WiresInOrder
<1>7. ClosedIsEmpty'
  BY <1>5 DEF OnTheWay, ClosedIsEmpty
<1>8. Waiting' = Waiting
  BY DEF Waiting
<1>9. QueueFollowsWire'
  <2>1. CASE socket # k
    <3>1. socket = NoConn \/ socket \in Conns
      BY DEF IngestTypeOK
    <3> QED BY <1>5, <1>8, <2>1, <3>1 DEF OnTheWay, QueueFollowsWire
  <2>2. CASE socket = k
    <3>1. k # NoConn
      BY IngestAssumptions
    <3>2. /\ Since(lastOn[k], Waiting)
          /\ \A i \in 1..Len(wire[k]) : Since(wire[k][i].quote, Waiting)
      BY <2>2, <3>1 DEF OnTheWay, QueueFollowsWire
    <3>3. \A i \in 1..Len(Tail(wire[k])) : Since(Tail(wire[k])[i].quote, Waiting)
      BY <1>3, <3>2
    <3>4. Since(lastOn'[k], Waiting)
      BY <1>3, <1>5, <3>2
    <3> QED BY <1>5, <1>8, <2>2, <3>3, <3>4 DEF QueueFollowsWire
  <2> QED BY <2>1, <2>2
<1> QED BY <1>6, <1>7, <1>8, <1>9 DEF OnTheWay, QueueInOrder

\* Connections are closed, and forget what they held.
LEMMA CloseStep ==
  ASSUME IngestTypeOK, OnTheWay, UNCHANGED <<host, market, queue, socket>>,
         \A k \in Conns : \/ wire'[k] = <<>> /\ lastOn'[k] = 0
                          \/ /\ wire'[k] = wire[k] /\ lastOn'[k] = lastOn[k]
                             /\ server'[k] = server[k]
  PROVE  OnTheWay'
<1>1. market \in Nat /\ Waiting' = Waiting /\ Waiting \in Seq(Entries)
  BY WaitingTyped DEF Waiting, IngestTypeOK
<1>2. Since(0, Waiting)
  BY <1>1, QuotesTyped
<1>3. WiresInOrder'
  BY <1>1, EmptyKeeps DEF OnTheWay, WiresInOrder
<1>4. ClosedIsEmpty'
  BY DEF OnTheWay, ClosedIsEmpty
<1>5. QueueFollowsWire'
  <2>1. socket = NoConn \/ socket \in Conns
    BY DEF IngestTypeOK
  <2> QED BY <1>1, <1>2, <2>1 DEF OnTheWay, QueueFollowsWire
<1> QED BY <1>1, <1>3, <1>4, <1>5 DEF OnTheWay, QueueInOrder

LEMMA HandlerStep ==
  ASSUME IngestTypeOK, OnTheWay, NEW k \in Conns, Handling(k) \/ RejectUnsafe(k) \/ Break(k)
  PROVE  OnTheWay'
<1> USE DEF kind, terminal, bridge, datasource
<1>1. /\ server \in [Conns -> {"closed", "registering", "reading", "publishing"}]
      /\ wire \in [Conns -> Seq(Entries)] /\ lastOn \in [Conns -> Nat] /\ market \in Nat
  BY DEF IngestTypeOK
<1>2. ASSUME Closes(k), UNCHANGED <<host, market, queue, socket>> PROVE OnTheWay'
  <2>1. \A c \in Conns : \/ wire'[c] = <<>> /\ lastOn'[c] = 0
                         \/ /\ wire'[c] = wire[c] /\ lastOn'[c] = lastOn[c]
                            /\ server'[c] = server[c]
    BY <1>1, <1>2 DEF Closes
  <2> QED BY <1>2, <2>1, CloseStep
<1>3. ASSUME Register(k) PROVE OnTheWay'
  <2>1. CASE Closes(k)
    BY <1>2, <1>3, <2>1 DEF Register
  <2>2. CASE server' = [server EXCEPT ![k] = "reading"] /\ UNCHANGED <<wire, lastOn>>
    <3>1. UNCHANGED <<host, market, queue, socket>>
          /\ \A c \in Conns : server'[c] = "closed" => server[c] = "closed"
      BY <1>1, <1>3, <2>2 DEF Register
    <3> QED BY <1>1, <2>2, <3>1, QuietStep
  <2> QED BY <1>3, <2>1, <2>2 DEF Register
<1>4. ASSUME Show(k) PROVE OnTheWay'
  <2>1. /\ wire[k] # <<>> /\ wire' = [wire EXCEPT ![k] = Tail(@)]
        /\ lastOn' = [lastOn EXCEPT ![k] = Head(wire[k]).quote]
        /\ UNCHANGED <<host, market, queue, socket>>
        /\ \A c \in Conns : server'[c] = "closed" => server[c] = "closed"
    BY <1>1, <1>4 DEF Show
  <2> QED BY <2>1, ReadStep
<1>5. ASSUME Reject(k) \/ RejectUnsafe(k) PROVE OnTheWay'
  <2>1. /\ wire[k] # <<>> /\ wire' = [wire EXCEPT ![k] = Tail(@)]
        /\ UNCHANGED <<host, market, queue, socket, lastOn, server>>
    BY <1>1, <1>5 DEF Reject, RejectUnsafe
  <2> QED BY <2>1, ReadStep
<1>6. ASSUME Published(k) PROVE OnTheWay'
  <2>1. /\ UNCHANGED <<host, market, queue, socket, wire, lastOn>>
        /\ \A c \in Conns : server'[c] = "closed" => server[c] = "closed"
    BY <1>1, <1>6 DEF Published
  <2> QED BY <1>1, <2>1, QuietStep
<1>7. ASSUME EndOfStream(k) \/ Break(k) PROVE OnTheWay'
  BY <1>2, <1>7 DEF EndOfStream, Break
<1> QED BY <1>3, <1>4, <1>5, <1>6, <1>7 DEF Handling

LEMMA StepOnTheWay == IngestTypeOK /\ OnTheWay /\ [Next]_vars => OnTheWay'
<1> SUFFICES ASSUME IngestTypeOK, OnTheWay, [Next]_vars PROVE OnTheWay'
  OBVIOUS
<1> USE DEF kind, terminal, bridge, datasource, connection
<1>1. market \in Nat
  BY DEF IngestTypeOK
<1>2. CASE \/ Poll \/ Subscribe \/ Subscribed \/ ConnectFails \/ StayConnected \/ DrainEnds
           \/ QuoteUnusable \/ UNCHANGED vars
  <2>1. /\ market' \in Nat /\ market <= market'
        /\ UNCHANGED <<host, queue, wire, lastOn, server, socket>>
    BY <1>1, <1>2 DEF Poll, Subscribe, Subscribed, ConnectFails, StayConnected, DrainEnds,
                      QuoteUnusable, vars
  <2> QED BY <2>1, QuietStep
<1>3. CASE Drop \/ SendIsLost \/ SendTooLarge \/ FetchNone
  <2>1. /\ queue # <<>> /\ queue' = Drained /\ socket' \in {socket, NoConn}
        /\ UNCHANGED <<host, market, wire, lastOn, server>>
    BY <1>3 DEF Drop, Dropped, SendIsLost, SendTooLarge, FetchNone
  <2> QED BY <2>1, LoseStep
<1>4. CASE Restart
  <2>1. UNCHANGED <<host, market, queue, socket>>
        /\ \A k \in Conns : wire'[k] = <<>> /\ lastOn'[k] = 0
    BY <1>4 DEF Restart
  <2> QED BY <2>1, CloseStep
<1> QED BY <1>2, <1>3, <1>4, QuoteStep, SendStep, ReconnectStep, HandlerStep
        DEF Next, Bridging, Draining

-----------------------------------------------------------------------------
(* The theorems. *)

\* Terminal, bridge, connections and datasource keep their types, over drops,
\* broken connections and restarts.
THEOREM IngestTyped == Spec => []IngestTypeOK
<1>1. Init => IngestTypeOK
  BY InitTyped
<1>2. IngestTypeOK /\ [Next]_vars => IngestTypeOK'
  BY StepTyped
<1> QED BY <1>1, <1>2, PTL DEF Spec

\* What is on its way is in order, from the queue of the bridge to what was
\* shown (_drain_bridge_queue, SocketSender.send, handle_connection).
THEOREM AlwaysOnTheWay == Spec => []OnTheWay
<1>1. Init => OnTheWay
  BY InitOnTheWay
<1>2. IngestTypeOK /\ OnTheWay /\ [Next]_vars => OnTheWay'
  BY StepOnTheWay
<1> QED BY <1>1, <1>2, IngestTyped, PTL DEF Spec

\* Of one connection the clients are never shown an older quote after a newer
\* one (handle_connection, which awaits the ingest of a frame before it reads
\* the next).
THEOREM QuotesInOrder == Spec => InCaptureOrder
<1> DEFINE Step == \A k \in Conns : server'[k] = "publishing" => lastOn'[k] >= lastOn[k]
<1>1. IngestTypeOK /\ OnTheWay /\ [Next]_vars => [Step]_vars
  <2> SUFFICES ASSUME IngestTypeOK, OnTheWay, Next, NEW k \in Conns, server'[k] = "publishing"
               PROVE  lastOn'[k] >= lastOn[k]
    BY DEF Step
  <2>1. /\ lastOn \in [Conns -> Nat] /\ wire[k] \in Seq(Entries)
        /\ server \in [Conns -> {"closed", "registering", "reading", "publishing"}]
    BY DEF IngestTypeOK
  <2>2. ASSUME NEW c \in Conns, Show(c) PROVE lastOn'[k] >= lastOn[k]
    <3>1. CASE c = k
      <4>1. Since(lastOn[k], wire[k]) /\ wire[k] # <<>>
        BY <2>2, <3>1 DEF OnTheWay, WiresInOrder, Show
      <4>2. Head(wire[k]) = wire[k][1] /\ 1 \in 1..Len(wire[k]) /\ Head(wire[k]) \in Entries
        BY <2>1, <4>1, TailKeeps
      <4>3. lastOn[k] <= Head(wire[k]).quote /\ lastOn'[k] = Head(wire[k]).quote
        BY <2>1, <2>2, <3>1, <4>1, <4>2 DEF Since, Show
      <4> QED BY <2>1, <4>2, <4>3 DEF Entries
    <3>2. CASE c # k
      BY <2>1, <2>2, <3>2 DEF Show
    <3> QED BY <3>1, <3>2
  <2>3. ASSUME NEW c \in Conns, Closes(c) PROVE lastOn'[k] >= lastOn[k]
    <3>1. c # k
      BY <2>1, <2>3 DEF Closes
    <3> QED BY <2>1, <2>3, <3>1 DEF Closes
  <2>4. ~Restart
    BY DEF Restart
  <2>5. (UNCHANGED lastOn) => lastOn'[k] >= lastOn[k]
    BY <2>1
  <2>6. CASE \E c \in Conns : Handling(c) \/ RejectUnsafe(c) \/ Break(c)
    BY <2>2, <2>3, <2>5, <2>6
    DEF Handling, Register, Reject, RejectUnsafe, Published, EndOfStream, Break
  <2>7. CASE \/ Quote \/ Bridging \/ Subscribe
             \/ QuoteUnusable \/ ConnectFails \/ SendIsLost \/ SendTooLarge \/ FetchNone
    BY <2>5, <2>7
    DEF connection, Quote, Bridging, Draining, Poll, Subscribed, Reconnect, StayConnected, Drop,
        Send, DrainEnds, Subscribe, QuoteUnusable, ConnectFails, SendIsLost, SendTooLarge, FetchNone
  <2> QED BY <2>4, <2>6, <2>7 DEF Next
<1> QED BY <1>1, IngestTyped, AlwaysOnTheWay, PTL DEF Spec, InCaptureOrder
=============================================================================
