------------------------ MODULE WsConnectionsProofs ------------------------
(***************************************************************************)
(* Proofs about WsConnections, for any number of sockets, client ids and   *)
(* broadcasts, and for either provider.                                    *)
(*                                                                         *)
(* That a client keeps its place rests on the lock: between the check of   *)
(* connect_unique and the registration nobody else can register or remove  *)
(* the id (LockHolds).  What is then removed by id, by the handler of      *)
(* another connection or after a send of TDX, presupposes a failure that   *)
(* the induction has to remember (Blamed).                                 *)
(***************************************************************************)
EXTENDS WsConnections, TLAPS

ConnectionTypeOK ==
  /\ provider \in {"qmt", "tdx"}
  /\ connections \in [Clients -> Sockets \cup {NoSocket}]
  /\ lock \in Sockets \cup {NoSocket}
  /\ handler \in [Sockets -> Phases]
  /\ up \in [Sockets -> BOOLEAN]
  /\ leader \in Clients \cup {NoClient}
  /\ connected \in SUBSET Clients
  /\ pending \in [Broadcasts -> SUBSET Sockets]
  /\ failures \in [Broadcasts -> SUBSET Sockets]
  /\ phase \in [Broadcasts -> {"idle", "sending"}]
  /\ failed \in SUBSET Sockets
  /\ timeouts \in Nat

\* A socket is only ever registered for its own client id.
OwnName == \A n \in Clients : connections[n] \in Sockets => NameOf[connections[n]] = n

\* Who is accepting its socket keeps the lock, and its id stays free.
LockHolds ==
  \A s \in Sockets : handler[s] = "accepting" =>
    lock = s /\ connections[NameOf[s]] = NoSocket

\* A send failed on a connection of the client id.
Blamed(n) == \E t \in Sockets : NameOf[t] = n /\ t \in failed

FailuresAreBlamed ==
  /\ \A b \in Broadcasts : failures[b] \subseteq failed
  /\ \A s \in Sockets : handler[s] = "dropping" => Blamed(NameOf[s])

\* As KeepsItsPlace, and until the handler has removed its id at its end.
KeepsItsPlaceToTheEnd ==
  \A s \in Sockets : handler[s] \in Attached /\ ~Registered(s) => Blamed(NameOf[s])

\* Only QMT has a leader, and the handler of a leader has not begun to end.
LeaderHolds ==
  /\ provider = "tdx" => leader = NoClient
  /\ LeaderIsAttached

IInv ==
  /\ ConnectionTypeOK /\ OwnName /\ LockHolds
  /\ FailuresAreBlamed /\ KeepsItsPlaceToTheEnd /\ LeaderHolds

-----------------------------------------------------------------------------
LEMMA Names == \A s \in Sockets : NameOf[s] \in Clients /\ s # NoSocket
  BY ConnectionAssumptions

LEMMA Attachment ==
  /\ Attached = {"ready", "serving", "replying", "dropping", "closing"}
  /\ Attached \subseteq Phases
  /\ Attached \ {"closing"} = {"ready", "serving", "replying", "dropping"}
  BY DEF Attached, Guarded, Phases

LEMMA InitInv == Init => IInv
<1> SUFFICES ASSUME Init PROVE IInv
  OBVIOUS
<1>1. ConnectionTypeOK
  BY ConnectionAssumptions DEF Init, ConnectionTypeOK, Phases
<1>2. OwnName /\ LockHolds /\ FailuresAreBlamed /\ KeepsItsPlaceToTheEnd /\ LeaderHolds
  BY ConnectionAssumptions, Attachment
  DEF Init, OwnName, LockHolds, FailuresAreBlamed, KeepsItsPlaceToTheEnd, LeaderHolds,
      LeaderIsAttached
<1> QED
  BY <1>1, <1>2 DEF IInv

-----------------------------------------------------------------------------
(* One lemma per action; the last step of each has what it cannot disturb. *)

LEMMA ConnectInv == ASSUME IInv, NEW s \in Sockets, Connect(s) PROVE IInv'
<1> USE Names DEF IInv, ConnectionTypeOK, Connect
<1>1. ConnectionTypeOK'
  BY DEF Phases, manager, collector, broadcasting
<1>2. LockHolds'
  BY Attachment DEF LockHolds, manager, collector
<1>3. LeaderHolds'
  BY Attachment DEF LeaderHolds, LeaderIsAttached, manager, collector
<1>4. OwnName' /\ FailuresAreBlamed' /\ KeepsItsPlaceToTheEnd'
  BY Attachment DEF OwnName, FailuresAreBlamed, Blamed, KeepsItsPlaceToTheEnd,
       Registered, manager, collector, broadcasting
<1> QED
  BY <1>1, <1>2, <1>3, <1>4

LEMMA AcceptedInv == ASSUME IInv, NEW s \in Sockets, Accepted(s) PROVE IInv'
<1> USE Names DEF IInv, ConnectionTypeOK, Accepted, ClaimLeader, MayLead
<1>1. ConnectionTypeOK'
  BY DEF Phases, manager, collector, broadcasting
<1>2. OwnName'
  BY Attachment DEF OwnName, manager, collector
<1>3. LockHolds'
  BY Attachment DEF LockHolds, manager, collector
<1>4. KeepsItsPlaceToTheEnd'
  <2>1. ASSUME NEW t \in Sockets, t # s, handler'[t] \in Attached, ~Registered(t)'
        PROVE  handler[t] \in Attached /\ ~Registered(t)
    BY <2>1 DEF LockHolds, Registered
  <2>2. Registered(s)'
    BY DEF Registered
  <2> QED
    BY <2>1, <2>2 DEF KeepsItsPlaceToTheEnd, Blamed
<1>5. LeaderHolds'
  BY Attachment DEF LeaderHolds, LeaderIsAttached, manager, collector
<1>6. FailuresAreBlamed'
  BY Attachment DEF FailuresAreBlamed, Blamed, manager, collector, broadcasting
<1> QED
  BY <1>1, <1>2, <1>3, <1>4, <1>5, <1>6

LEMMA AcceptFailsInv == ASSUME IInv, NEW s \in Sockets, AcceptFails(s) PROVE IInv'
<1> USE Names DEF IInv, ConnectionTypeOK, AcceptFails
<1>1. ConnectionTypeOK'
  BY DEF Phases, manager, collector, broadcasting
<1>2. LockHolds'
  BY Attachment DEF LockHolds, manager, collector
<1>3. LeaderHolds'
  BY Attachment DEF LeaderHolds, LeaderIsAttached, manager, collector
<1>4. OwnName' /\ FailuresAreBlamed' /\ KeepsItsPlaceToTheEnd'
  BY Attachment DEF OwnName, FailuresAreBlamed, Blamed, KeepsItsPlaceToTheEnd,
       Registered, manager, collector, broadcasting
<1> QED
  BY <1>1, <1>2, <1>3, <1>4

LEMMA SendReadyInv == ASSUME IInv, NEW s \in Sockets, SendReady(s) PROVE IInv'
<1> USE Names DEF IInv, ConnectionTypeOK, SendReady, WriteDirectly, SendToClient
<1>1. ConnectionTypeOK'
  BY DEF Phases, manager, collector, broadcasting
<1>2. FailuresAreBlamed'
  <2>1. failed \subseteq failed' /\ UNCHANGED failures
    BY DEF WriteDirectly, SendToClient, broadcasting
  <2>2. handler'[s] = "dropping" => Blamed(NameOf[s])'
    <3>1. CASE WriteDirectly(s, "serving", "leaked")
      BY <3>1 DEF WriteDirectly
    <3>2. CASE SendToClient(s)
      BY <3>2 DEF SendToClient, OwnName, Blamed
    <3> QED
      BY <3>1, <3>2
  <2>3. \A t \in Sockets \ {s} : handler'[t] = handler[t]
    BY DEF WriteDirectly, SendToClient
  <2> QED
    BY <2>1, <2>2, <2>3 DEF FailuresAreBlamed, Blamed
<1>3. KeepsItsPlaceToTheEnd'
  BY Attachment DEF KeepsItsPlaceToTheEnd, Blamed, Registered, manager, collector
<1>4. LeaderHolds'
  BY Attachment DEF LeaderHolds, LeaderIsAttached, manager, collector
<1>5. OwnName' /\ LockHolds'
  BY Attachment DEF OwnName, LockHolds, manager, collector, broadcasting
<1> QED
  BY <1>1, <1>2, <1>3, <1>4, <1>5

LEMMA DropClientInv == ASSUME IInv, NEW s \in Sockets, DropClient(s) PROVE IInv'
<1> USE Names DEF IInv, ConnectionTypeOK, DropClient
<1>1. ConnectionTypeOK'
  BY DEF Phases, manager, collector, broadcasting
<1>2. OwnName'
  BY Attachment DEF OwnName, manager, collector
<1>3. LockHolds'
  BY Attachment DEF LockHolds, manager, collector
<1>4. KeepsItsPlaceToTheEnd'
  <2>1. \A t \in Sockets : handler'[t] \in Attached /\ ~Registered(t)' =>
          handler[t] \in Attached /\ (~Registered(t) \/ Blamed(NameOf[t]))
    BY Attachment DEF FailuresAreBlamed, Registered
  <2> QED
    BY <2>1 DEF KeepsItsPlaceToTheEnd, Blamed
<1>5. LeaderHolds'
  BY Attachment DEF LeaderHolds, LeaderIsAttached, manager, collector
<1>6. FailuresAreBlamed'
  BY Attachment DEF FailuresAreBlamed, Blamed, manager, collector, broadcasting
<1> QED
  BY <1>1, <1>2, <1>3, <1>4, <1>5, <1>6

LEMMA PingInv == ASSUME IInv, NEW s \in Sockets, Ping(s) PROVE IInv'
<1> USE Names DEF IInv, ConnectionTypeOK, Ping
<1>1. ConnectionTypeOK'
  BY DEF Phases, manager, collector, broadcasting
<1>2. KeepsItsPlaceToTheEnd'
  BY Attachment DEF KeepsItsPlaceToTheEnd, Blamed, Registered, manager, collector
<1>3. LeaderHolds'
  BY Attachment DEF LeaderHolds, LeaderIsAttached, manager, collector
<1>4. OwnName' /\ LockHolds' /\ FailuresAreBlamed'
  BY Attachment DEF OwnName, LockHolds, FailuresAreBlamed, Blamed, manager, collector,
       broadcasting
<1> QED
  BY <1>1, <1>2, <1>3, <1>4

LEMMA LedCommandInv == ASSUME IInv, NEW s \in Sockets, LedCommand(s) PROVE IInv'
<1> USE Names DEF IInv, ConnectionTypeOK, LedCommand, Asked, ClaimLeader, MayLead
<1>1. ConnectionTypeOK'
  BY DEF Phases, manager, collector, broadcasting
<1>2. KeepsItsPlaceToTheEnd'
  BY Attachment DEF KeepsItsPlaceToTheEnd, Blamed, Registered, manager, collector
<1>3. LeaderHolds'
  BY Attachment DEF LeaderHolds, LeaderIsAttached, manager, collector
<1>4. OwnName' /\ LockHolds' /\ FailuresAreBlamed'
  BY Attachment DEF OwnName, LockHolds, FailuresAreBlamed, Blamed, manager, collector,
       broadcasting
<1> QED
  BY <1>1, <1>2, <1>3, <1>4

LEMMA FreeCommandInv == ASSUME IInv, NEW s \in Sockets, FreeCommand(s) PROVE IInv'
<1> USE Names DEF IInv, ConnectionTypeOK, FreeCommand, Asked
<1>1. ConnectionTypeOK'
  BY DEF Phases, manager, collector, broadcasting
<1>2. KeepsItsPlaceToTheEnd'
  BY Attachment DEF KeepsItsPlaceToTheEnd, Blamed, Registered, manager, collector
<1>3. LeaderHolds'
  BY Attachment DEF LeaderHolds, LeaderIsAttached, manager, collector
<1>4. OwnName' /\ LockHolds' /\ FailuresAreBlamed'
  BY Attachment DEF OwnName, LockHolds, FailuresAreBlamed, Blamed, manager, collector,
       broadcasting
<1> QED
  BY <1>1, <1>2, <1>3, <1>4

LEMMA ReplyInv == ASSUME IInv, NEW s \in Sockets, Reply(s) PROVE IInv'
<1> USE Names DEF IInv, ConnectionTypeOK, Reply, WriteDirectly, SendToClient,
       Raises, LeaveCollector
<1>1. ConnectionTypeOK'
  BY DEF Phases, manager, collector, broadcasting
<1>2. FailuresAreBlamed'
  <2>1. failed \subseteq failed' /\ UNCHANGED failures
    BY DEF WriteDirectly, SendToClient, Raises, broadcasting
  <2>2. handler'[s] = "dropping" => Blamed(NameOf[s])'
    <3>1. CASE WriteDirectly(s, "serving", "closing")
      BY <3>1 DEF WriteDirectly
    <3>2. CASE SendToClient(s)
      BY <3>2 DEF SendToClient, OwnName, Blamed
    <3>3. CASE Raises(s)
      BY <3>3 DEF Raises
    <3> QED
      BY <3>1, <3>2, <3>3
  <2>3. \A t \in Sockets \ {s} : handler'[t] = handler[t]
    BY DEF WriteDirectly, SendToClient, Raises
  <2> QED
    BY <2>1, <2>2, <2>3 DEF FailuresAreBlamed, Blamed
<1>3. KeepsItsPlaceToTheEnd'
  BY Attachment DEF KeepsItsPlaceToTheEnd, Blamed, Registered, manager, collector
<1>4. LeaderHolds'
  BY Attachment DEF LeaderHolds, LeaderIsAttached, manager, collector
<1>5. OwnName' /\ LockHolds'
  BY Attachment DEF OwnName, LockHolds, manager, collector, broadcasting
<1> QED
  BY <1>1, <1>2, <1>3, <1>4, <1>5

LEMMA DisconnectedInv == ASSUME IInv, NEW s \in Sockets, Disconnected(s) PROVE IInv'
<1> USE Names DEF IInv, ConnectionTypeOK, Disconnected, LeaveCollector
<1>1. ConnectionTypeOK'
  BY DEF Phases, manager, collector, broadcasting
<1>2. KeepsItsPlaceToTheEnd'
  BY Attachment DEF KeepsItsPlaceToTheEnd, Blamed, Registered, manager, collector
<1>3. LeaderHolds'
  BY Attachment DEF LeaderHolds, LeaderIsAttached, manager, collector
<1>4. OwnName' /\ LockHolds' /\ FailuresAreBlamed'
  BY Attachment DEF OwnName, LockHolds, FailuresAreBlamed, Blamed, manager, collector,
       broadcasting
<1> QED
  BY <1>1, <1>2, <1>3, <1>4

LEMMA UnregisterInv == ASSUME IInv, NEW s \in Sockets, Unregister(s) PROVE IInv'
<1> USE Names DEF IInv, ConnectionTypeOK, Unregister
<1>1. ConnectionTypeOK'
  BY DEF Phases, manager, collector, broadcasting
<1>2. OwnName'
  BY Attachment DEF OwnName, manager, collector
<1>3. LockHolds'
  BY Attachment DEF LockHolds, manager, collector
<1>4. KeepsItsPlaceToTheEnd'
  BY Attachment DEF KeepsItsPlaceToTheEnd, Blamed, Registered, manager, collector
<1>5. LeaderHolds'
  BY Attachment DEF LeaderHolds, LeaderIsAttached, manager, collector
<1>6. FailuresAreBlamed'
  BY Attachment DEF FailuresAreBlamed, Blamed, manager, collector, broadcasting
<1> QED
  BY <1>1, <1>2, <1>3, <1>4, <1>5, <1>6

LEMMA HangUpInv == ASSUME IInv, NEW s \in Sockets, HangUp(s) PROVE IInv'
<1> USE Names DEF IInv, ConnectionTypeOK, HangUp
<1>1. ConnectionTypeOK'
  BY DEF Phases, manager, collector, broadcasting
<1>2. OwnName' /\ LockHolds' /\ FailuresAreBlamed' /\ KeepsItsPlaceToTheEnd' /\ LeaderHolds'
  BY Attachment DEF OwnName, LockHolds, FailuresAreBlamed, Blamed,
       KeepsItsPlaceToTheEnd, Registered, LeaderHolds, LeaderIsAttached, manager,
       collector, broadcasting
<1> QED
  BY <1>1, <1>2

LEMMA StartBroadcastInv == ASSUME IInv, NEW b \in Broadcasts, StartBroadcast(b) PROVE IInv'
<1> USE Names DEF IInv, ConnectionTypeOK, StartBroadcast, Registered
<1>1. ConnectionTypeOK'
  BY DEF Phases, manager, collector, broadcasting
<1>2. FailuresAreBlamed'
  BY Attachment DEF FailuresAreBlamed, Blamed, manager, collector
<1>3. OwnName' /\ LockHolds' /\ KeepsItsPlaceToTheEnd' /\ LeaderHolds'
  BY Attachment DEF OwnName, LockHolds, KeepsItsPlaceToTheEnd, Blamed, Registered,
       LeaderHolds, LeaderIsAttached, manager, collector, broadcasting
<1> QED
  BY <1>1, <1>2, <1>3

LEMMA SentInv == ASSUME IInv, NEW b \in Broadcasts, NEW s \in Sockets, Sent(b, s) PROVE IInv'
<1> USE Names DEF IInv, ConnectionTypeOK, Sent
<1>1. ConnectionTypeOK'
  BY DEF Phases, manager, collector, broadcasting
<1>2. FailuresAreBlamed'
  BY Attachment DEF FailuresAreBlamed, Blamed, manager, collector
<1>3. OwnName' /\ LockHolds' /\ KeepsItsPlaceToTheEnd' /\ LeaderHolds'
  BY Attachment DEF OwnName, LockHolds, KeepsItsPlaceToTheEnd, Blamed, Registered,
       LeaderHolds, LeaderIsAttached, manager, collector, broadcasting
<1> QED
  BY <1>1, <1>2, <1>3

LEMMA SendTimesOutInv == ASSUME IInv, NEW b \in Broadcasts, NEW s \in Sockets, SendTimesOut(b, s) PROVE IInv'
<1> USE Names DEF IInv, ConnectionTypeOK, SendTimesOut
<1>1. ConnectionTypeOK'
  BY DEF Phases, manager, collector, broadcasting
<1>2. FailuresAreBlamed'
  BY Attachment DEF FailuresAreBlamed, Blamed, manager, collector
<1>3. OwnName' /\ LockHolds' /\ KeepsItsPlaceToTheEnd' /\ LeaderHolds'
  BY Attachment DEF OwnName, LockHolds, KeepsItsPlaceToTheEnd, Blamed, Registered,
       LeaderHolds, LeaderIsAttached, manager, collector, broadcasting
<1> QED
  BY <1>1, <1>2, <1>3

LEMMA FinishBroadcastInv == ASSUME IInv, NEW b \in Broadcasts, FinishBroadcast(b) PROVE IInv'
<1> USE Names DEF IInv, ConnectionTypeOK, FinishBroadcast, Evict
<1>1. ConnectionTypeOK'
  BY DEF Phases, manager, collector, broadcasting
<1>2. OwnName'
  BY Attachment DEF OwnName, manager, collector
<1>3. LockHolds'
  BY Attachment DEF LockHolds, manager, collector
<1>4. FailuresAreBlamed'
  BY Attachment DEF FailuresAreBlamed, Blamed, manager, collector
<1>5. KeepsItsPlaceToTheEnd'
  <2>1. \A t \in Sockets : handler'[t] \in Attached /\ ~Registered(t)' =>
          handler[t] \in Attached /\ (~Registered(t) \/ Blamed(NameOf[t]))
    BY DEF FailuresAreBlamed, Registered, Blamed
  <2> QED
    BY <2>1 DEF KeepsItsPlaceToTheEnd, Blamed
<1>6. LeaderHolds'
  BY Attachment DEF LeaderHolds, LeaderIsAttached, manager, collector, broadcasting
<1> QED
  BY <1>1, <1>2, <1>3, <1>4, <1>5, <1>6

LEMMA StutterInv == IInv /\ UNCHANGED vars => IInv'
  BY DEF vars, manager, collector, broadcasting, IInv, ConnectionTypeOK, OwnName, LockHolds,
         FailuresAreBlamed, Blamed, KeepsItsPlaceToTheEnd, Registered, LeaderHolds,
         LeaderIsAttached

LEMMA NextInv == IInv /\ [Next]_vars => IInv'
<1> SUFFICES ASSUME IInv, [Next]_vars PROVE IInv'
  OBVIOUS
<1>1. ASSUME NEW s \in Sockets, Handling(s) PROVE IInv'
  BY <1>1, ConnectInv, AcceptedInv, AcceptFailsInv, SendReadyInv, DropClientInv, ReplyInv,
     DisconnectedInv, UnregisterInv
  DEF Handling
<1>2. ASSUME NEW s \in Sockets, Ping(s) \/ LedCommand(s) \/ FreeCommand(s) \/ HangUp(s)
      PROVE  IInv'
  BY <1>2, PingInv, LedCommandInv, FreeCommandInv, HangUpInv
<1>3. ASSUME NEW b \in Broadcasts, Broadcasting(b) PROVE IInv'
  BY <1>3, StartBroadcastInv, FinishBroadcastInv, SentInv DEF Broadcasting
<1>4. ASSUME NEW b \in Broadcasts, NEW s \in Sockets, SendTimesOut(b, s) PROVE IInv'
  BY <1>4, SendTimesOutInv
<1> QED
  BY <1>1, <1>2, <1>3, <1>4, StutterInv DEF Next

LEMMA Invariance == Spec => []IInv
  BY InitInv, NextInv, PTL DEF Spec

\* Every reachable state is well typed, and the leader is always a client.
THEOREM ConnectionsTyped == Spec => []ConnectionTypeOK
  BY Invariance, PTL DEF IInv

\* While no send to a client id has failed, whoever is served under it is the
\* one that is registered, however handlers and broadcasts interleave.
THEOREM PlaceKept == Spec => []KeepsItsPlace
<1>1. IInv => KeepsItsPlace
  BY DEF IInv, KeepsItsPlaceToTheEnd, Blamed, KeepsItsPlace
<1> QED
  BY <1>1, Invariance, PTL

\* The leader is a client with a handler that will give up the lead, or with
\* one that ended by an error before its try block: a leaked handler never
\* gives it up.
THEOREM LeaderAttached == Spec => []LeaderIsAttached
<1>1. IInv => LeaderIsAttached
  BY DEF IInv, LeaderHolds
<1> QED
  BY <1>1, Invariance, PTL

\* The end of a broadcast removes only registrations of sockets it could not
\* reach, whoever has connected while it was sending.
THEOREM OnlyFailedEvicted == Spec => EvictsOnlyFailed
<1> DEFINE Evicts == \A b \in Broadcasts, n \in Clients :
             phase[b] = "sending" /\ phase'[b] = "idle" /\ connections'[n] # connections[n]
               => connections[n] \in failures[b]
<1>1. IInv /\ [Next]_vars => [Evicts]_vars
  <2> SUFFICES ASSUME IInv, Next, NEW b \in Broadcasts, NEW n \in Clients,
                      phase[b] = "sending", phase'[b] = "idle",
                      connections'[n] # connections[n]
               PROVE  connections[n] \in failures[b]
    OBVIOUS
  <2>1. FinishBroadcast(b)
    <3>1. ASSUME NEW d \in Broadcasts, FinishBroadcast(d) PROVE d = b
      BY <3>1 DEF FinishBroadcast, IInv, ConnectionTypeOK
    <3>2. ASSUME NEW d \in Broadcasts, StartBroadcast(d) PROVE FALSE
      BY <3>2 DEF StartBroadcast, IInv, ConnectionTypeOK
    <3>3. phase' # phase
      OBVIOUS
    <3>4. ASSUME NEW s \in Sockets, Handling(s) PROVE FALSE
      BY <3>3, <3>4 DEF Handling, Connect, Accepted, AcceptFails, SendReady, DropClient, Reply,
                        Disconnected, Unregister, broadcasting
    <3>5. ASSUME NEW s \in Sockets, Ping(s) \/ LedCommand(s) \/ FreeCommand(s) \/ HangUp(s)
          PROVE  FALSE
      BY <3>3, <3>5 DEF Ping, LedCommand, FreeCommand, Asked, HangUp, broadcasting
    <3>6. ASSUME NEW d \in Broadcasts, NEW s \in Sockets, Sent(d, s) \/ SendTimesOut(d, s)
          PROVE  FALSE
      BY <3>3, <3>6 DEF Sent, SendTimesOut
    <3> QED
      BY <3>1, <3>2, <3>4, <3>5, <3>6 DEF Next, Broadcasting
  <2> QED
    BY <2>1 DEF FinishBroadcast, Evict, IInv, ConnectionTypeOK
<1> QED
  BY <1>1, Invariance, PTL DEF Spec, EvictsOnlyFailed
=============================================================================
