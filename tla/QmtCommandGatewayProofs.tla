---------------------- MODULE QmtCommandGatewayProofs ----------------------
(***************************************************************************)
(* Proofs about QmtCommandGateway, for every number of commands, every     *)
(* timeout and every capacity the constructor accepts, and about its two   *)
(* users.                                                                  *)
(*                                                                         *)
(* Those about the gateway rest on what _maintain and _store_result can do *)
(* to a book of commands (lemmas StoredTyped to MaintainedBook).  The      *)
(* fenced claims and the action properties follow command by command, the  *)
(* slots from one cardinality, the bytes from lemmas about sums over sets  *)
(* of commands.                                                            *)
(*                                                                         *)
(* The users are QmtMarketReads, for every number of reads and of          *)
(* commands, and QmtHistoryDownload, for every number of jobs, tasks,      *)
(* restarts and lost calls.  Each is a system of its own beside the        *)
(* gateway: no theorem of one speaks of the state, or cites the            *)
(* assumptions, of the other.  Whatever reads do to the gateway is         *)
(* something the gateway's own clients may do (ReadsUseTheGateway), so its *)
(* theorems hold beside the reads.  ReadsShowTheAnswer needs them: the     *)
(* total the gateway keeps is the one bars must fit beside, and bars that  *)
(* fit the reservation of their command always find room.                  *)
(*                                                                         *)
(* A task may only be called done because of what the terminal did for its *)
(* own command, and that must not change afterwards.  So the invariant     *)
(* says that a command is executed once: what the bridge executes has left *)
(* the queue for good and was not executed before (ExecutedOnce).          *)
(***************************************************************************)
EXTENDS QmtMarketReads, QmtHistoryDownload, TLAPS, FiniteSetTheorems

\* All that the lemmas about single operations need to know of a state.
BookOK == cmd \in [Commands -> Command]

LEMMA BookTyped == TypeOK => BookOK
  BY DEF TypeOK, BookOK

Failures(label) == {label, "invalid", "too_large", "capacity"}

\* _store_result keeps the label or substitutes a bounded failure.
LEMMA StoredTyped ==
  ASSUME NEW label \in Outcomes, NEW bytes \in Nat, NEW held, NEW n
  PROVE  /\ Stored(label, bytes, held, n) \in [outcome : Outcomes, bytes : Nat]
         /\ Stored(label, bytes, held, n).outcome \in Failures(label)
<1>1. /\ Encoded(label, bytes) \in [outcome : Outcomes, bytes : Nat]
      /\ Encoded(label, bytes).outcome \in Failures(label)
  BY GatewayAssumption DEF Encoded, Outcomes, Failures, Unencodable
<1>2. FailureBytes \in Nat /\ "capacity" \in Outcomes
  BY GatewayAssumption DEF Outcomes
<1> QED
  BY <1>1, <1>2 DEF Stored, Failures

LEMMA ResultTyped ==
  ASSUME NEW label \in Outcomes, NEW bytes \in Nat, NEW held, NEW n
  PROVE  LET r == ResultOf(Stored(label, bytes, held, n))
         IN  /\ r \in Command
             /\ r.place = "result" /\ r.lease = 0
             /\ r.outcome \in Failures(label)
  BY StoredTyped, GatewayAssumption DEF ResultOf, Command, Places

\* Failing a set of commands stores a failure for each of them and leaves
\* the rest of the book alone.
LEMMA FailAllBook ==
  ASSUME NEW k \in [Commands -> Command], NEW S, NEW label \in Outcomes, NEW held, NEW left
  PROVE  LET b == FailAll(k, S, label, held, left)
         IN  /\ b \in [Commands -> Command]
             /\ \A c \in Commands :
                  /\ c \notin S => b[c] = k[c]
                  /\ c \in S => /\ b[c].place = "result" /\ b[c].lease = 0
                                /\ b[c].outcome \in Failures(label)
<1> DEFINE b == FailAll(k, S, label, held, left)
           f(c) == ResultOf(Stored(label, FailureBytes,
                     held + FailureBytes * Cardinality(StoredBefore(k, c, S)), left[c]))
<1>1. FailureBytes \in Nat
  BY GatewayAssumption
<1>2. \A c : /\ f(c) \in Command
             /\ f(c).place = "result" /\ f(c).lease = 0
             /\ f(c).outcome \in Failures(label)
  BY <1>1, ResultTyped
<1>3. b = [c \in Commands |-> IF c \in S THEN f(c) ELSE k[c]]
  BY DEF FailAll
<1> HIDE DEF f, b
<1> QED
  BY <1>2, <1>3 DEF b

LEMMA GoneTyped == Gone \in Command /\ Gone.place = "gone" /\ Gone.lease = 0
  BY DEF Gone, Unborn, Command, Places, Outcomes

\* What _maintain may do to a command.
LEMMA MaintainedBook ==
  ASSUME BookOK
  PROVE  /\ Maintained \in [Commands -> Command]
         /\ \A c \in Commands :
              \/ Maintained[c] = cmd[c] /\ c \notin TimedOut
              \/ cmd[c].place = "result" /\ Maintained[c] = Gone
              \/ /\ cmd[c].place \in {"pending", "in_flight"}
                 /\ Overdue(cmd[c])
                 /\ Maintained[c].place = "result" /\ Maintained[c].lease = 0
                 /\ Maintained[c].outcome \in Failures("timeout")
<1>1. cmd \in [Commands -> Command]
  BY DEF BookOK
<1>2. /\ Pruned \in [Commands -> Command]
      /\ \A c \in Commands : Pruned[c] = IF c \in Expired THEN Gone ELSE cmd[c]
  BY <1>1, GoneTyped DEF Pruned
<1>3. "timeout" \in Outcomes
  BY DEF Outcomes
<1>4. /\ Maintained \in [Commands -> Command]
      /\ \A c \in Commands :
           /\ c \notin TimedOut => Maintained[c] = Pruned[c]
           /\ c \in TimedOut => /\ Maintained[c].place = "result" /\ Maintained[c].lease = 0
                                /\ Maintained[c].outcome \in Failures("timeout")
  BY <1>2, <1>3, FailAllBook DEF Maintained
<1>5. \A c \in Expired : cmd[c].place = "result"
  BY DEF Expired, Results, At
<1>6. \A c \in TimedOut : cmd[c].place \in {"pending", "in_flight"} /\ Overdue(cmd[c])
  BY DEF TimedOut, Outstanding, Pending, InFlight, At
<1> QED
  BY <1>2, <1>4, <1>5, <1>6

\* A command that survives maintenance in the queue or in flight is in time.
LEMMA MaintainedInTime ==
  ASSUME BookOK, NEW c \in Commands, Maintained[c].place \in {"pending", "in_flight"}
  PROVE  Maintained[c] = cmd[c] /\ ~Overdue(cmd[c])
<1>1. Maintained[c] = cmd[c] /\ c \notin TimedOut
  BY MaintainedBook, GoneTyped
<1> QED
  BY <1>1 DEF TimedOut, Outstanding, Pending, InFlight, At

\* What the replacement of the owner does to a command.
LEMMA ReplacedBook ==
  ASSUME BookOK, FailForReplacedOwner
  PROVE  /\ cmd' \in [Commands -> Command]
         /\ \A c \in Commands :
              /\ c \notin Outstanding(cmd) => cmd'[c] = cmd[c]
              /\ c \in Outstanding(cmd) =>
                   /\ cmd'[c].place = "result" /\ cmd'[c].lease = 0
                   /\ cmd'[c].outcome \in Failures("owner_replaced")
<1> DEFINE S == Outstanding(cmd)
           left == [c \in S |-> 0]
<1>1. cmd \in [Commands -> Command] /\ "owner_replaced" \in Outcomes
  BY DEF BookOK, Outcomes
<1>2. cmd' = FailAll(cmd, S, "owner_replaced", retained, left)
  BY DEF FailForReplacedOwner
<1> HIDE DEF S, left
<1>3. /\ cmd' \in [Commands -> Command]
      /\ \A c \in Commands :
           /\ c \notin S => cmd'[c] = cmd[c]
           /\ c \in S => /\ cmd'[c].place = "result" /\ cmd'[c].lease = 0
                         /\ cmd'[c].outcome \in Failures("owner_replaced")
  BY <1>1, <1>2, FailAllBook
<1> QED
  BY <1>3 DEF S

-----------------------------------------------------------------------------
(* Type correctness. *)

LEMMA QueuedTyped ==
  ASSUME NEW timeout \in Timeouts
  PROVE  Queued(timeout) \in Command /\ Queued(timeout).place = "pending"
  BY GatewayAssumption DEF Queued, Unborn, Command, Places, Outcomes

LEMMA InitTyped == Init => TypeOK
  BY GatewayAssumption DEF Init, TypeOK, Command, Unborn, Places, Outcomes

LEMMA NextTyped == TypeOK /\ [Next]_vars => TypeOK'
<1> SUFFICES ASSUME TypeOK, [Next]_vars PROVE TypeOK'
  OBVIOUS
<1> USE DEF TypeOK
<1>0. Maintained \in [Commands -> Command]
  BY MaintainedBook, BookTyped
<1>1. ASSUME NEW o \in Owners, RegisterOwner(o) PROVE TypeOK'
  <2>1. FailForReplacedOwner => cmd' \in [Commands -> Command]
    BY ReplacedBook, BookTyped
  <2>2. cmd' \in [Commands -> Command]
    BY <1>1, <2>1 DEF RegisterOwner
  <2> QED
    BY <1>1, <2>2, GatewayAssumption DEF RegisterOwner, OwnerIsStale
<1>2. ASSUME NEW o \in Owners, NEW g \in 1..MaxGeneration, Heartbeat(o, g) PROVE TypeOK'
  BY <1>2 DEF Heartbeat
<1>3. ASSUME NEW o \in Owners, NEW g \in 1..MaxGeneration,
             NEW limit \in 1..MaxPollLimit, Poll(o, g, limit)
      PROVE  TypeOK'
  <2>1. \A c \in Commands :
          [Maintained[c] EXCEPT !.place = "in_flight", !.age = 0, !.lease = generation]
            \in Command
    BY <1>0 DEF Command, Places
  <2> QED
    BY <1>0, <1>3, <2>1 DEF Poll
<1>4. ASSUME NEW o \in Owners, NEW g \in 1..MaxGeneration, NEW c \in Commands,
             NEW bytes \in AnswerBytes \cup {Unencodable}, PostResult(o, g, c, bytes)
      PROVE  TypeOK'
  <2>1. bytes \in Nat /\ "answered" \in Outcomes
    BY GatewayAssumption DEF Unencodable, Outcomes
  <2>2. \A held, n : ResultOf(Stored("answered", bytes, held, n)) \in Command
    BY <2>1, ResultTyped
  <2> QED
    BY <1>0, <1>4, <2>2 DEF PostResult, Maintain
<1>5. ASSUME NEW seconds \in BusyGrants, ExtendBusyUntil(seconds) PROVE TypeOK'
  BY <1>5, GatewayAssumption DEF ExtendBusyUntil, BusyExtended
<1>6. ASSUME NEW c \in Commands, NEW timeout \in Timeouts, Enqueue(c, timeout) PROVE TypeOK'
  BY <1>0, <1>6, QueuedTyped DEF Enqueue, leaseVars
<1>7. ASSUME NEW c \in Commands, TakeResult(c) PROVE TypeOK'
  BY <1>0, <1>7, GoneTyped DEF TakeResult, leaseVars
<1>8. CASE Observe
  BY <1>0, <1>8 DEF Observe, Maintain, leaseVars
<1>9. CASE Tick
  <2>1. \A c \in Commands : Aged(cmd[c]) \in Command
    BY DEF Aged, Command
  <2> QED
    BY <1>9, <2>1 DEF Tick
<1>10. CASE UNCHANGED vars
  BY <1>10 DEF vars
<1> QED
  BY <1>1, <1>2, <1>3, <1>4, <1>5, <1>6, <1>7, <1>8, <1>9, <1>10 DEF Next

\* Every reachable state of the gateway is well typed.
THEOREM TypeCorrect == Spec => []TypeOK
  BY InitTyped, NextTyped, PTL DEF Spec

-----------------------------------------------------------------------------
(* What one step can do to one command, and to the lease. *)

Kept(c) ==
  /\ cmd'[c].place = cmd[c].place
  /\ cmd'[c].lease = cmd[c].lease
  /\ cmd'[c].outcome = cmd[c].outcome
  /\ cmd'[c].bytes = cmd[c].bytes
Accepted(c) ==
  /\ cmd[c].place = "unborn"
  /\ \E timeout \in Timeouts : cmd'[c] = Queued(timeout)
Claimed(c) ==
  /\ cmd[c].place = "pending" /\ ~Overdue(cmd[c])
  /\ owner # NoOwner
  /\ cmd'[c] = [cmd[c] EXCEPT !.place = "in_flight", !.age = 0, !.lease = generation]
Answered(c) ==
  /\ cmd[c].place = "in_flight" /\ ~Overdue(cmd[c])
  /\ cmd[c].lease = generation
  /\ cmd'[c].place = "result" /\ cmd'[c].lease = 0
  /\ cmd'[c].outcome \in Failures("answered")
Failed(c) ==
  /\ cmd[c].place \in {"pending", "in_flight"}
  /\ cmd'[c].place = "result" /\ cmd'[c].lease = 0
  /\ cmd'[c].outcome \in Failures("timeout") \cup Failures("owner_replaced")
Dropped(c) == cmd[c].place = "result" /\ cmd'[c] = Gone
FailedAndDropped(c) == cmd[c].place \in {"pending", "in_flight"} /\ cmd'[c] = Gone

Moved(c) == \/ Kept(c) \/ Accepted(c) \/ Claimed(c) \/ Answered(c)
            \/ Failed(c) \/ Dropped(c) \/ FailedAndDropped(c)

\* Maintenance alone keeps, fails or drops.
LEMMA MaintenanceMoves ==
  ASSUME BookOK, NEW c \in Commands, cmd'[c] = Maintained[c]
  PROVE  Kept(c) \/ Failed(c) \/ Dropped(c)
<1>1. CASE Maintained[c] = cmd[c]
  BY <1>1 DEF Kept
<1>2. CASE cmd[c].place = "result" /\ Maintained[c] = Gone
  BY <1>2 DEF Dropped
<1>3. CASE /\ cmd[c].place \in {"pending", "in_flight"}
           /\ Maintained[c].place = "result" /\ Maintained[c].lease = 0
           /\ Maintained[c].outcome \in Failures("timeout")
  BY <1>3 DEF Failed
<1> QED
  BY <1>1, <1>2, <1>3, MaintainedBook

LEMMA EnqueueMoves ==
  ASSUME TypeOK, NEW c \in Commands, NEW timeout \in Timeouts, Enqueue(c, timeout)
  PROVE  /\ Accepted(c)
         /\ \A d \in Commands \ {c} : cmd'[d] = Maintained[d]
<1>1. Maintained \in [Commands -> Command]
  BY MaintainedBook, BookTyped
<1> QED
  BY <1>1 DEF Enqueue, IsNext, Accepted

LEMMA PollMoves ==
  ASSUME BookOK, NEW o, NEW g, NEW limit, Poll(o, g, limit), NEW c \in Commands
  PROVE  cmd'[c] = Maintained[c] \/ Claimed(c)
<1> DEFINE S == Oldest(Pending(Maintained), limit)
<1>1. cmd'[c] = IF c \in S
                THEN [Maintained[c] EXCEPT !.place = "in_flight", !.age = 0,
                                           !.lease = generation]
                ELSE Maintained[c]
  BY DEF Poll
<1>2. c \in S => Maintained[c].place = "pending"
  BY DEF Oldest, Pending, At
<1>3. c \in S => Maintained[c] = cmd[c] /\ ~Overdue(cmd[c])
  BY <1>2, MaintainedInTime
<1>4. owner # NoOwner
  BY DEF Poll, RequireOwner
<1> QED
  BY <1>1, <1>2, <1>3, <1>4 DEF Claimed

LEMMA PostResultMoves ==
  ASSUME BookOK, NEW o, NEW g, NEW c \in Commands, NEW bytes \in AnswerBytes \cup {Unencodable},
         PostResult(o, g, c, bytes)
  PROVE  /\ cmd'[c] = Maintained[c] \/ Answered(c)
         /\ \A d \in Commands \ {c} : cmd'[d] = Maintained[d]
<1>1. Maintained \in [Commands -> Command]
  BY MaintainedBook
<1>2. bytes \in Nat /\ "answered" \in Outcomes
  BY GatewayAssumption DEF Unencodable, Outcomes
<1>3. CASE Maintained[c].place = "in_flight" /\ Maintained[c].lease = generation
  <2> DEFINE s == Stored("answered", bytes, MaintainedBytes,
                         Cardinality(Outstanding(Maintained)) - 1)
  <2>1. cmd' = [Maintained EXCEPT ![c] = ResultOf(s)]
    BY <1>3 DEF PostResult
  <2>2. /\ ResultOf(s).place = "result" /\ ResultOf(s).lease = 0
        /\ ResultOf(s).outcome \in Failures("answered")
    BY <1>2, ResultTyped
  <2>3. Maintained[c] = cmd[c] /\ ~Overdue(cmd[c])
    BY <1>3, MaintainedInTime
  <2> HIDE DEF s
  <2> QED
    BY <1>1, <1>3, <2>1, <2>2, <2>3 DEF Answered
<1>4. CASE ~(Maintained[c].place = "in_flight" /\ Maintained[c].lease = generation)
  BY <1>4 DEF PostResult, Maintain
<1> QED
  BY <1>3, <1>4

LEMMA TakeResultMoves ==
  ASSUME TypeOK, NEW c \in Commands, TakeResult(c)
  PROVE  /\ Dropped(c) \/ FailedAndDropped(c)
         /\ \A d \in Commands \ {c} : cmd'[d] = Maintained[d]
<1>1. Maintained \in [Commands -> Command]
  BY MaintainedBook, BookTyped
<1>2. cmd'[c] = Gone /\ Maintained[c].place = "result"
  BY <1>1 DEF TakeResult
<1>3. cmd[c].place \in {"result", "pending", "in_flight"}
  BY <1>2, MaintainedBook, BookTyped, GoneTyped
<1> QED
  BY <1>1, <1>2, <1>3 DEF TakeResult, Dropped, FailedAndDropped

LEMMA TickMoves ==
  ASSUME BookOK, Tick, NEW c \in Commands
  PROVE  Kept(c)
<1>1. cmd[c] \in Command /\ cmd'[c] = Aged(cmd[c])
  BY DEF BookOK, Tick
<1> QED
  BY <1>1 DEF Aged, Kept, Command

LEMMA ReplacedMoves ==
  ASSUME BookOK, FailForReplacedOwner, NEW c \in Commands
  PROVE  IF c \in Outstanding(cmd) THEN Failed(c) ELSE cmd'[c] = cmd[c]
  BY ReplacedBook DEF Failed, Outstanding, Pending, InFlight, At

LEMMA CommandMoves ==
  ASSUME TypeOK, [Next]_vars, NEW c \in Commands
  PROVE  Moved(c)
<1> USE DEF Moved
<1>0. cmd'[c] = Maintained[c] => Moved(c)
  BY MaintenanceMoves, BookTyped
<1>1. ASSUME NEW o \in Owners, RegisterOwner(o) PROVE Moved(c)
  BY <1>1, ReplacedMoves, BookTyped DEF RegisterOwner, Kept
<1>2. ASSUME NEW o \in Owners, NEW g \in 1..MaxGeneration, Heartbeat(o, g) PROVE Moved(c)
  BY <1>2 DEF Heartbeat, Kept
<1>3. ASSUME NEW o \in Owners, NEW g \in 1..MaxGeneration,
             NEW limit \in 1..MaxPollLimit, Poll(o, g, limit)
      PROVE  Moved(c)
  BY <1>0, <1>3, PollMoves, BookTyped
<1>4. ASSUME NEW o \in Owners, NEW g \in 1..MaxGeneration, NEW d \in Commands,
             NEW bytes \in AnswerBytes \cup {Unencodable}, PostResult(o, g, d, bytes)
      PROVE  Moved(c)
  BY <1>0, <1>4, PostResultMoves, BookTyped
<1>5. ASSUME NEW seconds \in BusyGrants, ExtendBusyUntil(seconds) PROVE Moved(c)
  BY <1>5 DEF ExtendBusyUntil, Kept
<1>6. ASSUME NEW d \in Commands, NEW timeout \in Timeouts, Enqueue(d, timeout) PROVE Moved(c)
  BY <1>0, <1>6, EnqueueMoves
<1>7. ASSUME NEW d \in Commands, TakeResult(d) PROVE Moved(c)
  BY <1>0, <1>7, TakeResultMoves
<1>8. CASE Observe
  BY <1>0, <1>8 DEF Observe, Maintain
<1>9. CASE Tick
  BY <1>9, TickMoves, BookTyped
<1>10. CASE UNCHANGED vars
  BY <1>10 DEF vars, Kept
<1> QED
  BY <1>1, <1>2, <1>3, <1>4, <1>5, <1>6, <1>7, <1>8, <1>9, <1>10 DEF Next

\* Only enqueue accepts a command.
LEMMA AcceptedByEnqueue ==
  ASSUME TypeOK, [Next]_vars, NEW c \in Commands, Accepted(c)
  PROVE  \E d \in Commands, timeout \in Timeouts : Enqueue(d, timeout)
<1>1. cmd[c].place = "unborn" /\ cmd'[c].place = "pending"
  BY QueuedTyped DEF Accepted
<1>2. ~(Kept(c) \/ Claimed(c) \/ Answered(c) \/ Failed(c) \/ Dropped(c) \/ FailedAndDropped(c))
  BY <1>1 DEF Kept, Claimed, Answered, Failed, Dropped, FailedAndDropped
<1>3. cmd'[c] # Maintained[c] /\ cmd'[c] # cmd[c]
  BY <1>1, <1>2, MaintenanceMoves, BookTyped
<1>4. ~FailForReplacedOwner
  BY <1>2, <1>3, ReplacedMoves, BookTyped
<1>5. \A o \in Owners, g \in 1..MaxGeneration, limit \in 1..MaxPollLimit : ~Poll(o, g, limit)
  BY <1>2, <1>3, PollMoves, BookTyped
<1>6. \A o \in Owners, g \in 1..MaxGeneration, d \in Commands,
         bytes \in AnswerBytes \cup {Unencodable} : ~PostResult(o, g, d, bytes)
  BY <1>2, <1>3, PostResultMoves, BookTyped
<1>7. \A d \in Commands : ~TakeResult(d)
  BY <1>2, <1>3, TakeResultMoves
<1>8. ~Tick
  BY <1>2, TickMoves, BookTyped
<1>9. ~Observe
  BY <1>3 DEF Observe, Maintain
<1>10. UNCHANGED cmd => FALSE
  BY <1>3
<1> QED
  BY <1>4, <1>5, <1>6, <1>7, <1>8, <1>9, <1>10
     DEF Next, RegisterOwner, Heartbeat, ExtendBusyUntil, vars

LEMMA LeaseMoves ==
  ASSUME TypeOK, [Next]_vars
  PROVE  \/ UNCHANGED <<owner, generation>>
         \/ /\ generation' = generation + 1
            /\ owner' \in Owners
            /\ \/ generation = 0 /\ UNCHANGED cmd
               \/ generation > 0 /\ FailForReplacedOwner
<1>1. ASSUME NEW o \in Owners, RegisterOwner(o)
      PROVE  \/ UNCHANGED <<owner, generation>>
             \/ /\ generation' = generation + 1
                /\ owner' \in Owners
                /\ \/ generation = 0 /\ UNCHANGED cmd
                   \/ generation > 0 /\ FailForReplacedOwner
  <2>1. OwnerIsStale => generation > 0
    BY DEF OwnerIsStale, TypeOK
  <2>2. owner = NoOwner => generation = 0
    BY DEF TypeOK
  <2> QED
    BY <1>1, <2>1, <2>2 DEF RegisterOwner
<1>2. (\E o \in Owners : RegisterOwner(o)) \/ UNCHANGED <<owner, generation>>
  BY DEF Next, vars, leaseVars, Heartbeat, Poll, PostResult, ExtendBusyUntil, Enqueue,
         TakeResult, Observe, Tick
<1> QED
  BY <1>1, <1>2

-----------------------------------------------------------------------------
(* Theorems. *)

\* After a takeover no command is left in flight for the previous lease.
THEOREM Fenced == Spec => []ClaimsAreFenced
<1>1. Init => ClaimsAreFenced
  BY DEF Init, ClaimsAreFenced, InFlight, At, Unborn
<1>2. TypeOK /\ ClaimsAreFenced /\ [Next]_vars => ClaimsAreFenced'
  <2> SUFFICES ASSUME TypeOK, ClaimsAreFenced, [Next]_vars,
                      NEW c \in Commands, cmd'[c].place = "in_flight"
               PROVE  cmd'[c].lease = generation' /\ owner' # NoOwner
    BY DEF ClaimsAreFenced, InFlight, At
  <2>1. Kept(c) \/ Claimed(c)
    BY CommandMoves, QueuedTyped, GoneTyped DEF Moved, Accepted, Answered, Failed,
       Dropped, FailedAndDropped
  <2>2. cmd[c] \in Command
    BY DEF TypeOK
  <2>3. cmd[c].place = "in_flight" => cmd[c].lease = generation /\ owner # NoOwner
    BY DEF ClaimsAreFenced, InFlight, At
  <2>4. cmd'[c].lease = generation /\ owner # NoOwner
    BY <2>1, <2>2, <2>3 DEF Kept, Claimed, Command
  <2>5. CASE UNCHANGED <<owner, generation>>
    BY <2>4, <2>5
  <2>6. CASE generation = 0
    BY <2>4, <2>6 DEF TypeOK
  <2>7. CASE FailForReplacedOwner
    <3>1. c \notin Outstanding(cmd) /\ cmd'[c] = cmd[c]
      BY <2>7, ReplacedBook, BookTyped
    <3> QED
      BY <3>1 DEF Outstanding, InFlight, At
  <2> QED
    BY <2>5, <2>6, <2>7, LeaseMoves
<1> QED
  BY <1>1, <1>2, TypeCorrect, PTL DEF Spec

\* A terminal result stays as recorded until it expires or is taken.
THEOREM ResultsAreFinal == Spec => TerminalIsFinal
<1> DEFINE Final(c) ==
      /\ cmd[c].place = "result" =>
           \/ cmd'[c].place = "gone"
           \/ /\ cmd'[c].place = "result"
              /\ cmd'[c].outcome = cmd[c].outcome
              /\ cmd'[c].bytes = cmd[c].bytes
      /\ cmd[c].place = "gone" => cmd'[c].place = "gone"
<1>1. ASSUME TypeOK, [Next]_vars, NEW c \in Commands PROVE Final(c)
  BY <1>1, CommandMoves, GoneTyped DEF Moved, Kept, Accepted, Claimed, Answered, Failed,
     Dropped, FailedAndDropped
<1>2. TypeOK /\ [Next]_vars => [\A c \in Commands : Final(c)]_vars
  BY <1>1
<1> QED
  BY <1>2, TypeCorrect, PTL DEF Spec, TerminalIsFinal

\* An answer is recorded only for the lease in force and within the timeout.
THEOREM OnlyTimelyAnswers == Spec => AnswersAreTimely
<1> DEFINE Timely(c) ==
      cmd[c].place # "result" /\ cmd'[c].place = "result" /\ cmd'[c].outcome = "answered" =>
        /\ cmd[c].place = "in_flight"
        /\ cmd[c].lease = generation'
        /\ ~Overdue(cmd[c])
<1>1. ASSUME TypeOK, [Next]_vars, NEW c \in Commands PROVE Timely(c)
  <2> SUFFICES ASSUME cmd[c].place # "result", cmd'[c].place = "result",
                      cmd'[c].outcome = "answered"
               PROVE  /\ cmd[c].place = "in_flight"
                      /\ cmd[c].lease = generation'
                      /\ ~Overdue(cmd[c])
    OBVIOUS
  <2>1. cmd[c] \in Command
    BY <1>1 DEF TypeOK
  <2>2. Answered(c)
    BY <1>1, <2>1, CommandMoves, QueuedTyped, GoneTyped DEF Moved, Kept, Accepted, Claimed,
       Failed, Dropped, FailedAndDropped, Failures, Command
  <2>3. generation' = generation
    <3>1. ~FailForReplacedOwner
      BY <1>1, ReplacedBook, BookTyped DEF Failures
    <3>2. cmd' # cmd
      OBVIOUS
    <3> QED
      BY <1>1, <3>1, <3>2, LeaseMoves
  <2> QED
    BY <2>2, <2>3 DEF Answered
<1>2. TypeOK /\ [Next]_vars => [\A c \in Commands : Timely(c)]_vars
  BY <1>1
<1> QED
  BY <1>2, TypeCorrect, PTL DEF Spec, AnswersAreTimely

\* A command whose timeout has passed is never handed to a bridge.
THEOREM OnlyTimelyClaims == Spec => ClaimsAreTimely
<1> DEFINE Timely(c) ==
      cmd[c].place = "pending" /\ cmd'[c].place = "in_flight" => ~Overdue(cmd[c])
<1>1. ASSUME TypeOK, [Next]_vars, NEW c \in Commands PROVE Timely(c)
  BY <1>1, CommandMoves, GoneTyped DEF Moved, Kept, Accepted, Claimed, Answered, Failed,
     Dropped, FailedAndDropped
<1>2. TypeOK /\ [Next]_vars => [\A c \in Commands : Timely(c)]_vars
  BY <1>1
<1> QED
  BY <1>2, TypeCorrect, PTL DEF Spec, ClaimsAreTimely

\* Replacing a lease fails everything that is queued or claimed.
THEOREM NewLeaseIsEmpty == Spec => NewLeaseStartsEmpty
<1>1. ASSUME TypeOK, [Next]_vars, generation > 0, generation' # generation
      PROVE  Outstanding(cmd') = {}
  <2>1. FailForReplacedOwner
    BY <1>1, LeaseMoves
  <2>2. \A c \in Commands : cmd'[c].place \notin {"pending", "in_flight"}
    BY <1>1, <2>1, ReplacedBook, BookTyped DEF Outstanding, Pending, InFlight, At
  <2> QED
    BY <2>2 DEF Outstanding, Pending, InFlight, At
<1>2. TypeOK /\ [Next]_vars
      => [generation > 0 /\ generation' # generation => Outstanding(cmd') = {}]_vars
  BY <1>1
<1> QED
  BY <1>2, TypeCorrect, PTL DEF Spec, NewLeaseStartsEmpty

-----------------------------------------------------------------------------
(* Capacity.  SlotsReserved is inductive once the two counts are read as one *)
(* cardinality: the commands that are outstanding or hold a result.  Only    *)
(* enqueue adds a command to that set.                                       *)

Live(k) == Outstanding(k) \cup Results(k)

LEMMA CommandsFinite == \A S \in SUBSET Commands : IsFiniteSet(S) /\ Cardinality(S) \in Nat
<1>1. IsFiniteSet(Commands)
  BY FS_Interval, GatewayAssumption DEF Commands
<1> QED
  BY <1>1, FS_Subset, FS_CardinalityType

LEMMA SlotCount ==
  ASSUME NEW k
  PROVE  /\ Outstanding(k) \in SUBSET Commands
         /\ Results(k) \in SUBSET Commands
         /\ Live(k) \in SUBSET Commands
         /\ Cardinality(Live(k)) = Cardinality(Outstanding(k)) + Cardinality(Results(k))
<1>1. /\ Outstanding(k) \in SUBSET Commands
      /\ Results(k) \in SUBSET Commands
      /\ Outstanding(k) \cap Results(k) = {}
  BY DEF Outstanding, Results, Pending, InFlight, At
<1>2. IsFiniteSet(Outstanding(k)) /\ IsFiniteSet(Results(k))
  BY <1>1, CommandsFinite
<1>3. Cardinality(Outstanding(k) \cup Results(k))
        = Cardinality(Outstanding(k)) + Cardinality(Results(k))
            - Cardinality(Outstanding(k) \cap Results(k))
  BY <1>2, FS_Union
<1>4. /\ Cardinality(Outstanding(k)) \in Nat /\ Cardinality(Results(k)) \in Nat
      /\ Cardinality(Outstanding(k) \cap Results(k)) = 0
  BY <1>1, CommandsFinite, FS_EmptySet
<1> QED
  BY <1>1, <1>3, <1>4 DEF Live

\* A book that holds no more than another needs no more capacity.
LEMMA SmallerBook ==
  ASSUME NEW k, NEW b, Outstanding(b) \subseteq Outstanding(k), Live(b) \subseteq Live(k)
  PROVE  /\ Cardinality(Outstanding(b)) <= Cardinality(Outstanding(k))
         /\ Cardinality(Live(b)) <= Cardinality(Live(k))
<1>1. /\ IsFiniteSet(Outstanding(k)) /\ IsFiniteSet(Live(k))
      /\ Outstanding(b) \in SUBSET Outstanding(k) /\ Live(b) \in SUBSET Live(k)
  BY SlotCount, CommandsFinite
<1> QED
  BY <1>1, FS_Subset

\* A step that accepts nothing holds no more than before.
LEMMA NoGrowth ==
  ASSUME TypeOK, \A c \in Commands : Moved(c) /\ ~Accepted(c)
  PROVE  Outstanding(cmd') \subseteq Outstanding(cmd) /\ Live(cmd') \subseteq Live(cmd)
<1>1. ASSUME NEW c \in Commands
      PROVE  /\ cmd'[c].place \in {"pending", "in_flight"} =>
                  cmd[c].place \in {"pending", "in_flight"}
             /\ cmd'[c].place \in {"pending", "in_flight", "result"} =>
                  cmd[c].place \in {"pending", "in_flight", "result"}
  BY GoneTyped DEF Moved, Kept, Claimed, Answered, Failed, Dropped, FailedAndDropped
<1> QED
  BY <1>1 DEF Live, Outstanding, Results, Pending, InFlight, At

LEMMA EnqueueGrowth ==
  ASSUME TypeOK, NEW c \in Commands, NEW timeout \in Timeouts, Enqueue(c, timeout)
  PROVE  /\ Cardinality(Outstanding(cmd')) = Cardinality(Outstanding(Maintained)) + 1
         /\ Cardinality(Results(cmd')) = Cardinality(Results(Maintained))
<1>1. /\ Maintained \in [Commands -> Command]
      /\ cmd' = [Maintained EXCEPT ![c] = Queued(timeout)]
      /\ Queued(timeout).place = "pending"
  BY MaintainedBook, BookTyped, QueuedTyped DEF Enqueue
<1>2. Maintained[c].place = "unborn"
  BY MaintainedBook, BookTyped DEF Enqueue, IsNext
<1>3. /\ c \notin Outstanding(Maintained)
      /\ Outstanding(cmd') = Outstanding(Maintained) \cup {c}
      /\ Results(cmd') = Results(Maintained)
  BY <1>1, <1>2 DEF Outstanding, Results, Pending, InFlight, At
<1>4. IsFiniteSet(Outstanding(Maintained))
  BY SlotCount, CommandsFinite
<1> QED
  BY <1>3, <1>4, FS_AddElement

\* Every accepted command keeps a result slot of its own until it settles,
\* in every order of claims, timeouts, takeovers and answers.
THEOREM SlotsAreReserved == Spec => []SlotsReserved
<1>1. Init => SlotsReserved
  <2> SUFFICES ASSUME Init PROVE SlotsReserved
    OBVIOUS
  <2>1. Outstanding(cmd) = {} /\ Results(cmd) = {}
    BY DEF Init, Outstanding, Results, Pending, InFlight, At, Unborn
  <2> QED
    BY <2>1, FS_EmptySet, GatewayAssumption DEF SlotsReserved
<1>2. TypeOK /\ SlotsReserved /\ [Next]_vars => SlotsReserved'
  <2> SUFFICES ASSUME TypeOK, SlotsReserved, [Next]_vars PROVE SlotsReserved'
    OBVIOUS
  <2>1. /\ Cardinality(Outstanding(cmd')) \in Nat /\ Cardinality(Outstanding(cmd)) \in Nat
        /\ Cardinality(Outstanding(Maintained)) \in Nat
        /\ Cardinality(Results(cmd')) \in Nat /\ Cardinality(Results(Maintained)) \in Nat
        /\ Cardinality(Results(cmd)) \in Nat
    BY SlotCount, CommandsFinite
  <2>2. CASE \A c \in Commands : ~Accepted(c)
    <3>1. Outstanding(cmd') \subseteq Outstanding(cmd) /\ Live(cmd') \subseteq Live(cmd)
      BY <2>2, CommandMoves, NoGrowth
    <3>2. /\ Cardinality(Outstanding(cmd')) <= Cardinality(Outstanding(cmd))
          /\ Cardinality(Live(cmd')) <= Cardinality(Live(cmd))
      BY <3>1, SmallerBook
    <3> QED
      BY <2>1, <3>2, SlotCount, GatewayAssumption DEF SlotsReserved
  <2>3. ASSUME NEW c \in Commands, Accepted(c) PROVE SlotsReserved'
    <3>1. \E d \in Commands, timeout \in Timeouts : Enqueue(d, timeout)
      BY <2>3, AcceptedByEnqueue
    <3>2. PICK d \in Commands, timeout \in Timeouts : Enqueue(d, timeout)
      BY <3>1
    <3>3. HasCapacity(Maintained, MaintainedBytes)
      BY <3>2 DEF Enqueue
    <3> QED
      BY <2>1, <3>2, <3>3, EnqueueGrowth, GatewayAssumption DEF HasCapacity, SlotsReserved
  <2> QED
    BY <2>2, <2>3
<1> QED
  BY <1>1, <1>2, TypeCorrect, PTL DEF Spec

-----------------------------------------------------------------------------
(* Sums of sizes.  TotalBytes folds over a set, and what a fold computes is  *)
(* a matter of induction.  The induction is taken from the least element of  *)
(* what would be left out of a set of numbers, then of sets of commands, so  *)
(* that no rule with an operator parameter is needed.                        *)

\* Induction, with the property as a set: what remains outside would have a
\* least element.
LEMMA NatSetInduction ==
  ASSUME NEW S, 0 \in S, \A n \in Nat : n \in S => n + 1 \in S
  PROVE  Nat \subseteq S
<1> DEFINE T == Nat \ S
           R == OpToRel(<, Nat)
<1>1. SUFFICES ASSUME T # {} PROVE FALSE
  OBVIOUS
<1>2. PICK x \in T : \A y \in T : <<y, x>> \notin R
  <2> HIDE DEF R, T
  <2>1. IsWellFoundedOn(R, Nat)
    BY NatLessThanWellFounded DEF R
  <2>2. T \subseteq Nat
    BY DEF T
  <2> QED
    BY <2>1, <2>2, <1>1, WFMin
<1>3. x - 1 \in T
  OBVIOUS
<1>4. <<x - 1, x>> \in R
  BY <1>3 DEF OpToRel
<1> QED
  BY <1>2, <1>3, <1>4

\* Induction over sets of commands: what holds of the empty set, and of a set
\* when it holds of every set that lacks just one of its elements, holds of all.
LEMMA SetsOfCommands ==
  /\ \A s \in SUBSET Commands : IsFiniteSet(s) /\ Cardinality(s) \in Nat
  /\ \A s \in SUBSET Commands : Cardinality(s) = 0 <=> s = {}
  /\ \A s \in SUBSET Commands : \A x \in s : 
        s \ {x} \in SUBSET Commands /\ Cardinality(s \ {x}) = Cardinality(s) - 1
<1>1. \A s \in SUBSET Commands : IsFiniteSet(s) /\ Cardinality(s) \in Nat
  BY CommandsFinite
<1> QED
  BY <1>1, FS_EmptySet, FS_RemoveElement

LEMMA CommandSetInduction ==
  ASSUME NEW F \in SUBSET SUBSET Commands, {} \in F,
         \A s \in SUBSET Commands : s # {} /\ (\A x \in s : s \ {x} \in F) => s \in F
  PROVE  F = SUBSET Commands
<1> DEFINE N == {n \in Nat : \A s \in SUBSET Commands : Cardinality(s) = n => s \in F}
<1>1. 0 \in N
  BY SetsOfCommands
<1>2. ASSUME NEW n \in Nat, n \in N PROVE n + 1 \in N
  <2>1. ASSUME NEW s \in SUBSET Commands, Cardinality(s) = n + 1 PROVE s \in F
    <3>1. s # {}
      BY <2>1, SetsOfCommands
    <3>2. \A x \in s : Cardinality(s \ {x}) = n /\ s \ {x} \in SUBSET Commands
      BY <2>1, SetsOfCommands
    <3> QED
      BY <3>1, <3>2, <1>2
  <2> QED
    BY <2>1
<1>3. Nat \subseteq N
  <2> HIDE DEF N
  <2> QED
    BY <1>1, <1>2, NatSetInduction
<1> QED
  BY <1>3, SetsOfCommands

\* The element a sum takes next, and the equation of the recursion behind it.
Pick(s) == CHOOSE x \in s : TRUE
Total(g, k, s) == IF s = {} THEN 0 ELSE k[Pick(s)].bytes + g[s \ {Pick(s)}]

\* The recursion has a solution over the subsets of any set of commands.
LEMMA SumExists ==
  ASSUME NEW k \in [Commands -> Command], NEW D \in SUBSET Commands
  PROVE  \E g : g = [s \in SUBSET D |-> Total(g, k, s)]
<1> DEFINE Upto(g, n) == \A s \in SUBSET D : Cardinality(s) <= n => g[s] = Total(g, k, s)
           N == {n \in Nat : \E g : g = [s \in SUBSET D |-> g[s]] /\ Upto(g, n)}
<1>0. \A s \in SUBSET D : s # {} => Pick(s) \in s /\ s \in SUBSET Commands
         /\ s \ {Pick(s)} \in SUBSET D
  BY DEF Pick
<1>1. 0 \in N
  <2> DEFINE g == [s \in SUBSET D |-> 0]
  <2>1. Upto(g, 0)
    BY SetsOfCommands DEF Total
  <2>2. g = [s \in SUBSET D |-> g[s]]
    OBVIOUS
  <2> QED
    BY <2>1, <2>2
<1>2. ASSUME NEW n \in Nat, n \in N PROVE n + 1 \in N
  <2>1. PICK g : g = [s \in SUBSET D |-> g[s]] /\ Upto(g, n)
    BY <1>2
  <2> DEFINE h == [s \in SUBSET D |-> IF Cardinality(s) <= n THEN g[s] ELSE Total(g, k, s)]
  <2>2. ASSUME NEW s \in SUBSET D, Cardinality(s) <= n + 1 PROVE h[s] = Total(h, k, s)
    <3>1. h[s] = Total(g, k, s)
      BY <2>1
    <3>2. s # {} => h[s \ {Pick(s)}] = g[s \ {Pick(s)}]
      <4>1. s # {} => Cardinality(s \ {Pick(s)}) <= n
        BY <1>0, <2>2, SetsOfCommands
      <4> QED
        BY <1>0, <4>1
    <3> QED
      BY <3>1, <3>2 DEF Total
  <2>3. Upto(h, n + 1)
    BY <2>2
  <2>4. h = [s \in SUBSET D |-> h[s]]
    OBVIOUS
  <2>5. \E f : f = [s \in SUBSET D |-> f[s]] /\ Upto(f, n + 1)
    <3> HIDE DEF h, Upto
    <3> QED
      BY <2>3, <2>4
  <2> HIDE DEF h, Upto
  <2> QED
    BY <2>5
<1>3. Nat \subseteq N
  <2> HIDE DEF N
  <2> QED
    BY <1>1, <1>2, NatSetInduction
<1>4. Cardinality(D) \in N
  BY <1>3, SetsOfCommands
<1>5. PICK g : g = [s \in SUBSET D |-> g[s]] /\ Upto(g, Cardinality(D))
  BY <1>4
<1>6. \A s \in SUBSET D : Cardinality(s) <= Cardinality(D)
  BY SetsOfCommands, FS_Subset
<1>7. \A s \in SUBSET D : g[s] = Total(g, k, s)
  BY <1>5, <1>6
<1> HIDE DEF Total, Upto, N
<1>8. g = [s \in SUBSET D |-> Total(g, k, s)]
  BY <1>5, <1>7
<1> QED
  BY <1>8

SumOver(k, D) == CHOOSE g : g = [s \in SUBSET D |-> Total(g, k, s)]

LEMMA SumIsTotal ==
  ASSUME NEW k, NEW D
  PROVE  TotalBytes(k, D) = SumOver(k, D)[D]
  BY DEF TotalBytes, MapThenSumSet, MapThenFoldSet, SumOver, Total, Pick

LEMMA SumEquation ==
  ASSUME NEW k \in [Commands -> Command], NEW D \in SUBSET Commands
  PROVE  SumOver(k, D) = [s \in SUBSET D |-> Total(SumOver(k, D), k, s)]
  BY SumExists DEF SumOver

\* The sum over a set does not depend on the set whose recursion computes it.
LEMMA SumAgrees ==
  ASSUME NEW k \in [Commands -> Command]
  PROVE  \A D, s \in SUBSET Commands : s \subseteq D => SumOver(k, D)[s] = TotalBytes(k, s)
<1> DEFINE F == {s \in SUBSET Commands : \A D, E \in SUBSET Commands :
                   s \subseteq D /\ s \subseteq E => SumOver(k, D)[s] = SumOver(k, E)[s]}
<1>1. \A D, s \in SUBSET Commands : s \subseteq D =>
        SumOver(k, D)[s] = IF s = {} THEN 0
                           ELSE k[Pick(s)].bytes + SumOver(k, D)[s \ {Pick(s)}]
  <2> SUFFICES ASSUME NEW D \in SUBSET Commands, NEW s \in SUBSET Commands, s \subseteq D
               PROVE  SumOver(k, D)[s] = Total(SumOver(k, D), k, s)
    BY Zenon DEF Total
  <2> DEFINE g == SumOver(k, D)
  <2>1. g = [x \in SUBSET D |-> Total(g, k, x)]
    BY SumEquation
  <2> HIDE DEF g
  <2>2. g[s] = Total(g, k, s)
    BY <2>1
  <2> QED
    BY <2>2 DEF g
<1>2. \A s : s # {} => Pick(s) \in s
  BY DEF Pick
<1>3. {} \in F
  BY <1>1
<1>4. ASSUME NEW s \in SUBSET Commands, s # {}, \A x \in s : s \ {x} \in F PROVE s \in F
  <2> DEFINE r == s \ {Pick(s)}
  <2>1. r \in F /\ r \subseteq s
    BY <1>2, <1>4
  <2>2. ASSUME NEW D \in SUBSET Commands, NEW E \in SUBSET Commands, s \subseteq D, s \subseteq E
        PROVE  SumOver(k, D)[s] = SumOver(k, E)[s]
    <3>1. SumOver(k, D)[r] = SumOver(k, E)[r]
      BY <2>1, <2>2
    <3>2. /\ SumOver(k, D)[s] = k[Pick(s)].bytes + SumOver(k, D)[r]
          /\ SumOver(k, E)[s] = k[Pick(s)].bytes + SumOver(k, E)[r]
      BY <1>1, <1>4, <2>2
    <3> QED
      BY <3>1, <3>2
  <2> QED
    BY <2>2
<1>5. F = SUBSET Commands
  <2> HIDE DEF F
  <2>1. F \in SUBSET SUBSET Commands
    BY DEF F
  <2> QED
    BY <1>3, <1>4, <2>1, CommandSetInduction
<1> QED
  BY <1>5, SumIsTotal

LEMMA TotalOfPick ==
  ASSUME NEW k \in [Commands -> Command], NEW s \in SUBSET Commands
  PROVE  TotalBytes(k, s) = IF s = {} THEN 0
                            ELSE k[Pick(s)].bytes + TotalBytes(k, s \ {Pick(s)})
<1>1. s # {} => Pick(s) \in s
  BY DEF Pick
<1>2. SumOver(k, s)[s] = Total(SumOver(k, s), k, s)
  BY SumEquation
<1>3. SumOver(k, s)[s] = TotalBytes(k, s)
  BY SumAgrees
<1>4. s # {} => SumOver(k, s)[s \ {Pick(s)}] = TotalBytes(k, s \ {Pick(s)})
  BY <1>1, SumAgrees
<1> QED
  BY <1>2, <1>3, <1>4 DEF Total

\* A sum of sizes is a size.
LEMMA TotalTyped ==
  ASSUME NEW k \in [Commands -> Command]
  PROVE  \A s \in SUBSET Commands : TotalBytes(k, s) \in Nat
<1> DEFINE F == {s \in SUBSET Commands : TotalBytes(k, s) \in Nat}
<1>1. {} \in F
  <2>1. TotalBytes(k, {}) = 0
    BY TotalOfPick
  <2> QED
    BY <2>1
<1>2. ASSUME NEW s \in SUBSET Commands, s # {}, \A x \in s : s \ {x} \in F PROVE s \in F
  <2>1. Pick(s) \in s /\ k[Pick(s)].bytes \in Nat
    BY <1>2 DEF Pick, Command
  <2>2. TotalBytes(k, s) = k[Pick(s)].bytes + TotalBytes(k, s \ {Pick(s)})
    BY <1>2, TotalOfPick
  <2>3. TotalBytes(k, s \ {Pick(s)}) \in Nat
    BY <1>2, <2>1
  <2> QED
    BY <2>1, <2>2, <2>3
<1>3. F = SUBSET Commands
  <2> HIDE DEF F
  <2>1. F \in SUBSET SUBSET Commands
    BY DEF F
  <2> QED
    BY <1>1, <1>2, <2>1, CommandSetInduction
<1> QED
  BY <1>3

\* Any element may be taken out of a sum first.
LEMMA TotalWithout ==
  ASSUME NEW k \in [Commands -> Command]
  PROVE  \A s \in SUBSET Commands : \A x \in s :
           TotalBytes(k, s) = k[x].bytes + TotalBytes(k, s \ {x})
<1> DEFINE F == {s \in SUBSET Commands : \A x \in s :
                   TotalBytes(k, s) = k[x].bytes + TotalBytes(k, s \ {x})}
<1>1. {} \in F
  OBVIOUS
<1>2. ASSUME NEW s \in SUBSET Commands, s # {}, \A x \in s : s \ {x} \in F PROVE s \in F
  <2>1. ASSUME NEW x \in s PROVE TotalBytes(k, s) = k[x].bytes + TotalBytes(k, s \ {x})
    <3> DEFINE p == Pick(s)
    <3>1. p \in s
      BY <1>2 DEF Pick
    <3>2. TotalBytes(k, s) = k[p].bytes + TotalBytes(k, s \ {p})
      BY <1>2, TotalOfPick
    <3>3. CASE x = p
      BY <3>2, <3>3
    <3>4. CASE x # p
      <4>1. (s \ {p}) \ {x} = (s \ {x}) \ {p}
        OBVIOUS
      <4>2. TotalBytes(k, s \ {p}) = k[x].bytes + TotalBytes(k, (s \ {p}) \ {x})
        BY <1>2, <3>1, <3>4
      <4>3. TotalBytes(k, s \ {x}) = k[p].bytes + TotalBytes(k, (s \ {p}) \ {x})
        BY <1>2, <3>1, <3>4, <4>1
      <4>4. /\ k[p].bytes \in Nat /\ k[x].bytes \in Nat
            /\ TotalBytes(k, (s \ {p}) \ {x}) \in Nat
        BY <3>1, TotalTyped DEF Command
      <4> QED
        BY <3>2, <4>2, <4>3, <4>4
    <3> QED
      BY <3>3, <3>4
  <2> QED
    BY <2>1
<1>3. F = SUBSET Commands
  <2> HIDE DEF F
  <2>1. F \in SUBSET SUBSET Commands
    BY DEF F
  <2> QED
    BY <1>1, <1>2, <2>1, CommandSetInduction
<1> QED
  BY <1>3

\* A set whose commands all have one size.
LEMMA TotalOfEqual ==
  ASSUME NEW k \in [Commands -> Command], NEW b \in Nat
  PROVE  \A s \in SUBSET Commands : (\A c \in s : k[c].bytes = b) =>
           TotalBytes(k, s) = b * Cardinality(s)
<1> DEFINE F == {s \in SUBSET Commands : (\A c \in s : k[c].bytes = b) =>
                   TotalBytes(k, s) = b * Cardinality(s)}
<1>1. {} \in F
  <2>1. TotalBytes(k, {}) = 0 /\ Cardinality({}) = 0
    BY TotalOfPick, SetsOfCommands
  <2> QED
    BY <2>1
<1>2. ASSUME NEW s \in SUBSET Commands, s # {}, \A x \in s : s \ {x} \in F PROVE s \in F
  <2> SUFFICES ASSUME \A c \in s : k[c].bytes = b PROVE TotalBytes(k, s) = b * Cardinality(s)
    OBVIOUS
  <2>1. PICK x \in s : TRUE
    BY <1>2
  <2>2. TotalBytes(k, s) = b + b * Cardinality(s \ {x})
    BY <1>2, <2>1, TotalWithout
  <2>3. Cardinality(s) \in Nat /\ Cardinality(s \ {x}) = Cardinality(s) - 1
    BY <2>1, SetsOfCommands
  <2> QED
    BY <2>2, <2>3
<1>3. F = SUBSET Commands
  <2> HIDE DEF F
  <2>1. F \in SUBSET SUBSET Commands
    BY DEF F
  <2> QED
    BY <1>1, <1>2, <2>1, CommandSetInduction
<1> QED
  BY <1>3

\* Two books that agree on a set have one sum over it, and the sum over two
\* sets that share nothing is the sum of their sums.
LEMMA TotalAgrees ==
  ASSUME NEW k \in [Commands -> Command], NEW b \in [Commands -> Command]
  PROVE  \A s \in SUBSET Commands : (\A c \in s : k[c].bytes = b[c].bytes) =>
           TotalBytes(k, s) = TotalBytes(b, s)
<1> DEFINE F == {s \in SUBSET Commands : (\A c \in s : k[c].bytes = b[c].bytes) =>
                   TotalBytes(k, s) = TotalBytes(b, s)}
<1>1. {} \in F
  BY TotalOfPick
<1>2. ASSUME NEW s \in SUBSET Commands, s # {}, \A x \in s : s \ {x} \in F PROVE s \in F
  <2>1. PICK x \in s : TRUE
    BY <1>2
  <2>2. /\ TotalBytes(k, s) = k[x].bytes + TotalBytes(k, s \ {x})
        /\ TotalBytes(b, s) = b[x].bytes + TotalBytes(b, s \ {x})
    BY <2>1, TotalWithout
  <2> QED
    BY <1>2, <2>1, <2>2
<1>3. F = SUBSET Commands
  <2> HIDE DEF F
  <2>1. F \in SUBSET SUBSET Commands
    BY DEF F
  <2> QED
    BY <1>1, <1>2, <2>1, CommandSetInduction
<1> QED
  BY <1>3

LEMMA TotalOfUnion ==
  ASSUME NEW k \in [Commands -> Command]
  PROVE  \A s, t \in SUBSET Commands : s \cap t = {} =>
           TotalBytes(k, s \cup t) = TotalBytes(k, s) + TotalBytes(k, t)
<1> DEFINE F == {s \in SUBSET Commands : \A t \in SUBSET Commands : s \cap t = {} =>
                   TotalBytes(k, s \cup t) = TotalBytes(k, s) + TotalBytes(k, t)}
<1>1. {} \in F
  <2>1. /\ TotalBytes(k, {}) = 0
        /\ \A t \in SUBSET Commands : {} \cup t = t /\ TotalBytes(k, t) \in Nat
    BY TotalOfPick, TotalTyped
  <2> QED
    BY <2>1
<1>2. ASSUME NEW s \in SUBSET Commands, s # {}, \A x \in s : s \ {x} \in F PROVE s \in F
  <2> SUFFICES ASSUME NEW t \in SUBSET Commands, s \cap t = {}
               PROVE  TotalBytes(k, s \cup t) = TotalBytes(k, s) + TotalBytes(k, t)
    OBVIOUS
  <2>1. PICK x \in s : TRUE
    BY <1>2
  <2>2. (s \cup t) \ {x} = (s \ {x}) \cup t /\ x \in s \cup t /\ s \cup t \in SUBSET Commands
    BY <2>1
  <2>3. TotalBytes(k, s) = k[x].bytes + TotalBytes(k, s \ {x})
    BY <2>1, TotalWithout
  <2>4. TotalBytes(k, s \cup t) = k[x].bytes + TotalBytes(k, (s \ {x}) \cup t)
    BY <2>2, TotalWithout
  <2>5. TotalBytes(k, (s \ {x}) \cup t) = TotalBytes(k, s \ {x}) + TotalBytes(k, t)
    BY <1>2, <2>1
  <2>6. /\ k[x].bytes \in Nat /\ TotalBytes(k, s \ {x}) \in Nat
        /\ TotalBytes(k, t) \in Nat
    BY <2>1, TotalTyped DEF Command
  <2> QED
    BY <2>3, <2>4, <2>5, <2>6
<1>3. F = SUBSET Commands
  <2> HIDE DEF F
  <2>1. F \in SUBSET SUBSET Commands
    BY DEF F
  <2> QED
    BY <1>1, <1>2, <2>1, CommandSetInduction
<1> QED
  BY <1>3

-----------------------------------------------------------------------------
(* Bytes.  The running total and the reservations are inductive together:    *)
(* each place that stores a result gives one reservation back and takes no   *)
(* more than it.                                                             *)

\* A failure built by the gateway keeps its size, whichever label it ends with.
LEMMA FailureStored ==
  ASSUME NEW label, NEW held, NEW n
  PROVE  Stored(label, FailureBytes, held, n).bytes = FailureBytes
<1>1. Encoded(label, FailureBytes).bytes = FailureBytes
  BY DEF Encoded
<1> QED
  BY <1>1 DEF Stored

LEMMA FailAllBytes ==
  ASSUME NEW k, NEW S, NEW label, NEW held, NEW left
  PROVE  \A c \in Commands \cap S : FailAll(k, S, label, held, left)[c].bytes = FailureBytes
<1> DEFINE f(c) == Stored(label, FailureBytes,
                     held + FailureBytes * Cardinality(StoredBefore(k, c, S)), left[c])
           b == FailAll(k, S, label, held, left)
<1>1. \A c : f(c).bytes = FailureBytes
  BY FailureStored
<1>2. b = [c \in Commands |-> IF c \in S THEN ResultOf(f(c)) ELSE k[c]]
  BY DEF FailAll
<1>3. \A c : ResultOf(f(c)).bytes = FailureBytes
  BY <1>1 DEF ResultOf
<1> HIDE DEF f, b
<1> QED
  BY <1>2, <1>3 DEF b

\* What maintenance does to the two collections, and to the sizes.
LEMMA MaintainedCollections ==
  ASSUME TypeOK
  PROVE  /\ Results(Maintained) = (Results(cmd) \ Expired) \cup TimedOut
         /\ Outstanding(Maintained) = Outstanding(cmd) \ TimedOut
         /\ \A c \in TimedOut : Maintained[c].bytes = FailureBytes
         /\ \A c \in Results(cmd) \ Expired : Maintained[c] = cmd[c]
<1>1. /\ Pruned \in [Commands -> Command]
      /\ \A c \in Commands : Pruned[c] = IF c \in Expired THEN Gone ELSE cmd[c]
  BY GoneTyped DEF Pruned, TypeOK
<1>2. \A c \in Commands :
        /\ c \notin TimedOut => Maintained[c] = Pruned[c]
        /\ c \in TimedOut => Maintained[c].place = "result"
  <2>1. "timeout" \in Outcomes
    BY DEF Outcomes
  <2> QED
    BY <1>1, <2>1, FailAllBook DEF Maintained
<1>3. /\ Expired \subseteq Results(cmd) /\ TimedOut \subseteq Outstanding(cmd)
      /\ Results(cmd) \cap Outstanding(cmd) = {}
      /\ Results(cmd) \subseteq Commands /\ Outstanding(cmd) \subseteq Commands
  BY DEF Expired, TimedOut, Results, Outstanding, Pending, InFlight, At
<1>4. \A c \in TimedOut : Maintained[c].bytes = FailureBytes
  BY <1>3, FailAllBytes DEF Maintained
<1>5. \A c \in Results(cmd) \ Expired : Maintained[c] = cmd[c]
  BY <1>1, <1>2, <1>3
<1>6. \A c \in Commands : c \in Results(Maintained) <=> c \in (Results(cmd) \ Expired) \cup TimedOut
  BY <1>1, <1>2, <1>3, GoneTyped DEF Results, At
<1>7. \A c \in Commands : c \in Outstanding(Maintained) <=> c \in Outstanding(cmd) \ TimedOut
  BY <1>1, <1>2, <1>3, GoneTyped DEF Expired, Results, Outstanding, Pending, InFlight, At
<1>8. Results(Maintained) \subseteq Commands /\ Outstanding(Maintained) \subseteq Commands
  BY DEF Results, Outstanding, Pending, InFlight, At
<1> QED
  BY <1>3, <1>4, <1>5, <1>6, <1>7, <1>8

\* Failing the commands of S beside the results of R adds one failure each.
LEMMA FailuresAdd ==
  ASSUME NEW k \in [Commands -> Command], NEW b \in [Commands -> Command],
         NEW R \in SUBSET Commands, NEW S \in SUBSET Commands, R \cap S = {},
         \A c \in R : b[c].bytes = k[c].bytes, \A c \in S : b[c].bytes = FailureBytes
  PROVE  TotalBytes(b, R \cup S) = TotalBytes(k, R) + FailureBytes * Cardinality(S)
<1>1. TotalBytes(b, R \cup S) = TotalBytes(b, R) + TotalBytes(b, S)
  BY TotalOfUnion
<1>2. TotalBytes(b, R) = TotalBytes(k, R)
  BY TotalAgrees
<1>3. FailureBytes \in Nat
  BY GatewayAssumption
<1>4. TotalBytes(b, S) = FailureBytes * Cardinality(S)
  BY <1>3, TotalOfEqual
<1> QED
  BY <1>1, <1>2, <1>4

\* ... and takes no more than the reservations those commands give back.
LEMMA FailuresFit ==
  ASSUME NEW O \in SUBSET Commands, NEW S \in SUBSET O, NEW held \in Int,
         held + Cardinality(O) * Reservation <= MaxRetainedBytes
  PROVE  held + FailureBytes * Cardinality(S) + Cardinality(O \ S) * Reservation
           <= MaxRetainedBytes
<1>1. /\ Cardinality(O) \in Nat /\ Cardinality(S) \in Nat /\ Cardinality(O \ S) \in Nat
      /\ Cardinality(O \ S) = Cardinality(O) - Cardinality(S)
  <2>1. IsFiniteSet(O) /\ O \cap S = S /\ O \ S \in SUBSET Commands
    BY CommandsFinite
  <2>2. Cardinality(O) \in Nat /\ Cardinality(S) \in Nat /\ Cardinality(O \ S) \in Nat
    BY <2>1, CommandsFinite
  <2>3. Cardinality(O \ S) = Cardinality(O) - Cardinality(O \cap S)
    BY <2>1, FS_Difference
  <2> QED
    BY <2>1, <2>2, <2>3
<1>2. FailureBytes \in Nat /\ Reservation \in Nat /\ FailureBytes <= Reservation
      /\ MaxRetainedBytes \in Nat
  BY GatewayAssumption
<1>3. \A f, r, n \in Nat : f <= r => f * n <= n * r
  OBVIOUS
<1>4. \A o, s, r \in Int : (o - s) * r = o * r - s * r
  OBVIOUS
<1>5. FailureBytes * Cardinality(S) <= Cardinality(S) * Reservation
  BY <1>1, <1>2, <1>3
<1>6. Cardinality(O \ S) * Reservation = Cardinality(O) * Reservation - Cardinality(S) * Reservation
  BY <1>1, <1>2, <1>4
<1> DEFINE a == FailureBytes * Cardinality(S)
           b == Cardinality(S) * Reservation
           d == Cardinality(O) * Reservation
           e == Cardinality(O \ S) * Reservation
<1>7. a \in Int /\ b \in Int /\ d \in Int /\ e \in Int
  BY <1>1, <1>2
<1>8. a <= b /\ e = d - b /\ held + d <= MaxRetainedBytes
  BY <1>5, <1>6
<1> HIDE DEF a, b, d, e
<1>9. held + a + e <= MaxRetainedBytes
  BY <1>2, <1>7, <1>8
<1> QED
  BY <1>9 DEF a, e

\* The running total is the sum it stands for, and leaves every outstanding
\* command its reservation.
Ledger(k, held) == held = TotalBytes(k, Results(k))
Reserved(k, held) == held + Cardinality(Outstanding(k)) * Reservation <= MaxRetainedBytes

LEMMA LedgerTyped ==
  ASSUME NEW k \in [Commands -> Command], NEW held, Ledger(k, held)
  PROVE  held \in Nat
  BY SlotCount, TotalTyped DEF Ledger

LEMMA MaintainedLedger ==
  ASSUME TypeOK, Ledger(cmd, retained), Reserved(cmd, retained)
  PROVE  Ledger(Maintained, MaintainedBytes) /\ Reserved(Maintained, MaintainedBytes)
<1> DEFINE R == Results(cmd) \ Expired
           O == Outstanding(cmd)
<1>0. cmd \in [Commands -> Command] /\ Maintained \in [Commands -> Command]
  BY MaintainedBook, BookTyped DEF TypeOK
<1>1. /\ Expired \in SUBSET Commands /\ Results(cmd) = R \cup Expired /\ R \cap Expired = {}
      /\ O \in SUBSET Commands /\ TimedOut \in SUBSET O /\ R \in SUBSET Commands
      /\ R \cap TimedOut = {}
  BY DEF Expired, TimedOut, Results, Outstanding, Pending, InFlight, At
<1>2. retained = TotalBytes(cmd, R) + TotalBytes(cmd, Expired)
  BY <1>0, <1>1, TotalOfUnion DEF Ledger
<1>3. TotalBytes(cmd, R) \in Nat /\ TotalBytes(cmd, Expired) \in Nat
  BY <1>0, <1>1, TotalTyped
<1>4. PrunedBytes = TotalBytes(cmd, R) /\ PrunedBytes <= retained /\ PrunedBytes \in Nat
  BY <1>2, <1>3 DEF PrunedBytes
<1>5. Results(Maintained) = R \cup TimedOut /\ Outstanding(Maintained) = O \ TimedOut
  BY MaintainedCollections
<1>6. Ledger(Maintained, MaintainedBytes)
  <2>1. /\ \A c \in R : Maintained[c].bytes = cmd[c].bytes
        /\ \A c \in TimedOut : Maintained[c].bytes = FailureBytes
    BY MaintainedCollections
  <2>2. TotalBytes(Maintained, R \cup TimedOut)
          = TotalBytes(cmd, R) + FailureBytes * Cardinality(TimedOut)
    <3> HIDE DEF R
    <3> QED
      BY <1>0, <1>1, <2>1, FailuresAdd
  <2> QED
    BY <1>4, <1>5, <2>2 DEF Ledger, MaintainedBytes
<1>7. Reserved(Maintained, MaintainedBytes)
  <2>0. Cardinality(O) * Reservation \in Int /\ MaxRetainedBytes \in Int /\ retained \in Nat
    BY <1>0, <1>1, CommandsFinite, GatewayAssumption, LedgerTyped
  <2>1. PrunedBytes + Cardinality(O) * Reservation <= MaxRetainedBytes
    BY <1>4, <2>0 DEF Reserved
  <2>2. PrunedBytes + FailureBytes * Cardinality(TimedOut) + Cardinality(O \ TimedOut) * Reservation
           <= MaxRetainedBytes
    <3> HIDE DEF O
    <3> QED
      BY <1>1, <1>4, <2>1, FailuresFit
  <2> QED
    BY <1>5, <2>2 DEF Reserved, MaintainedBytes
<1> QED
  BY <1>6, <1>7

LEMMA ReplacedLedger ==
  ASSUME TypeOK, Ledger(cmd, retained), Reserved(cmd, retained), FailForReplacedOwner
  PROVE  Ledger(cmd', retained') /\ Reserved(cmd', retained')
<1> DEFINE R == Results(cmd)
           O == Outstanding(cmd)
<1>0. /\ cmd \in [Commands -> Command] /\ cmd' \in [Commands -> Command]
      /\ retained \in Nat
  BY ReplacedBook, BookTyped, LedgerTyped DEF TypeOK
<1>1. /\ R \in SUBSET Commands /\ O \in SUBSET Commands /\ R \cap O = {}
  BY DEF Results, Outstanding, Pending, InFlight, At
<1>2. retained' = retained + FailureBytes * Cardinality(O)
  BY DEF FailForReplacedOwner
<1>3. \A c \in O : cmd'[c].bytes = FailureBytes
  BY <1>1, FailAllBytes DEF FailForReplacedOwner
<1>4. \A c \in R : cmd'[c] = cmd[c]
  BY <1>1, ReplacedBook, BookTyped
<1>5. Results(cmd') = R \cup O /\ Outstanding(cmd') = {}
  BY ReplacedBook, BookTyped DEF Results, Outstanding, Pending, InFlight, At
<1>6. Ledger(cmd', retained')
  <2>1. TotalBytes(cmd', R \cup O) = TotalBytes(cmd, R) + FailureBytes * Cardinality(O)
    <3> HIDE DEF R, O
    <3> QED
      BY <1>0, <1>1, <1>3, <1>4, FailuresAdd
  <2> QED
    BY <1>2, <1>5, <2>1 DEF Ledger
<1>7. Reserved(cmd', retained')
  <2>1. retained + FailureBytes * Cardinality(O) + Cardinality(O \ O) * Reservation
          <= MaxRetainedBytes
    <3>1. retained + Cardinality(O) * Reservation <= MaxRetainedBytes
      BY DEF Reserved
    <3> HIDE DEF O
    <3> QED
      BY <1>0, <1>1, <3>1, FailuresFit
  <2>2. O \ O = {}
    OBVIOUS
  <2> QED
    BY <1>2, <1>5, <2>1, <2>2 DEF Reserved
<1> QED
  BY <1>6, <1>7

LEMMA EnqueueLedger ==
  ASSUME TypeOK, Ledger(cmd, retained), Reserved(cmd, retained),
         NEW c \in Commands, NEW timeout \in Timeouts, Enqueue(c, timeout)
  PROVE  Ledger(cmd', retained') /\ Reserved(cmd', retained')
<1>1. /\ Maintained \in [Commands -> Command]
      /\ cmd' = [Maintained EXCEPT ![c] = Queued(timeout)]
      /\ Queued(timeout) \in Command /\ Queued(timeout).place = "pending"
      /\ retained' = MaintainedBytes
  BY MaintainedBook, BookTyped, QueuedTyped DEF Enqueue
<1>2. Maintained[c].place = "unborn"
  BY MaintainedBook, BookTyped DEF Enqueue, IsNext
<1>3. /\ Results(cmd') = Results(Maintained) /\ Results(Maintained) \in SUBSET Commands
      /\ \A d \in Results(Maintained) : cmd'[d] = Maintained[d]
      /\ cmd' \in [Commands -> Command]
  BY <1>1, <1>2 DEF Results, At
<1>4. TotalBytes(cmd', Results(cmd')) = TotalBytes(Maintained, Results(Maintained))
  <2>1. TotalBytes(cmd', Results(Maintained)) = TotalBytes(Maintained, Results(Maintained))
    BY <1>1, <1>3, TotalAgrees
  <2> QED
    BY <1>3, <2>1
<1>5. Ledger(cmd', retained')
  BY <1>1, <1>4, MaintainedLedger DEF Ledger
<1>6. Cardinality(Outstanding(cmd')) = Cardinality(Outstanding(Maintained)) + 1
  BY EnqueueGrowth
<1>7. Reserved(cmd', retained')
  BY <1>1, <1>6 DEF Enqueue, HasCapacity, Reserved
<1> QED
  BY <1>5, <1>7

LEMMA PollLedger ==
  ASSUME TypeOK, Ledger(cmd, retained), Reserved(cmd, retained),
         NEW o, NEW g, NEW limit, Poll(o, g, limit)
  PROVE  Ledger(cmd', retained') /\ Reserved(cmd', retained')
<1> DEFINE S == Oldest(Pending(Maintained), limit)
<1>1. Maintained \in [Commands -> Command]
  BY MaintainedBook, BookTyped
<1>2. /\ cmd' = [c \in Commands |->
                   IF c \in S
                   THEN [Maintained[c] EXCEPT !.place = "in_flight", !.age = 0,
                                              !.lease = generation]
                   ELSE Maintained[c]]
      /\ retained' = MaintainedBytes
  BY DEF Poll
<1>3. S \subseteq Pending(Maintained)
  BY DEF Oldest
<1> HIDE DEF S
<1>4. \A c \in Commands : /\ Maintained[c] \in Command
                          /\ c \in S <=> c \in S /\ Maintained[c].place = "pending"
  BY <1>1, <1>3 DEF Pending, At
<1>5. \A c \in Commands :
         /\ c \in S => cmd'[c].place = "in_flight" /\ cmd'[c].bytes = Maintained[c].bytes
         /\ c \notin S => cmd'[c] = Maintained[c]
  BY <1>2, <1>4 DEF Command
<1>6. /\ Results(cmd') = Results(Maintained) /\ Outstanding(cmd') = Outstanding(Maintained)
      /\ Results(Maintained) \in SUBSET Commands
      /\ \A c \in Results(Maintained) : cmd'[c] = Maintained[c]
  BY <1>4, <1>5 DEF Results, Outstanding, Pending, InFlight, At
<1>7. cmd' \in [Commands -> Command]
  BY <1>1, <1>2 DEF Command, Places, TypeOK
<1>8. TotalBytes(cmd', Results(cmd')) = TotalBytes(Maintained, Results(Maintained))
  BY <1>1, <1>6, <1>7, TotalAgrees
<1> QED
  BY <1>2, <1>6, <1>8, MaintainedLedger DEF Ledger, Reserved
\* _store_result puts an answer where it fits beside what is retained and
\* reserved, and otherwise a failure that takes no more than the reservation
\* the command gives back.
LEMMA StoredFits ==
  ASSUME NEW label, NEW bytes \in Nat, NEW held \in Nat, NEW n \in Nat,
         held + (n + 1) * Reservation <= MaxRetainedBytes
  PROVE  /\ Stored(label, bytes, held, n).bytes \in Nat
         /\ held + Stored(label, bytes, held, n).bytes + n * Reservation <= MaxRetainedBytes
<1>1. /\ FailureBytes \in Nat /\ Reservation \in Nat /\ FailureBytes <= Reservation
      /\ MaxRetainedBytes \in Nat
  BY GatewayAssumption
<1>2. (n + 1) * Reservation = n * Reservation + Reservation /\ n * Reservation \in Nat
  BY <1>1
<1>3. held + FailureBytes + n * Reservation <= MaxRetainedBytes
  BY <1>1, <1>2
<1>4. Encoded(label, bytes).bytes \in Nat
  BY <1>1 DEF Encoded
<1>5. CASE held + Encoded(label, bytes).bytes + n * Reservation > MaxRetainedBytes
  <2>1. Stored(label, bytes, held, n).bytes = FailureBytes
    BY <1>5 DEF Stored
  <2> QED
    BY <1>1, <1>3, <2>1
<1>6. CASE ~(held + Encoded(label, bytes).bytes + n * Reservation > MaxRetainedBytes)
  <2>1. Stored(label, bytes, held, n).bytes = Encoded(label, bytes).bytes
    BY <1>6 DEF Stored
  <2> QED
    BY <1>1, <1>2, <1>4, <1>6, <2>1
<1> QED
  BY <1>5, <1>6

LEMMA PostResultLedger ==
  ASSUME TypeOK, Ledger(cmd, retained), Reserved(cmd, retained),
         NEW o, NEW g, NEW c \in Commands, NEW bytes \in AnswerBytes \cup {Unencodable},
         PostResult(o, g, c, bytes)
  PROVE  Ledger(cmd', retained') /\ Reserved(cmd', retained')
<1> DEFINE R == Results(Maintained)
           O == Outstanding(Maintained)
           n == Cardinality(O) - 1
           s == Stored("answered", bytes, MaintainedBytes, n)
<1>0. /\ Maintained \in [Commands -> Command] /\ bytes \in Nat /\ "answered" \in Outcomes
      /\ Ledger(Maintained, MaintainedBytes) /\ Reserved(Maintained, MaintainedBytes)
      /\ MaintainedBytes \in Nat
  <2>1. bytes \in Nat /\ "answered" \in Outcomes
    BY GatewayAssumption DEF Unencodable, Outcomes
  <2> QED
    BY <2>1, MaintainedBook, BookTyped, MaintainedLedger, LedgerTyped
<1>1. CASE Maintained[c].place = "in_flight" /\ Maintained[c].lease = generation
  <2>1. cmd' = [Maintained EXCEPT ![c] = ResultOf(s)] /\ retained' = MaintainedBytes + s.bytes
    BY <1>1 DEF PostResult
  <2>2. ResultOf(s) \in Command /\ ResultOf(s).place = "result" /\ ResultOf(s).bytes = s.bytes
    BY <1>0, ResultTyped DEF ResultOf
  <2>3. O \in SUBSET Commands /\ c \in O /\ R \in SUBSET Commands /\ c \notin R
    BY <1>1 DEF Results, Outstanding, Pending, InFlight, At
  <2>4. n \in Nat /\ Cardinality(O \ {c}) = n
    BY <2>3, SetsOfCommands
  <2>5. s.bytes \in Nat /\ MaintainedBytes + s.bytes + n * Reservation <= MaxRetainedBytes
    <3>0. n + 1 = Cardinality(O)
      BY <2>3, CommandsFinite
    <3>1. MaintainedBytes + (n + 1) * Reservation <= MaxRetainedBytes
      BY <1>0, <3>0 DEF Reserved
    <3> HIDE DEF n
    <3> QED
      BY <1>0, <2>4, <3>1, StoredFits
  <2> HIDE DEF s, n
  <2>6. /\ cmd' \in [Commands -> Command] /\ cmd'[c] = ResultOf(s)
        /\ \A d \in Commands \ {c} : cmd'[d] = Maintained[d]
    BY <1>0, <2>1, <2>2
  <2>7. Results(cmd') = R \cup {c} /\ Outstanding(cmd') = O \ {c}
    BY <2>2, <2>3, <2>6 DEF Results, Outstanding, Pending, InFlight, At
  <2>8. TotalBytes(cmd', R \cup {c}) = s.bytes + TotalBytes(cmd', R)
    <3>1. (R \cup {c}) \ {c} = R /\ R \cup {c} \in SUBSET Commands
      BY <2>3
    <3> QED
      BY <2>2, <2>6, <3>1, TotalWithout
  <2>9. TotalBytes(cmd', R) = TotalBytes(Maintained, R)
    <3>1. \A d \in R : cmd'[d].bytes = Maintained[d].bytes
      BY <2>3, <2>6
    <3> HIDE DEF R
    <3> QED
      BY <1>0, <2>3, <2>6, <3>1, TotalAgrees
  <2>10. Ledger(cmd', retained')
    <3>1. MaintainedBytes = TotalBytes(Maintained, R)
      BY <1>0 DEF Ledger
    <3>2. TotalBytes(cmd', R \cup {c}) = s.bytes + MaintainedBytes
      BY <2>8, <2>9, <3>1
    <3>3. retained' = TotalBytes(cmd', R \cup {c})
      BY <1>0, <2>1, <2>5, <3>2
    <3> QED
      BY <2>7, <3>3 DEF Ledger
  <2>11. Reserved(cmd', retained')
    BY <2>1, <2>4, <2>5, <2>7 DEF Reserved
  <2> QED
    BY <2>10, <2>11
<1>2. CASE ~(Maintained[c].place = "in_flight" /\ Maintained[c].lease = generation)
  BY <1>0, <1>2 DEF PostResult, Maintain
<1> QED
  BY <1>1, <1>2

LEMMA TakeResultLedger ==
  ASSUME TypeOK, Ledger(cmd, retained), Reserved(cmd, retained),
         NEW c \in Commands, TakeResult(c)
  PROVE  Ledger(cmd', retained') /\ Reserved(cmd', retained')
<1> DEFINE R == Results(Maintained)
<1>0. /\ Maintained \in [Commands -> Command]
      /\ Ledger(Maintained, MaintainedBytes) /\ Reserved(Maintained, MaintainedBytes)
      /\ MaintainedBytes \in Nat
  BY MaintainedBook, BookTyped, MaintainedLedger, LedgerTyped
<1>1. /\ cmd' \in [Commands -> Command] /\ cmd'[c] = Gone /\ c \in R
      /\ \A d \in Commands \ {c} : cmd'[d] = Maintained[d]
      /\ retained' = MaintainedBytes - Maintained[c].bytes
  BY <1>0, GoneTyped DEF TakeResult, Results, At
<1>2. /\ Results(cmd') = R \ {c} /\ Outstanding(cmd') = Outstanding(Maintained)
      /\ R \in SUBSET Commands /\ R \ {c} \in SUBSET Commands
  BY <1>1, GoneTyped DEF Results, Outstanding, Pending, InFlight, At
<1>3. TotalBytes(Maintained, R) = Maintained[c].bytes + TotalBytes(Maintained, R \ {c})
  BY <1>0, <1>1, <1>2, TotalWithout
<1>4. TotalBytes(cmd', R \ {c}) = TotalBytes(Maintained, R \ {c})
  <2>1. \A d \in R \ {c} : cmd'[d].bytes = Maintained[d].bytes
    BY <1>1, <1>2
  <2> HIDE DEF R
  <2> QED
    BY <1>0, <1>1, <1>2, <2>1, TotalAgrees
<1>5. Maintained[c].bytes \in Nat /\ TotalBytes(Maintained, R \ {c}) \in Nat
  BY <1>0, <1>2, TotalTyped DEF Command
<1>6. retained' = TotalBytes(Maintained, R \ {c}) /\ retained' <= MaintainedBytes
  BY <1>0, <1>1, <1>3, <1>5 DEF Ledger
<1>7. Ledger(cmd', retained')
  BY <1>2, <1>4, <1>6 DEF Ledger
<1>8. Reserved(cmd', retained')
  <2>1. /\ Cardinality(Outstanding(Maintained)) * Reservation \in Int
        /\ MaxRetainedBytes \in Int
    BY SlotCount, CommandsFinite, GatewayAssumption
  <2> QED
    BY <1>0, <1>2, <1>5, <1>6, <2>1 DEF Reserved
<1> QED
  BY <1>7, <1>8

\* A step that changes neither places nor sizes changes nothing here.
LEMMA SameLedger ==
  ASSUME TypeOK, Ledger(cmd, retained), Reserved(cmd, retained),
         cmd' \in [Commands -> Command], \A c \in Commands : Kept(c), retained' = retained
  PROVE  Ledger(cmd', retained') /\ Reserved(cmd', retained')
<1>1. /\ Results(cmd') = Results(cmd) /\ Outstanding(cmd') = Outstanding(cmd)
      /\ Results(cmd) \in SUBSET Commands
      /\ \A c \in Results(cmd) : cmd'[c].bytes = cmd[c].bytes
  BY DEF Kept, Results, Outstanding, Pending, InFlight, At
<1>2. TotalBytes(cmd', Results(cmd)) = TotalBytes(cmd, Results(cmd))
  BY <1>1, TotalAgrees DEF TypeOK
<1> QED
  BY <1>1, <1>2 DEF Ledger, Reserved

LEMMA InitLedger == Init => LedgerExact /\ BytesReserved
<1> SUFFICES ASSUME Init PROVE LedgerExact /\ BytesReserved
  OBVIOUS
<1>1. cmd \in [Commands -> Command]
  BY InitTyped DEF TypeOK
<1>2. Outstanding(cmd) = {} /\ Results(cmd) = {} /\ retained = 0
  BY DEF Init, Outstanding, Results, Pending, InFlight, At, Unborn
<1>3. TotalBytes(cmd, {}) = 0
  BY <1>1, TotalOfPick
<1> QED
  BY <1>2, <1>3, FS_EmptySet, GatewayAssumption DEF LedgerExact, BytesReserved

LEMMA LedgerStep == TypeOK /\ LedgerExact /\ BytesReserved /\ [Next]_vars
                    => LedgerExact' /\ BytesReserved'
<1> SUFFICES ASSUME TypeOK, LedgerExact, BytesReserved, [Next]_vars
             PROVE  Ledger(cmd', retained') /\ Reserved(cmd', retained')
  BY DEF Ledger, Reserved, LedgerExact, BytesReserved
<1> DEFINE Goal == Ledger(cmd', retained') /\ Reserved(cmd', retained')
<1>0. Ledger(cmd, retained) /\ Reserved(cmd, retained)
  BY DEF Ledger, Reserved, LedgerExact, BytesReserved
<1>k. (\A c \in Commands : Kept(c)) /\ retained' = retained => Goal
  BY <1>0, NextTyped, SameLedger DEF TypeOK
<1> HIDE DEF Goal
<1>1. ASSUME NEW o \in Owners, RegisterOwner(o) PROVE Goal
  BY <1>0, <1>1, <1>k, ReplacedLedger DEF RegisterOwner, Kept, Goal
<1>2. ASSUME NEW o \in Owners, NEW g \in 1..MaxGeneration, Heartbeat(o, g) PROVE Goal
  BY <1>2, <1>k DEF Heartbeat, Kept
<1>3. ASSUME NEW o \in Owners, NEW g \in 1..MaxGeneration,
             NEW limit \in 1..MaxPollLimit, Poll(o, g, limit)
      PROVE  Goal
  BY <1>0, <1>3, PollLedger DEF Goal
<1>4. ASSUME NEW o \in Owners, NEW g \in 1..MaxGeneration, NEW d \in Commands,
             NEW bytes \in AnswerBytes \cup {Unencodable}, PostResult(o, g, d, bytes)
      PROVE  Goal
  BY <1>0, <1>4, PostResultLedger DEF Goal
<1>5. ASSUME NEW seconds \in BusyGrants, ExtendBusyUntil(seconds) PROVE Goal
  BY <1>5, <1>k DEF ExtendBusyUntil, Kept
<1>6. ASSUME NEW d \in Commands, NEW timeout \in Timeouts, Enqueue(d, timeout) PROVE Goal
  BY <1>0, <1>6, EnqueueLedger DEF Goal
<1>7. ASSUME NEW d \in Commands, TakeResult(d) PROVE Goal
  BY <1>0, <1>7, TakeResultLedger DEF Goal
<1>8. ASSUME Observe PROVE Goal
  BY <1>0, <1>8, MaintainedLedger DEF Observe, Maintain, Goal
<1>9. ASSUME Tick PROVE Goal
  BY <1>9, <1>k, TickMoves, BookTyped DEF Tick
<1>10. ASSUME UNCHANGED vars PROVE Goal
  BY <1>10, <1>k DEF vars, Kept
<1>11. Goal
  BY <1>1, <1>2, <1>3, <1>4, <1>5, <1>6, <1>7, <1>8, <1>9, <1>10 DEF Next
<1> QED
  BY <1>11 DEF Goal

\* The running total is exact whatever prunes, takes, timeouts, takeovers and
\* substituted failures come in between.
THEOREM LedgerIsExact == Spec => []LedgerExact
  BY InitLedger, LedgerStep, TypeCorrect, PTL DEF Spec

\* A bounded failure of every outstanding command always fits.
THEOREM BytesAreReserved == Spec => []BytesReserved
  BY InitLedger, LedgerStep, TypeCorrect, PTL DEF Spec

-----------------------------------------------------------------------------
(* Refinement: the gateway implements QmtCommandService. *)

\* Only a result has an outcome and only a claim has a lease.
WellFormed ==
  \A c \in Commands :
    /\ cmd[c].place # "in_flight" => cmd[c].lease = 0
    /\ cmd[c].place = "result" <=> cmd[c].outcome # "none"

LEMMA WellFormedStep == TypeOK /\ WellFormed /\ [Next]_vars => WellFormed'
<1> SUFFICES ASSUME TypeOK, WellFormed, [Next]_vars, NEW c \in Commands
             PROVE  /\ cmd'[c].place # "in_flight" => cmd'[c].lease = 0
                    /\ cmd'[c].place = "result" <=> cmd'[c].outcome # "none"
  BY DEF WellFormed
<1>1. /\ cmd[c] \in Command
      /\ cmd[c].place # "in_flight" => cmd[c].lease = 0
      /\ cmd[c].place = "result" <=> cmd[c].outcome # "none"
  BY DEF TypeOK, WellFormed
<1>2. Moved(c)
  BY CommandMoves
<1>3. Gone.outcome = "none" /\ \A t \in Timeouts : Queued(t).outcome = "none" /\ Queued(t).lease = 0
  BY DEF Gone, Queued, Unborn
<1>4. \A label : label # "none" => "none" \notin Failures(label)
  BY DEF Failures
<1>5. CASE Kept(c) \/ Accepted(c)
  BY <1>1, <1>3, <1>5, QueuedTyped DEF Kept, Accepted
<1>6. CASE Claimed(c)
  BY <1>1, <1>6 DEF Claimed, Command
<1>7. CASE Answered(c) \/ Failed(c)
  BY <1>4, <1>7 DEF Answered, Failed
<1>8. CASE Dropped(c) \/ FailedAndDropped(c)
  BY <1>3, <1>8, GoneTyped DEF Dropped, FailedAndDropped
<1> QED
  BY <1>2, <1>5, <1>6, <1>7, <1>8 DEF Moved

LEMMA AlwaysWellFormed == Spec => []WellFormed
<1>1. Init => WellFormed
  BY DEF Init, WellFormed, Unborn
<1> QED
  BY <1>1, WellFormedStep, TypeCorrect, PTL DEF Spec

LEMMA PhaseValues ==
  ASSUME NEW r \in Command
  PROVE  /\ r.place = "unborn" => PhaseOf(r) = "unborn"
         /\ r.place = "pending" => PhaseOf(r) = "queued"
         /\ r.place = "in_flight" => PhaseOf(r) = "claimed"
         /\ r.place = "result" => PhaseOf(r) = "settled"
         /\ r.place = "gone" => PhaseOf(r) = "dropped"
         /\ r.outcome = "none" => VerdictOf(r) = "none"
         /\ r.outcome = "answered" => VerdictOf(r) = "answered"
         /\ r.outcome \notin {"none", "answered"} => VerdictOf(r) = "failed"
  BY DEF PhaseOf, VerdictOf, Command, Places, Outcomes

\* What a step does to a command, seen through the mapping.
LEMMA MoveMaps ==
  ASSUME TypeOK, TypeOK', WellFormed, WellFormed', NEW c \in Commands
  PROVE  /\ Kept(c) => Service!Keep(c)
         /\ Accepted(c) => Service!Accept(c)
         /\ Claimed(c) => Service!Claim(c)
         /\ Answered(c) => Service!Answer(c) \/ Service!Fail(c)
         /\ Failed(c) => Service!Fail(c)
         /\ Dropped(c) => Service!Drop(c)
         /\ FailedAndDropped(c) => Service!FailAndDrop(c)
<1> USE DEF Service!Become
<1>1. /\ cmd[c] \in Command /\ cmd'[c] \in Command
      /\ cmd[c].place # "in_flight" => cmd[c].lease = 0
      /\ cmd[c].place = "result" <=> cmd[c].outcome # "none"
      /\ cmd'[c].place # "in_flight" => cmd'[c].lease = 0
      /\ cmd'[c].place = "result" <=> cmd'[c].outcome # "none"
  BY DEF TypeOK, WellFormed
<1>2. Kept(c) => Service!Keep(c)
  <2> SUFFICES ASSUME Kept(c)
               PROVE  /\ PhaseOf(cmd'[c]) = PhaseOf(cmd[c])
                      /\ cmd'[c].lease = cmd[c].lease
                      /\ VerdictOf(cmd'[c]) = VerdictOf(cmd[c])
    BY DEF Service!Keep
  <2> QED
    BY DEF Kept, PhaseOf, VerdictOf
<1>3. Accepted(c) => Service!Accept(c)
  BY <1>1, PhaseValues, QueuedTyped DEF Accepted, Service!Accept
<1>4. Claimed(c) => Service!Claim(c)
  <2> SUFFICES ASSUME Claimed(c) PROVE Service!Claim(c)
    OBVIOUS
  <2>1. cmd'[c].place = "in_flight" /\ cmd'[c].lease = generation
    BY <1>1 DEF Claimed, Command
  <2>2. generation # 0
    BY DEF Claimed, TypeOK
  <2> QED
    BY <1>1, <2>1, <2>2, PhaseValues DEF Claimed, Service!Claim
<1>5. Answered(c) => Service!Answer(c) \/ Service!Fail(c)
  BY <1>1, PhaseValues DEF Answered, Service!Answer, Service!Fail
<1>6. Failed(c) => Service!Fail(c)
  BY <1>1, PhaseValues DEF Failed, Failures, Service!Fail
<1>7. Dropped(c) => Service!Drop(c)
  BY <1>1, PhaseValues, GoneTyped DEF Dropped, Service!Drop
<1>8. FailedAndDropped(c) => Service!FailAndDrop(c)
  BY <1>1, PhaseValues, GoneTyped DEF FailedAndDropped, Service!FailAndDrop
<1> QED
  BY <1>2, <1>3, <1>4, <1>5, <1>6, <1>7, <1>8

\* The moves of which a step makes at most one.
Single(c) == Accepted(c) \/ Answered(c) \/ FailedAndDropped(c)
Shared(c) == Kept(c) \/ Claimed(c) \/ Failed(c) \/ Dropped(c)

LEMMA AtMostOneSingle ==
  ASSUME TypeOK, [Next]_vars
  PROVE  \E one \in SUBSET Commands :
           /\ \A a, b \in one : a = b
           /\ \A c \in one : Single(c)
           /\ \A c \in Commands \ one : Shared(c)
<1> DEFINE Goal == \E one \in SUBSET Commands :
                     /\ \A a, b \in one : a = b
                     /\ \A c \in one : Single(c)
                     /\ \A c \in Commands \ one : Shared(c)
<1> USE DEF Single, Shared
<1>0. \A c \in Commands : cmd'[c] = Maintained[c] => Shared(c)
  BY MaintenanceMoves, BookTyped
<1>a. (\A c \in Commands : Shared(c)) => Goal
  <2> SUFFICES ASSUME \A c \in Commands : Shared(c) PROVE Goal
    OBVIOUS
  <2> WITNESS {} \in SUBSET Commands
  <2> QED
    OBVIOUS
<1>b. ASSUME NEW d \in Commands, Single(d) \/ Shared(d),
             \A c \in Commands \ {d} : cmd'[c] = Maintained[c]
      PROVE  Goal
  <2>1. CASE Shared(d)
    BY <1>0, <1>a, <1>b, <2>1
  <2>2. CASE Single(d)
    <3> WITNESS {d} \in SUBSET Commands
    <3> QED
      BY <1>0, <1>b, <2>2
  <2> QED
    BY <1>b, <2>1, <2>2
<1> HIDE DEF Goal, Single, Shared
<1>1. ASSUME NEW o \in Owners, RegisterOwner(o) PROVE Goal
  BY <1>1, <1>a, ReplacedMoves, BookTyped DEF RegisterOwner, Kept, Shared
<1>2. ASSUME NEW o \in Owners, NEW g \in 1..MaxGeneration, Heartbeat(o, g) PROVE Goal
  BY <1>2, <1>a DEF Heartbeat, Kept, Shared
<1>3. ASSUME NEW o \in Owners, NEW g \in 1..MaxGeneration,
             NEW limit \in 1..MaxPollLimit, Poll(o, g, limit)
      PROVE  Goal
  BY <1>0, <1>3, <1>a, PollMoves, BookTyped DEF Shared
<1>4. ASSUME NEW o \in Owners, NEW g \in 1..MaxGeneration, NEW d \in Commands,
             NEW bytes \in AnswerBytes \cup {Unencodable}, PostResult(o, g, d, bytes)
      PROVE  Goal
  <2>1. Single(d) \/ Shared(d)
    BY <1>0, <1>4, PostResultMoves, BookTyped DEF Single
  <2> QED
    BY <1>4, <1>b, <2>1, PostResultMoves, BookTyped
<1>5. ASSUME NEW seconds \in BusyGrants, ExtendBusyUntil(seconds) PROVE Goal
  BY <1>5, <1>a DEF ExtendBusyUntil, Kept, Shared
<1>6. ASSUME NEW d \in Commands, NEW timeout \in Timeouts, Enqueue(d, timeout) PROVE Goal
  <2>1. Single(d) /\ \A c \in Commands \ {d} : cmd'[c] = Maintained[c]
    BY <1>6, EnqueueMoves DEF Single
  <2> QED
    BY <1>b, <2>1
<1>7. ASSUME NEW d \in Commands, TakeResult(d) PROVE Goal
  <2>1. /\ Single(d) \/ Shared(d)
        /\ \A c \in Commands \ {d} : cmd'[c] = Maintained[c]
    BY <1>7, TakeResultMoves DEF Single, Shared
  <2> QED
    BY <1>b, <2>1
<1>8. ASSUME Observe PROVE Goal
  BY <1>0, <1>8, <1>a DEF Observe, Maintain
<1>9. ASSUME Tick PROVE Goal
  BY <1>9, <1>a, TickMoves, BookTyped DEF Shared
<1>10. ASSUME UNCHANGED vars PROVE Goal
  BY <1>10, <1>a DEF vars, Kept, Shared
<1>11. Goal
  BY <1>1, <1>2, <1>3, <1>4, <1>5, <1>6, <1>7, <1>8, <1>9, <1>10 DEF Next
<1> QED
  BY <1>11 DEF Goal

LEMMA ServiceTyped ==
  ASSUME TypeOK'
  PROVE  Service!Typed
<1>1. \A c \in Commands : /\ PhaseOf(cmd'[c]) \in Service!Phases
                          /\ VerdictOf(cmd'[c]) \in Service!Verdicts
                          /\ cmd'[c].lease \in Int
  BY PhaseValues DEF TypeOK, Command, Places, Outcomes, Service!Phases, Service!Verdicts
<1> QED
  BY <1>1 DEF Service!Typed

\* A client of the gateway sees each command go once through queued,
\* claimed, settled and dropped, answered only by the lease that claimed it.
THEOREM Refinement == Spec => ImplementsService
<1>1. Init => Service!Init
  <2> SUFFICES ASSUME Init PROVE Service!Init
    OBVIOUS
  <2>1. \A c \in Commands : /\ PhaseOf(cmd[c]) = "unborn"
                            /\ cmd[c].lease = 0
                            /\ VerdictOf(cmd[c]) = "none"
    BY DEF Init, Unborn, PhaseOf, VerdictOf
  <2> QED
    BY <2>1 DEF Init, Service!Init
<1>2. /\ TypeOK /\ TypeOK' /\ WellFormed /\ WellFormed' /\ [Next]_vars
      => [Service!Next]_Service!svars
  <2> SUFFICES ASSUME TypeOK, TypeOK', WellFormed, WellFormed', [Next]_vars
               PROVE  Service!Next
    OBVIOUS
  <2>1. CASE UNCHANGED <<owner, generation>>
    <3>1. PICK one \in SUBSET Commands :
            /\ \A a, b \in one : a = b
            /\ \A c \in one : Single(c)
            /\ \A c \in Commands \ one : Shared(c)
      BY AtMostOneSingle
    <3>2. \E few \in SUBSET Commands :
            /\ \A a, b \in few : a = b
            /\ \A c \in few : Service!Accept(c) \/ Service!Answer(c) \/ Service!FailAndDrop(c)
            /\ \A c \in Commands \ few : \/ Service!Keep(c) \/ Service!Claim(c)
                                         \/ Service!Fail(c) \/ Service!Drop(c)
      <4> DEFINE few == {c \in one : Service!Accept(c) \/ Service!Answer(c)
                                     \/ Service!FailAndDrop(c)}
      <4>1. \A c \in one \ few : Service!Fail(c)
        BY <3>1, MoveMaps DEF Single
      <4>2. \A c \in Commands \ one : \/ Service!Keep(c) \/ Service!Claim(c)
                                      \/ Service!Fail(c) \/ Service!Drop(c)
        BY <3>1, MoveMaps DEF Shared
      <4> QED
        BY <3>1, <4>1, <4>2
    <3>3. Service!Serve
      BY <2>1, <3>2, ServiceTyped DEF Service!Serve
    <3> QED
      BY <3>3 DEF Service!Next
  <2>2. CASE /\ generation' = generation + 1
             /\ generation = 0 /\ UNCHANGED cmd
    <3>1. \A c \in Commands : Service!Keep(c)
      BY <2>2, MoveMaps DEF Kept
    <3>2. Service!NewLease
      BY <2>2, <3>1, ServiceTyped DEF Service!NewLease
    <3> QED
      BY <3>2 DEF Service!Next
  <2>3. CASE generation' = generation + 1 /\ generation > 0 /\ FailForReplacedOwner
    <3>1. ASSUME NEW c \in Commands
          PROVE  IF PhaseOf(cmd[c]) \in {"queued", "claimed"}
                 THEN Service!Fail(c) ELSE Service!Keep(c)
      <4>1. IF c \in Outstanding(cmd) THEN Failed(c) ELSE Kept(c)
        BY <2>3, ReplacedMoves, BookTyped DEF Kept
      <4>2. c \in Outstanding(cmd) <=> PhaseOf(cmd[c]) \in {"queued", "claimed"}
        BY PhaseValues DEF TypeOK, Command, Places, Outstanding, Pending, InFlight, At
      <4> QED
        BY <4>1, <4>2, MoveMaps
    <3>2. Service!NewLease
      BY <2>3, <3>1, ServiceTyped DEF Service!NewLease
    <3> QED
      BY <3>2 DEF Service!Next
  <2> QED
    BY <2>1, <2>2, <2>3, LeaseMoves
<1> QED
  BY <1>1, <1>2, TypeCorrect, AlwaysWellFormed, PTL
     DEF Spec, ImplementsService, Service!Spec

-----------------------------------------------------------------------------
(* The gateway beside its reads. *)

\* A read that got past its admission has a command of its own.
ReadTypeOK ==
  /\ read \in [Reads -> [phase : Phases, command : Nat, left : Nat]]
  /\ answer \in [Commands -> Answer]
  /\ \A r \in Reads :
       read[r].phase \notin {"idle", "refused"} => read[r].command \in Commands

LEMMA BecomesTyped ==
  ASSUME ReadTypeOK, NEW r \in Reads, NEW phase \in Phases, Becomes(r, phase),
         read[r].command \in Commands \/ phase = "refused"
  PROVE  /\ read' \in [Reads -> [phase : Phases, command : Nat, left : Nat]]
         /\ \A q \in Reads :
              /\ read'[q].phase = IF q = r THEN phase ELSE read[q].phase
              /\ read'[q].command = read[q].command
         /\ \A q \in Reads :
              read'[q].phase \notin {"idle", "refused"} => read'[q].command \in Commands
<1>1. \A q \in Reads : read[q] \in [phase : Phases, command : Nat, left : Nat]
  BY DEF ReadTypeOK
<1>2. \A q \in Reads : read'[q] = IF q = r THEN [read[q] EXCEPT !.phase = phase] ELSE read[q]
  BY DEF ReadTypeOK, Becomes
<1>3. read' \in [Reads -> [phase : Phases, command : Nat, left : Nat]]
  BY <1>1 DEF ReadTypeOK, Becomes
<1>4. \A q \in Reads :
              /\ read'[q].phase = IF q = r THEN phase ELSE read[q].phase
              /\ read'[q].command = read[q].command
  BY <1>1, <1>2
<1> QED
  BY <1>3, <1>4 DEF ReadTypeOK

LEMMA ReadsTyped == ReadTypeOK /\ [ReadNext]_allVars => ReadTypeOK'
<1> SUFFICES ASSUME ReadTypeOK, [ReadNext]_allVars PROVE ReadTypeOK'
  OBVIOUS
<1>1. CASE UNCHANGED readVars
  BY <1>1 DEF readVars, ReadTypeOK
<1>2. ASSUME NEW o \in Owners, NEW g \in 1..MaxGeneration, NEW c \in Commands,
             NEW a \in NativeAnswers, NEW size \in AnswerSizes, PostAnswer(o, g, c, a, size)
      PROVE  ReadTypeOK'
  <2>1. size \in Nat /\ HasRoom(size) \in BOOLEAN
    BY GatewayAssumption, ReadAssumption DEF HasRoom
  <2> DEFINE posted == [bars |-> TRUE, size |-> size, room |-> HasRoom(size)]
  <2>2. posted \in Answer
    BY <2>1 DEF Answer
  <2>3. read' = read /\ (answer' = answer \/ answer' = [answer EXCEPT ![c] = posted])
    BY <1>2 DEF PostAnswer
  <2> HIDE DEF posted
  <2> QED
    BY <2>2, <2>3 DEF ReadTypeOK
<1>3. ASSUME NEW r \in Reads, QueryBars(r) PROVE ReadTypeOK'
  <2>1. CASE Becomes(r, "refused")
    <3>1. "refused" \in Phases
      BY DEF Phases
    <3> QED
      BY <1>3, <2>1, <3>1, BecomesTyped DEF QueryBars, ReadTypeOK
  <2>2. ASSUME NEW c \in Commands,
               read' = [read EXCEPT ![r] =
                          [phase |-> "waiting", command |-> c, left |-> BarsTimeout]]
        PROVE  ReadTypeOK'
    <3>1. BarsTimeout \in Nat /\ c \in Nat /\ "waiting" \in Phases
      BY GatewayAssumption, ReadAssumption DEF Commands, Phases
    <3> QED
      BY <1>3, <2>2, <3>1 DEF QueryBars, ReadTypeOK
  <2> QED
    BY <1>3, <2>1, <2>2 DEF QueryBars
<1>4. ASSUME NEW r \in Reads, AwaitBars(r) PROVE ReadTypeOK'
  <2>1. read[r].command \in Commands /\ answer' = answer
    BY <1>4 DEF AwaitBars, ReadTypeOK
  <2>2. Resolved(read[r].command) \in Phases /\ "timeout" \in Phases
    BY DEF Resolved, Phases
  <2>3. \/ Becomes(r, Resolved(read[r].command))
        \/ Becomes(r, "timeout")
        \/ read' = read
    BY <1>4 DEF AwaitBars
  <2> QED
    BY <2>1, <2>2, <2>3, BecomesTyped DEF ReadTypeOK
<1>5. CASE ReadTick
  <2>1. \A r \in Reads : read[r] \in [phase : Phases, command : Nat, left : Nat]
                          /\ TimeLeft(r) \in Nat
    BY DEF ReadTypeOK, TimeLeft
  <2> QED
    BY <1>5, <2>1 DEF ReadTick, ReadTypeOK
<1> QED
  BY <1>1, <1>2, <1>3, <1>4, <1>5
     DEF ReadNext, PostOwner, PollCommands, PostCommand, GetCommandResult, Route, allVars

LEMMA InitReadsTyped == ReadInit => ReadTypeOK
  BY DEF ReadInit, ReadTypeOK, Phases, NoCommand, Answer, NoAnswer

LEMMA AlwaysReadTyped == ReadSpec => []ReadTypeOK
  BY InitReadsTyped, ReadsTyped, PTL DEF ReadSpec

LEMMA ReadStepIsGatewayStep == ReadTypeOK /\ [ReadNext]_allVars => [Next]_vars
<1> SUFFICES ASSUME ReadTypeOK, [ReadNext]_allVars PROVE [Next]_vars
  OBVIOUS
<1>1. \A a : \A size \in AnswerSizes : Encoding(a, size) \in AnswerBytes
  BY ReadAssumption DEF Encoding
<1>2. BarsTimeout \in Timeouts
  BY ReadAssumption
<1>3. ASSUME NEW o \in Owners, PostOwner(o) PROVE Next
  BY <1>3 DEF PostOwner, Route, Next
<1>4. ASSUME NEW o \in Owners, NEW g \in 1..MaxGeneration, Route(Heartbeat(o, g)) PROVE Next
  BY <1>4 DEF Route, Next
<1>5. ASSUME NEW o \in Owners, NEW g \in 1..MaxGeneration,
             NEW limit \in 1..MaxPollLimit, PollCommands(o, g, limit)
      PROVE  Next
  BY <1>5 DEF PollCommands, Route, Next
<1>6. ASSUME NEW o \in Owners, NEW g \in 1..MaxGeneration, NEW c \in Commands,
             NEW a \in NativeAnswers, NEW size \in AnswerSizes, PostAnswer(o, g, c, a, size)
      PROVE  Next
  BY <1>1, <1>6 DEF PostAnswer, Next
<1>7. ASSUME NEW c \in Commands, NEW timeout \in Timeouts, PostCommand(c, timeout) PROVE Next
  BY <1>7 DEF PostCommand, Route, Next
<1>8. CASE GetCommandResult
  BY <1>8 DEF GetCommandResult, Route, Next
<1>9. ASSUME NEW r \in Reads, QueryBars(r) PROVE Next
  BY <1>2, <1>9 DEF QueryBars, Next
<1>10. ASSUME NEW r \in Reads, AwaitBars(r) PROVE Next
  BY <1>10 DEF AwaitBars, ReadTypeOK, Next
<1>11. CASE ReadTick
  BY <1>11 DEF ReadTick, Next
<1>12. CASE UNCHANGED allVars
  BY <1>12 DEF allVars
<1> QED
  BY <1>3, <1>4, <1>5, <1>6, <1>7, <1>8, <1>9, <1>10, <1>11, <1>12 DEF ReadNext

\* The routes and the reads only do to the gateway what its specification
\* allows, so whatever is proved of the gateway holds beside them.
THEOREM ReadsUseTheGateway == ReadSpec => Spec
<1>1. ReadInit => Init
  BY DEF ReadInit
<1> QED
  BY <1>1, ReadStepIsGatewayStep, AlwaysReadTyped, PTL DEF ReadSpec, Spec

-----------------------------------------------------------------------------
(* What a read shows. *)

\* What is known of the bars that came for c in time while their result is
\* kept: they are that result exactly when they found room, and only bars
\* larger than a reservation did not.
BarsKept(a, outcome) ==
  /\ outcome = "answered" <=> a.room
  /\ a.room \/ a.size > Reservation

\* Bars are recorded with the result that carries or replaces them.  A read
\* that took its result left nothing behind that a later answer could be
\* written to.
AnswersAreStored ==
  /\ \A c \in Commands :
       answer[c].bars =>
         /\ cmd[c].place \in {"result", "gone"}
         /\ cmd[c].place = "result" => BarsKept(answer[c], cmd[c].outcome)
  /\ \A r \in Reads :
       read[r].phase \in {"bars", "failed"} => cmd[read[r].command].place = "gone"

ReadInv == AnswersAreStored /\ ReadsShowTheAnswer

\* Bars that the bridge posts in time are no larger than one result may be.
\* They are stored when they fit beside what is held and reserved, which they
\* do whenever they need no more than their own reservation.
LEMMA BarsFit ==
  ASSUME NEW held \in Nat, NEW n \in Nat, NEW a \in Bars, NEW size \in AnswerSizes,
         held + (n + 1) * Reservation <= MaxRetainedBytes
  PROVE  /\ Stored("answered", Encoding(a, size), held, n).outcome = "answered"
              <=> held + size + n * Reservation <= MaxRetainedBytes
         /\ held + size + n * Reservation <= MaxRetainedBytes \/ size > Reservation
<1>1. /\ Encoding(a, size) = size /\ size \in Nat \ {0} /\ size <= MaxResultBytes
      /\ Reservation \in Nat /\ MaxRetainedBytes \in Nat /\ MaxResultBytes \in Nat
  BY GatewayAssumption, ReadAssumption DEF Encoding, Bars
<1>2. Encoded("answered", Encoding(a, size)) = [outcome |-> "answered", bytes |-> size]
  BY <1>1 DEF Encoded, Unencodable
<1>3. (n + 1) * Reservation = n * Reservation + Reservation /\ n * Reservation \in Nat
  BY <1>1
<1>4. held + size + n * Reservation <= MaxRetainedBytes \/ size > Reservation
  BY <1>1, <1>3
<1>5. Stored("answered", Encoding(a, size), held, n).outcome =
        IF held + size + n * Reservation > MaxRetainedBytes THEN "capacity" ELSE "answered"
  BY <1>2 DEF Stored
<1> QED
  BY <1>1, <1>3, <1>4, <1>5

LEMMA AcceptedBars ==
  ASSUME TypeOK, LedgerExact, BytesReserved,
         NEW o, NEW g, NEW c \in Commands, NEW a \in NativeAnswers, NEW size \in AnswerSizes,
         PostAnswer(o, g, c, a, size), ReadTypeOK, answer'[c] # answer[c]
  PROVE  cmd'[c].place = "result" /\ BarsKept(answer'[c], cmd'[c].outcome)
<1> DEFINE O == Outstanding(Maintained)
           n == Cardinality(O) - 1
           s == Stored("answered", Encoding(a, size), MaintainedBytes, n)
<1>1. /\ PostResult(o, g, c, Encoding(a, size)) /\ generation = g
      /\ Maintained[c].place = "in_flight" /\ Maintained[c].lease = g
      /\ a \in Bars
      /\ answer'[c] = [bars |-> TRUE, size |-> size, room |-> HasRoom(size)]
  BY DEF PostAnswer, PostResult, RequireOwner, ReadTypeOK
<1>2. /\ cmd' = [Maintained EXCEPT ![c] = ResultOf(s)]
      /\ Maintained \in [Commands -> Command]
  BY <1>1, MaintainedBook, BookTyped DEF PostResult
<1>3. O \in SUBSET Commands /\ c \in O
  BY <1>1 DEF Outstanding, Pending, InFlight, At
<1>4. n \in Nat /\ n + 1 = Cardinality(O)
  BY <1>3, SetsOfCommands
<1>5. /\ MaintainedBytes \in Nat
      /\ MaintainedBytes = TotalBytes(Maintained, Results(Maintained))
      /\ MaintainedBytes + (n + 1) * Reservation <= MaxRetainedBytes
  <2>1. Ledger(cmd, retained) /\ Reserved(cmd, retained)
    BY DEF LedgerExact, BytesReserved, Ledger, Reserved
  <2>2. Ledger(Maintained, MaintainedBytes) /\ Reserved(Maintained, MaintainedBytes)
    BY <2>1, MaintainedLedger
  <2> QED
    BY <1>2, <1>4, <2>2, LedgerTyped DEF Ledger, Reserved
<1>6. HasRoom(size) <=> MaintainedBytes + size + n * Reservation <= MaxRetainedBytes
  BY <1>5 DEF HasRoom
<1> HIDE DEF n
<1>7. /\ s.outcome = "answered" <=> HasRoom(size)
      /\ HasRoom(size) \/ size > Reservation
  BY <1>1, <1>4, <1>5, <1>6, BarsFit
<1> HIDE DEF s
<1>8. cmd'[c].place = "result" /\ cmd'[c].outcome = s.outcome
  BY <1>2 DEF ResultOf
<1> QED
  BY <1>1, <1>7, <1>8 DEF BarsKept

LEMMA AnswersStoredStep ==
  ASSUME TypeOK, LedgerExact, BytesReserved, ReadTypeOK, ReadInv, [ReadNext]_allVars,
         NEW c \in Commands
  PROVE  /\ answer'[c].bars =>
              /\ cmd'[c].place \in {"result", "gone"}
              /\ cmd'[c].place = "result" => BarsKept(answer'[c], cmd'[c].outcome)
         /\ cmd[c].place = "gone" => cmd'[c].place = "gone" /\ answer'[c] = answer[c]
<1>1. Moved(c)
  BY ReadStepIsGatewayStep, CommandMoves
<1>2. \/ answer'[c] = answer[c]
      \/ \E o, g : \E a \in NativeAnswers, size \in AnswerSizes :
           PostAnswer(o, g, c, a, size) /\ answer'[c] # answer[c]
  BY DEF ReadNext, PostOwner, PollCommands, PostCommand, PostAnswer, GetCommandResult, Route,
         QueryBars, AwaitBars, ReadTick, allVars, readVars, ReadTypeOK
<1>3. CASE answer'[c] = answer[c]
  <2>1. answer[c].bars =>
          /\ cmd[c].place \in {"result", "gone"}
          /\ cmd[c].place = "result" => BarsKept(answer[c], cmd[c].outcome)
    BY DEF ReadInv, AnswersAreStored
  <2>2. \/ Kept(c) \/ cmd[c].place \in {"unborn", "pending", "in_flight"}
        \/ cmd[c].place = "result" /\ cmd'[c].place = "gone"
    BY <1>1, GoneTyped
       DEF Moved, Accepted, Claimed, Answered, Failed, Dropped, FailedAndDropped
  <2> QED
    BY <1>3, <2>1, <2>2 DEF Kept
<1>4. ASSUME NEW o, NEW g, NEW a \in NativeAnswers, NEW size \in AnswerSizes,
             PostAnswer(o, g, c, a, size), answer'[c] # answer[c]
      PROVE  /\ cmd'[c].place = "result" /\ cmd[c].place # "gone"
             /\ BarsKept(answer'[c], cmd'[c].outcome)
  <2>1. cmd'[c].place = "result" /\ BarsKept(answer'[c], cmd'[c].outcome)
    BY <1>4, AcceptedBars
  <2>2. cmd[c].place # "gone"
    BY <1>1, <2>1, QueuedTyped
       DEF Moved, Kept, Accepted, Claimed, Answered, Failed, Dropped, FailedAndDropped
  <2> QED
    BY <2>1, <2>2
<1> QED
  BY <1>2, <1>3, <1>4

\* What ReadsShowTheAnswer says of one read.
Shown(phase, a) ==
  /\ phase = "bars" => a.bars /\ a.room
  /\ phase = "failed" =>
       \/ ~a.bars
       \/ ~a.room /\ a.size > Reservation

LEMMA ReadsStep ==
  ASSUME TypeOK, LedgerExact, BytesReserved, ReadTypeOK, ReadInv, [ReadNext]_allVars,
         NEW r \in Reads
  PROVE  /\ read'[r].phase \in {"bars", "failed"} => cmd'[read'[r].command].place = "gone"
         /\ Shown(read'[r].phase, answer'[read'[r].command])
<1>0. ReadTypeOK'
  BY ReadsTyped
<1>1. CASE read'[r].phase = read[r].phase /\ read'[r].command = read[r].command
  <2> SUFFICES ASSUME read'[r].phase \in {"bars", "failed"}
               PROVE  /\ cmd'[read'[r].command].place = "gone"
                      /\ answer'[read'[r].command] = answer[read[r].command]
    BY <1>1 DEF ReadInv, ReadsShowTheAnswer, Shown
  <2>1. read[r].command \in Commands /\ cmd[read[r].command].place = "gone"
    BY <1>1 DEF ReadTypeOK, ReadInv, AnswersAreStored
  <2> QED
    BY <1>1, <2>1, AnswersStoredStep
<1>2. CASE read'[r].phase \notin {"bars", "failed"}
  BY <1>2 DEF Shown
<1>3. CASE /\ TakeResult(read[r].command) /\ Becomes(r, Resolved(read[r].command))
           /\ read[r].phase = "waiting" /\ answer' = answer
  <2> DEFINE c == read[r].command
  <2>1. c \in Commands
    BY <1>3 DEF ReadTypeOK
  <2>2. Maintained \in [Commands -> Command] /\ cmd' = [Maintained EXCEPT ![c] = Gone]
        /\ Maintained[c].place = "result"
    BY <1>3, MaintainedBook, BookTyped DEF TakeResult
  <2>3. cmd'[c].place = "gone"
    BY <2>1, <2>2, GoneTyped
  <2>4. read'[r].phase = Resolved(c) /\ read'[r].command = c
    <3>1. Resolved(c) \in Phases
      BY DEF Resolved, Phases
    <3> QED
      BY <1>3, <2>1, <3>1, BecomesTyped
  <2>5. answer[c].bars => BarsKept(answer[c], Maintained[c].outcome)
    <3> SUFFICES ASSUME answer[c].bars PROVE BarsKept(answer[c], Maintained[c].outcome)
      OBVIOUS
    <3>1. cmd[c].place \in {"result", "gone"}
      BY <2>1 DEF ReadInv, AnswersAreStored
    <3>2. Maintained[c] = cmd[c]
      BY <2>1, <2>2, <3>1, MaintainedBook, BookTyped, GoneTyped
    <3> QED
      BY <2>1, <2>2, <3>2 DEF ReadInv, AnswersAreStored
  <2> QED
    BY <1>3, <2>3, <2>4, <2>5 DEF Resolved, BarsKept, Shown
<1>4. ASSUME NEW q \in Reads, QueryBars(q)
      PROVE  \/ read'[r].phase = read[r].phase /\ read'[r].command = read[r].command
             \/ read'[r].phase \notin {"bars", "failed"}
  <2>1. Becomes(q, "refused") =>
          read'[r].phase = IF r = q THEN "refused" ELSE read[r].phase
    <3>1. read[r] \in [phase : Phases, command : Nat, left : Nat]
      BY DEF ReadTypeOK
    <3> QED
      BY <3>1 DEF Becomes, ReadTypeOK
  <2>2. q # r => read'[r] = read[r]
    BY <1>4 DEF QueryBars, Becomes, ReadTypeOK
  <2>3. (\E c : read' = [read EXCEPT ![q] =
                          [phase |-> "waiting", command |-> c, left |-> BarsTimeout]])
         => (q = r => read'[r].phase = "waiting")
    BY DEF ReadTypeOK
  <2> QED
    BY <1>4, <2>1, <2>2, <2>3 DEF QueryBars
<1>5. ASSUME NEW q \in Reads, AwaitBars(q)
      PROVE  \/ read'[r].phase = read[r].phase /\ read'[r].command = read[r].command
             \/ read'[r].phase \notin {"bars", "failed"}
             \/ /\ TakeResult(read[r].command) /\ Becomes(r, Resolved(read[r].command))
                /\ read[r].phase = "waiting" /\ answer' = answer
  <2>1. q # r => read'[r] = read[r]
    BY <1>5 DEF AwaitBars, Becomes, ReadTypeOK
  <2>2. "timeout" \in Phases /\ (Becomes(r, "timeout") /\ q = r => read'[r].phase = "timeout")
    <3>1. read[r] \in [phase : Phases, command : Nat, left : Nat]
      BY DEF ReadTypeOK
    <3> QED
      BY <3>1 DEF Becomes, ReadTypeOK, Phases
  <2> QED
    BY <1>5, <2>1, <2>2 DEF AwaitBars
<1>6. CASE ReadTick
  <2>1. read[r] \in [phase : Phases, command : Nat, left : Nat]
    BY DEF ReadTypeOK
  <2> QED
    BY <1>1, <1>6, <2>1 DEF ReadTick
<1> QED
  BY <1>1, <1>2, <1>3, <1>4, <1>5, <1>6
     DEF ReadNext, PostOwner, PollCommands, PostCommand, PostAnswer, GetCommandResult, Route,
         allVars, readVars

LEMMA ReadInvStep ==
  TypeOK /\ LedgerExact /\ BytesReserved /\ ReadTypeOK /\ ReadInv /\ [ReadNext]_allVars
    => ReadInv'
<1> SUFFICES ASSUME TypeOK, LedgerExact, BytesReserved, ReadTypeOK, ReadInv,
                    [ReadNext]_allVars
             PROVE  ReadInv'
  OBVIOUS
<1>1. AnswersAreStored'
  BY AnswersStoredStep, ReadsStep DEF AnswersAreStored
<1>2. ReadsShowTheAnswer'
  BY ReadsStep DEF ReadsShowTheAnswer, Shown
<1> QED
  BY <1>1, <1>2 DEF ReadInv

\* A read has bars only when its own command was answered with bars that came
\* in time and found room, and of such bars none is lost to a takeover, a
\* late answer or a gap in a measure.  Bars that came in time and are not
\* shown were larger than the reservation of their command and found the
\* results of others in their way.
THEOREM ReadsAreRight == ReadSpec => []ReadsShowTheAnswer
<1>1. ReadInit => ReadInv
  BY DEF ReadInit, ReadInv, AnswersAreStored, ReadsShowTheAnswer, NoAnswer
<1>2. ReadSpec => []TypeOK /\ []LedgerExact /\ []BytesReserved
  BY ReadsUseTheGateway, TypeCorrect, LedgerIsExact, BytesAreReserved, PTL
<1>3. ReadInv => ReadsShowTheAnswer
  BY DEF ReadInv
<1> QED
  BY <1>1, <1>2, <1>3, ReadInvStep, AlwaysReadTyped, PTL DEF ReadSpec

JobPhases == {"absent", "submitted", "active", "completed", "removed", "lost"}
JobRecord == [phase : JobPhases, state : [Tasks -> TaskStates],
              command : [Tasks -> Commands \cup {NotYet}],
              at : 1..TasksPerJob + 1, left : Nat, age : Nat]

\* The types of the state; a job that waits has a command to wait for.
DownloadTypeOK ==
  /\ BookOK
  /\ generation \in Nat
  /\ job \in [Jobs -> JobRecord]
  /\ \A j \in Jobs : job[j].phase = "active" =>
       job[j].at \in Tasks /\ job[j].command[job[j].at] \in Commands
  /\ bridge \in [id : Owners, lease : Nat, running : Commands \cup {Idle}]
  /\ native \in [Commands -> NativeOutcomes \cup {"none"}]

\* A command that left the queue never comes back to it.
Taken(k, c) == k[c].place \notin {"unborn", "pending"}

ExecutedOnce ==
  /\ \A c \in Commands : native[c] # "none" => Taken(cmd, c)
  /\ bridge.running # Idle =>
       Taken(cmd, bridge.running) /\ native[bridge.running] = "none"

DownloadInv == DownloadTypeOK /\ ExecutedOnce /\ DoneWasExecuted

-----------------------------------------------------------------------------
(* What the steps of the gateway do to the book. *)

\* A book that went on from k.
GoesOn(k, b) ==
  /\ b \in [Commands -> Command]
  /\ \A c \in Commands : Taken(k, c) => Taken(b, c)

LEMMA MaintainedGoesOn ==
  ASSUME BookOK
  PROVE  GoesOn(cmd, Maintained)
  BY MaintainedBook, GoneTyped DEF GoesOn, Taken

LEMMA RegisterGoesOn ==
  ASSUME BookOK, generation \in Nat, NEW o \in Owners, RegisterOwner(o)
  PROVE  GoesOn(cmd, cmd') /\ generation' \in Nat
<1>1. FailForReplacedOwner => GoesOn(cmd, cmd')
  BY ReplacedBook DEF GoesOn, Taken
<1>2. cmd' = cmd => GoesOn(cmd, cmd')
  BY DEF GoesOn, BookOK
<1> QED
  BY <1>1, <1>2 DEF RegisterOwner

LEMMA PollGoesOn ==
  ASSUME BookOK, generation \in Nat, NEW o, NEW g, NEW limit, Poll(o, g, limit)
  PROVE  /\ GoesOn(cmd, cmd')
         /\ generation' = generation
         /\ \A c \in Oldest(Pending(Maintained), limit) :
              /\ c \in Commands /\ cmd[c].place = "pending"
              /\ cmd'[c].place = "in_flight"
<1> DEFINE S == Oldest(Pending(Maintained), limit)
<1>1. /\ Maintained \in [Commands -> Command]
      /\ \A c \in Commands : Taken(cmd, c) => Taken(Maintained, c)
  BY MaintainedGoesOn DEF GoesOn
<1>2. /\ cmd' = [c \in Commands |->
                   IF c \in S
                   THEN [Maintained[c] EXCEPT !.place = "in_flight", !.age = 0,
                                              !.lease = generation]
                   ELSE Maintained[c]]
      /\ generation' = generation
  BY DEF Poll
<1>3. \A c \in S : c \in Commands /\ Maintained[c].place = "pending"
  BY DEF Oldest, Pending, At
<1>4. \A c \in S : cmd[c].place = "pending"
  BY <1>3, MaintainedInTime
<1> HIDE DEF S
<1>5. \A c \in Commands :
        /\ cmd'[c] \in Command
        /\ c \in S => cmd'[c].place = "in_flight"
        /\ c \notin S => cmd'[c] = Maintained[c]
  BY <1>1, <1>2 DEF Command, Places
<1>6. cmd' \in [Commands -> Command]
  BY <1>2, <1>5
<1>7. GoesOn(cmd, cmd')
  BY <1>1, <1>5, <1>6 DEF GoesOn, Taken
<1> QED
  BY <1>2, <1>3, <1>4, <1>5, <1>7 DEF S

LEMMA PostGoesOn ==
  ASSUME BookOK, NEW o, NEW g, NEW c \in Commands, NEW bytes \in AnswerBytes,
         PostResult(o, g, c, bytes)
  PROVE  GoesOn(cmd, cmd') /\ generation' = generation
<1>1. /\ Maintained \in [Commands -> Command]
      /\ \A d \in Commands : Taken(cmd, d) => Taken(Maintained, d)
  BY MaintainedGoesOn DEF GoesOn
<1>2. bytes \in Nat /\ "answered" \in Outcomes
  BY GatewayAssumption DEF Outcomes
<1>3. \A held, n : /\ ResultOf(Stored("answered", bytes, held, n)) \in Command
                   /\ ResultOf(Stored("answered", bytes, held, n)).place = "result"
  BY <1>2, ResultTyped
<1>4. cmd' = Maintained \/ \E r \in Command : r.place = "result"
                                              /\ cmd' = [Maintained EXCEPT ![c] = r]
  BY <1>3 DEF PostResult, Maintain
<1> QED
  BY <1>1, <1>4 DEF GoesOn, Taken, PostResult

LEMMA TickGoesOn ==
  ASSUME BookOK, Tick
  PROVE  GoesOn(cmd, cmd') /\ generation' = generation
<1>1. \A c \in Commands : cmd[c] \in Command
  BY DEF BookOK
<1>2. \A c \in Commands : Aged(cmd[c]) \in Command /\ Aged(cmd[c]).place = cmd[c].place
  BY <1>1 DEF Aged, Command
<1> QED
  BY <1>2 DEF Tick, GoesOn, Taken

-----------------------------------------------------------------------------
(* The coroutine. *)

\* What the terminal did for a command that a task may be done by.
Executed == {"downloaded", "period_failed"}

DoneTasks(r) ==
  \A t \in Tasks : r.state[t] = "done" =>
    r.command[t] \in Commands /\ native[r.command[t]] \in Executed

Waits(r) == r.phase = "active" => r.at \in Tasks /\ r.command[r.at] \in Commands

LEMMA DoneTasksSame ==
  ASSUME DownloadTypeOK
  PROVE  DoneWasExecuted <=> \A j \in Jobs : DoneTasks(job[j])
<1>1. \A j \in Jobs : \A t \in Tasks : job[j].command[t] \in Commands \cup {NotYet}
  BY DEF DownloadTypeOK, JobRecord
<1>2. NotYet \notin Commands
  BY DEF NotYet, Commands
<1> QED
  BY <1>1, <1>2 DEF DoneWasExecuted, DoneTasks, Executed

LEMMA EndedTyped ==
  ASSUME NEW r \in JobRecord, NEW t \in Tasks, NEW state \in TaskStates
  PROVE  /\ Ended(r, t, state) \in JobRecord
         /\ Ended(r, t, state).command = r.command
         /\ \A u \in Tasks : Ended(r, t, state).state[u] = IF u = t THEN state ELSE r.state[u]
<1> DEFINE e == Ended(r, t, state)
<1>1. t \in Nat /\ t + 1 \in 1..TasksPerJob + 1
  BY DownloadAssumption DEF Tasks
<1>2. /\ e = [r EXCEPT !.state = [r.state EXCEPT ![t] = state], !.at = t + 1]
      /\ e.state = [r.state EXCEPT ![t] = state] /\ e.command = r.command
  BY DEF Ended, JobRecord
<1>3. /\ r.phase \in JobPhases /\ r.state \in [Tasks -> TaskStates]
      /\ r.command \in [Tasks -> Commands \cup {NotYet}] /\ r.left \in Nat /\ r.age \in Nat
  BY DEF JobRecord
<1>4. [r.state EXCEPT ![t] = state] \in [Tasks -> TaskStates]
  BY <1>3
<1> HIDE DEF e
<1>5. e \in JobRecord
  BY <1>1, <1>2, <1>3, <1>4 DEF JobRecord
<1>6. \A u \in Tasks : e.state[u] = IF u = t THEN state ELSE r.state[u]
  BY <1>2, <1>3
<1> QED
  BY <1>2, <1>5, <1>6 DEF e

\* Going on never marks a task done: it completes the job, starts one task or
\* fails the rest, and queues at most one new command.
LEMMA GoOnKeeps ==
  ASSUME DownloadTypeOK, NEW j \in Jobs, NEW r \in JobRecord, NEW k, NEW held,
         GoesOn(cmd, k), DoneTasks(r), GoOn(j, r, k, held)
  PROVE  /\ GoesOn(cmd, cmd')
         /\ generation' = generation
         /\ \E s \in JobRecord : /\ job' = [job EXCEPT ![j] = s]
                                 /\ DoneTasks(s) /\ Waits(s)
<1>1. CASE r.at > TasksPerJob
  <2>1. Completed(r) \in JobRecord /\ DoneTasks(Completed(r)) /\ Waits(Completed(r))
    BY DEF Completed, JobRecord, JobPhases, DoneTasks, Waits
  <2> QED
    BY <1>1, <2>1 DEF GoOn, leaseVars
<1>2. CASE ~(r.at > TasksPerJob) /\ HasCapacity(k, held)
  <2>0. r.at \in Tasks
    BY <1>2, DownloadAssumption DEF JobRecord, Tasks
  <2>1. PICK c \in NextOf(k) :
          /\ cmd' = [k EXCEPT ![c] = Queued(CommandTimeout)]
          /\ job' = [job EXCEPT ![j] =
                       [r EXCEPT !.phase = "active", !.state[r.at] = "running",
                                 !.command[r.at] = c, !.left = CommandTimeout]]
    BY <1>2 DEF GoOn
  <2> DEFINE s == [r EXCEPT !.phase = "active", !.state[r.at] = "running",
                            !.command[r.at] = c, !.left = CommandTimeout]
  <2>2. c \in Commands /\ k[c].place = "unborn"
    BY DEF NextOf
  <2>3. Queued(CommandTimeout) \in Command
    BY DownloadAssumption DEF Queued, Unborn, Command, Places, Outcomes
  <2>4. GoesOn(cmd, cmd')
    BY <2>1, <2>2, <2>3 DEF GoesOn, Taken
  <2>5. s \in JobRecord
    BY <2>0, <2>2, DownloadAssumption DEF JobRecord, JobPhases, TaskStates
  <2>6. /\ s.phase = "active" /\ s.at = r.at /\ s.command[r.at] = c
        /\ s.state[r.at] = "running"
        /\ \A t \in Tasks \ {r.at} : s.state[t] = r.state[t] /\ s.command[t] = r.command[t]
    BY <2>0 DEF JobRecord
  <2> HIDE DEF s
  <2>7. DoneTasks(s) /\ Waits(s)
    BY <2>0, <2>2, <2>6 DEF DoneTasks, Waits
  <2>8. job' = [job EXCEPT ![j] = s]
    BY <2>1 DEF s
  <2> QED
    BY <1>2, <2>4, <2>5, <2>7, <2>8 DEF GoOn
<1>3. CASE ~(r.at > TasksPerJob) /\ ~HasCapacity(k, held)
  <2> DEFINE s == Completed([r EXCEPT !.at = TasksPerJob + 1,
                                      !.state = [t \in Tasks |->
                                         IF t < r.at THEN r.state[t] ELSE "failed"]])
  <2>1. s \in JobRecord
    <3>1. r.state \in [Tasks -> TaskStates] /\ "failed" \in TaskStates
      BY DEF JobRecord, TaskStates
    <3>2. [t \in Tasks |-> IF t < r.at THEN r.state[t] ELSE "failed"] \in [Tasks -> TaskStates]
      BY <3>1
    <3>3. TasksPerJob + 1 \in 1..TasksPerJob + 1
      BY DownloadAssumption
    <3> QED
      BY <3>2, <3>3 DEF Completed, JobRecord, JobPhases
  <2>2. /\ s.phase = "completed" /\ s.command = r.command
        /\ \A t \in Tasks : s.state[t] = IF t < r.at THEN r.state[t] ELSE "failed"
    BY DEF Completed, JobRecord
  <2>3. cmd' = k /\ generation' = generation /\ job' = [job EXCEPT ![j] = s]
    BY <1>3 DEF GoOn
  <2> HIDE DEF s
  <2>4. DoneTasks(s) /\ Waits(s)
    BY <2>2 DEF DoneTasks, Waits
  <2> QED
    BY <2>1, <2>3, <2>4
<1> QED
  BY <1>1, <1>2, <1>3

-----------------------------------------------------------------------------
(* The invariant is inductive. *)

\* A step that moves the book on while the bridge starts nothing and the
\* terminal reports nothing.
LEMMA QuietStep ==
  ASSUME DownloadInv, GoesOn(cmd, cmd'), generation' \in Nat,
         job' \in [Jobs -> JobRecord], \A j \in Jobs : DoneTasks(job'[j]) /\ Waits(job'[j]),
         bridge' \in [id : Owners, lease : Nat, running : Commands \cup {Idle}],
         bridge'.running \in {Idle, bridge.running}, native' = native
  PROVE  DownloadInv'
<1>1. DownloadTypeOK'
  BY DEF DownloadInv, DownloadTypeOK, GoesOn, BookOK, Waits
<1>2. ExecutedOnce'
  <2>1. \A c \in Commands : native'[c] # "none" => Taken(cmd', c)
    BY DEF DownloadInv, ExecutedOnce, GoesOn
  <2>2. bridge'.running # Idle =>
          Taken(cmd', bridge'.running) /\ native'[bridge'.running] = "none"
    BY DEF DownloadInv, DownloadTypeOK, ExecutedOnce, GoesOn
  <2> QED
    BY <2>1, <2>2 DEF ExecutedOnce
<1>3. DoneWasExecuted'
  <2>1. NotYet \notin Commands
    BY DEF NotYet, Commands
  <2> QED
    BY <2>1 DEF DoneWasExecuted, DoneTasks, Executed
<1> QED
  BY <1>1, <1>2, <1>3 DEF DownloadInv

\* Jobs that stay as they are, or are forgotten.
LEMMA JobsKept ==
  ASSUME DownloadInv, job' = job
  PROVE  job' \in [Jobs -> JobRecord] /\ \A j \in Jobs : DoneTasks(job'[j]) /\ Waits(job'[j])
  BY DoneTasksSame DEF DownloadInv, DownloadTypeOK, Waits

LEMMA NoJobFresh ==
  ASSUME NEW phase \in JobPhases, phase # "active"
  PROVE  LET r == [NoJob EXCEPT !.phase = phase]
         IN  r \in JobRecord /\ DoneTasks(r) /\ Waits(r)
  BY DownloadAssumption DEF NoJob, JobRecord, TaskStates, NotYet, DoneTasks, Waits

LEMMA CleanedUpKept ==
  ASSUME DownloadInv
  PROVE  /\ CleanedUp \in [Jobs -> JobRecord]
         /\ \A j \in Jobs : DoneTasks(CleanedUp[j]) /\ Waits(CleanedUp[j])
         /\ \A j \in Jobs : job[j].phase = "absent" => CleanedUp[j] = job[j]
<1>1. \A j \in Jobs : job[j] \in JobRecord /\ DoneTasks(job[j]) /\ Waits(job[j])
  BY DoneTasksSame DEF DownloadInv, DownloadTypeOK, Waits
<1>2. LET r == [NoJob EXCEPT !.phase = "removed"]
      IN  r \in JobRecord /\ DoneTasks(r) /\ Waits(r)
  BY NoJobFresh DEF JobPhases
<1> QED
  BY <1>1, <1>2 DEF CleanedUp

LEMMA GoOnStep ==
  ASSUME DownloadInv, NEW j \in Jobs, NEW r \in JobRecord, NEW k, NEW held,
         GoesOn(cmd, k), DoneTasks(r), GoOn(j, r, k, held), UNCHANGED <<bridge, native>>
  PROVE  DownloadInv'
<1>1. /\ GoesOn(cmd, cmd') /\ generation' \in Nat
      /\ \E s \in JobRecord : /\ job' = [job EXCEPT ![j] = s]
                              /\ DoneTasks(s) /\ Waits(s)
  BY GoOnKeeps DEF DownloadInv, DownloadTypeOK
<1>2. \A i \in Jobs : job[i] \in JobRecord /\ DoneTasks(job[i]) /\ Waits(job[i])
  BY DoneTasksSame DEF DownloadInv, DownloadTypeOK, Waits
<1>3. /\ job' \in [Jobs -> JobRecord]
      /\ \A i \in Jobs : DoneTasks(job'[i]) /\ Waits(job'[i])
  BY <1>1, <1>2 DEF DownloadInv, DownloadTypeOK
<1> QED
  BY <1>1, <1>3, QuietStep DEF DownloadInv, DownloadTypeOK

LEMMA AwaitStep ==
  ASSUME DownloadInv, NEW j \in Jobs, AwaitCommand(j)
  PROVE  DownloadInv'
<1> DEFINE r == job[j]
           c == r.command[r.at]
<1>1. /\ r \in JobRecord /\ DoneTasks(r) /\ r.at \in Tasks /\ c \in Commands
      /\ BookOK /\ generation \in Nat /\ UNCHANGED <<bridge, native>>
  BY DoneTasksSame DEF AwaitCommand, DownloadInv, DownloadTypeOK
<1>2. GoesOn(cmd, Maintained) /\ GoesOn(cmd, cmd)
  BY <1>1, MaintainedGoesOn DEF GoesOn, BookOK
<1> HIDE DEF r
<1>3. ASSUME NEW state \in TaskStates,
             state = "done" => native[c] \in Executed
      PROVE  /\ Ended(r, r.at, state) \in JobRecord
             /\ DoneTasks(Ended(r, r.at, state))
  BY <1>1, <1>3, EndedTyped DEF DoneTasks
<1>4. CASE /\ Maintained[c].place = "result"
           /\ GoOn(j, Ended(r, r.at, IF Succeeded(c) THEN "done" ELSE "failed"),
                   [Maintained EXCEPT ![c] = Gone],
                   MaintainedBytes - Maintained[c].bytes)
  <2>1. GoesOn(cmd, [Maintained EXCEPT ![c] = Gone])
    BY <1>1, <1>2, GoneTyped DEF GoesOn, Taken
  <2> DEFINE state == IF Succeeded(c) THEN "done" ELSE "failed"
  <2>2. state \in TaskStates /\ (state = "done" => native[c] \in Executed)
    BY DEF Succeeded, AnswerOk, TaskStates, Executed
  <2> HIDE DEF state, c
  <2>3. Ended(r, r.at, state) \in JobRecord /\ DoneTasks(Ended(r, r.at, state))
    BY <1>3, <2>2
  <2>4. GoOn(j, Ended(r, r.at, state), [Maintained EXCEPT ![c] = Gone],
             MaintainedBytes - Maintained[c].bytes)
    BY <1>4 DEF state
  <2> QED
    BY <1>1, <2>1, <2>3, <2>4, GoOnStep
<1>5. CASE Observe /\ UNCHANGED job
  BY <1>1, <1>2, <1>5, JobsKept, QuietStep
     DEF Observe, Maintain, leaseVars, DownloadInv, DownloadTypeOK
<1>6. CASE \/ GoOn(j, GivenUp(r), Maintained, MaintainedBytes)
           \/ GoOn(j, GivenUp(r), cmd, retained)
  <2>1. GivenUp(r) \in JobRecord /\ DoneTasks(GivenUp(r))
    BY <1>3 DEF GivenUp, TaskStates
  <2> QED
    BY <1>1, <1>2, <1>6, <2>1, GoOnStep
<1> QED
  BY <1>4, <1>5, <1>6 DEF AwaitCommand, r

\* The bridge takes a command from the queue, which none is executed in.
LEMMA PollStep ==
  ASSUME DownloadInv, BridgePoll
  PROVE  DownloadInv'
<1> DEFINE S == Oldest(Pending(Maintained), 1)
<1>1. /\ BookOK /\ generation \in Nat
      /\ bridge \in [id : Owners, lease : Nat, running : Commands \cup {Idle}]
      /\ Poll(bridge.id, bridge.lease, 1) /\ job' = job /\ native' = native
  BY DEF BridgePoll, DownloadInv, DownloadTypeOK
<1>2. /\ GoesOn(cmd, cmd') /\ generation' \in Nat
      /\ \A c \in S : c \in Commands /\ cmd[c].place = "pending" /\ cmd'[c].place = "in_flight"
  BY <1>1, PollGoesOn
<1>3. /\ bridge' \in [id : Owners, lease : Nat, running : Commands \cup {Idle}]
      /\ bridge'.running = Idle \/ bridge'.running \in S
  <2> DEFINE d == CHOOSE c \in Commands \cup {Idle} : IF S = {} THEN c = Idle ELSE c \in S
  <2>1. \E c \in Commands \cup {Idle} : IF S = {} THEN c = Idle ELSE c \in S
    BY <1>2
  <2>2. d \in Commands \cup {Idle} /\ (d = Idle \/ d \in S)
    BY <2>1
  <2>3. bridge' = [bridge EXCEPT !.running = d]
    BY DEF BridgePoll
  <2> HIDE DEF d
  <2> QED
    BY <1>1, <2>2, <2>3
<1> HIDE DEF S
<1>4. CASE bridge'.running = Idle
  BY <1>1, <1>2, <1>3, <1>4, JobsKept, QuietStep
<1>5. CASE bridge'.running \in S
  <2>1. job' \in [Jobs -> JobRecord] /\ \A j \in Jobs : DoneTasks(job'[j]) /\ Waits(job'[j])
    BY <1>1, JobsKept
  <2>2. DownloadTypeOK'
    BY <1>1, <1>2, <1>3, <2>1 DEF DownloadInv, DownloadTypeOK, GoesOn, BookOK, Waits
  <2>3. native[bridge'.running] = "none" /\ Taken(cmd', bridge'.running)
    BY <1>2, <1>5 DEF DownloadInv, ExecutedOnce, Taken
  <2>4. ExecutedOnce'
    BY <1>1, <1>2, <2>3 DEF DownloadInv, ExecutedOnce, GoesOn
  <2>5. DoneWasExecuted'
    BY <1>1 DEF DownloadInv, DoneWasExecuted
  <2> QED
    BY <2>2, <2>4, <2>5 DEF DownloadInv
<1> QED
  BY <1>3, <1>4, <1>5

\* The terminal reports what it did for a command it had not executed, so
\* nothing that was reported before changes.
LEMMA ReportStep ==
  ASSUME DownloadInv, GoesOn(cmd, cmd'), generation' = generation, job' = job,
         bridge.running # Idle, NEW outcome \in NativeOutcomes,
         native' = [native EXCEPT ![bridge.running] = outcome],
         bridge' = [bridge EXCEPT !.running = Idle]
  PROVE  DownloadInv'
<1> DEFINE c == bridge.running
<1>1. /\ c \in Commands /\ Taken(cmd, c) /\ native[c] = "none"
      /\ bridge \in [id : Owners, lease : Nat, running : Commands \cup {Idle}]
      /\ native \in [Commands -> NativeOutcomes \cup {"none"}]
  BY DEF DownloadInv, DownloadTypeOK, ExecutedOnce
<1>2. \A d \in Commands : native'[d] = IF d = c THEN outcome ELSE native[d]
  BY <1>1
<1>3. bridge'.running = Idle
  BY <1>1
<1>4. DownloadTypeOK'
  BY <1>1, JobsKept DEF DownloadInv, DownloadTypeOK, GoesOn, BookOK, Waits
<1>5. ExecutedOnce'
  BY <1>1, <1>2, <1>3 DEF DownloadInv, ExecutedOnce, GoesOn
<1>6. DoneWasExecuted'
  <2> SUFFICES ASSUME NEW j \in Jobs, NEW t \in Tasks, job[j].state[t] = "done"
               PROVE  /\ job[j].command[t] # NotYet
                      /\ native'[job[j].command[t]] \in Executed
    BY DEF DoneWasExecuted, Executed
  <2>1. job[j].command[t] \in Commands /\ native[job[j].command[t]] \in Executed
    BY DoneTasksSame DEF DownloadInv, DoneTasks
  <2>2. job[j].command[t] # c /\ NotYet \notin Commands
    BY <1>1, <2>1 DEF Executed, NotYet, Commands
  <2> QED
    BY <1>2, <2>1, <2>2
<1> QED
  BY <1>4, <1>5, <1>6 DEF DownloadInv

LEMMA DownloadStep == DownloadInv /\ [DownloadNext]_downloadVars => DownloadInv'
<1> SUFFICES ASSUME DownloadInv, [DownloadNext]_downloadVars PROVE DownloadInv'
  OBVIOUS
<1> DEFINE Bridge == [id : Owners, lease : Nat, running : Commands \cup {Idle}]
<1>0. /\ BookOK /\ generation \in Nat /\ bridge \in Bridge
      /\ GoesOn(cmd, cmd) /\ GoesOn(cmd, Maintained)
      /\ \A j \in Jobs : job[j] \in JobRecord /\ DoneTasks(job[j]) /\ Waits(job[j])
      /\ job = [j \in Jobs |-> job[j]]
  BY DoneTasksSame, MaintainedGoesOn
     DEF DownloadInv, DownloadTypeOK, Waits, GoesOn, BookOK
<1>1. ASSUME NEW j \in Jobs, Submit(j) PROVE DownloadInv'
  <2>1. job' = [CleanedUp EXCEPT ![j] = [CleanedUp[j] EXCEPT !.phase = "submitted"]]
    BY <1>1 DEF Submit
  <2>2. LET r == [CleanedUp[j] EXCEPT !.phase = "submitted"]
        IN  r \in JobRecord /\ DoneTasks(r) /\ Waits(r)
    BY CleanedUpKept DEF JobRecord, JobPhases, DoneTasks, Waits
  <2>3. /\ job' \in [Jobs -> JobRecord]
        /\ \A i \in Jobs : DoneTasks(job'[i]) /\ Waits(job'[i])
    BY <2>1, <2>2, CleanedUpKept
  <2> QED
    BY <1>0, <1>1, <2>3, QuietStep DEF Submit, vars
<1>2. CASE JobStatus
  <2>1. /\ job' \in [Jobs -> JobRecord]
        /\ \A i \in Jobs : DoneTasks(job'[i]) /\ Waits(job'[i])
    BY <1>2, CleanedUpKept DEF JobStatus
  <2> QED
    BY <1>0, <1>2, <2>1, QuietStep DEF JobStatus, vars
<1>3. ASSUME NEW j \in Jobs, StartJob(j) PROVE DownloadInv'
  BY <1>0, <1>3, GoOnStep DEF StartJob
<1>4. ASSUME NEW j \in Jobs, AwaitCommand(j) PROVE DownloadInv'
  BY <1>4, AwaitStep
<1>5. CASE BridgeRegister
  <2>1. GoesOn(cmd, cmd') /\ generation' \in Nat
    BY <1>0, <1>5, RegisterGoesOn DEF BridgeRegister
  <2>2. bridge' \in Bridge /\ bridge'.running = bridge.running
    BY <1>0, <1>5, <2>1 DEF BridgeRegister
  <2> QED
    BY <1>5, <2>1, <2>2, JobsKept, QuietStep DEF BridgeRegister
<1>6. CASE BridgeRegisterLost
  <2>1. GoesOn(cmd, cmd') /\ generation' \in Nat
    BY <1>0, <1>6, RegisterGoesOn DEF BridgeRegisterLost
  <2> QED
    BY <1>0, <1>6, <2>1, JobsKept, QuietStep DEF BridgeRegisterLost
<1>7. CASE BridgePoll
  BY <1>7, PollStep
<1>8. CASE BridgePollLost
  <2>1. GoesOn(cmd, cmd') /\ generation' \in Nat
    BY <1>0, <1>8, PollGoesOn DEF BridgePollLost
  <2> QED
    BY <1>0, <1>8, <2>1, JobsKept, QuietStep DEF BridgePollLost
<1>9. CASE BridgePollRefused
  <2>1. bridge' \in Bridge /\ bridge'.running = bridge.running
    BY <1>0, <1>9 DEF BridgePollRefused, NoLease
  <2> QED
    BY <1>0, <1>9, <2>1, JobsKept, QuietStep
       DEF BridgePollRefused, Observe, Maintain, leaseVars
<1>10. ASSUME NEW outcome \in NativeOutcomes, NEW bytes \in AnswerBytes,
              BridgeAnswer(outcome, bytes)
       PROVE  DownloadInv'
  <2>1. bridge.running \in Commands
    BY <1>0, <1>10 DEF BridgeAnswer
  <2>2. GoesOn(cmd, cmd') /\ generation' = generation
    BY <1>0, <1>10, <2>1, PostGoesOn DEF BridgeAnswer, Observe, Maintain, leaseVars
  <2> QED
    BY <1>10, <2>2, ReportStep DEF BridgeAnswer
<1>11. ASSUME NEW outcome \in NativeOutcomes, BridgeAnswerLost(outcome) PROVE DownloadInv'
  BY <1>0, <1>11, ReportStep DEF BridgeAnswerLost, vars
<1>12. ASSUME NEW o \in Owners, BridgeRestart(o) PROVE DownloadInv'
  <2>1. bridge' \in Bridge /\ bridge'.running = Idle
    BY <1>12 DEF BridgeRestart, NoLease
  <2> QED
    BY <1>0, <1>12, <2>1, JobsKept, QuietStep DEF BridgeRestart, vars
<1>13. CASE DatasourceRestart
  <2>1. GoesOn(cmd, cmd')
    <3>1. Unborn \in Command
      BY DEF Unborn, Command, Places, Outcomes
    <3> QED
      BY <1>13, <3>1, GoneTyped DEF DatasourceRestart, GoesOn, Taken
  <2>2. LET r == [NoJob EXCEPT !.phase = "lost"]
        IN  r \in JobRecord /\ DoneTasks(r) /\ Waits(r)
    BY NoJobFresh DEF JobPhases
  <2>3. /\ job' \in [Jobs -> JobRecord]
        /\ \A i \in Jobs : DoneTasks(job'[i]) /\ Waits(job'[i])
    BY <1>0, <1>13, <2>2 DEF DatasourceRestart
  <2> QED
    BY <1>0, <1>13, <2>1, <2>3, QuietStep DEF DatasourceRestart
<1>14. CASE DownloadTick
  <2>1. GoesOn(cmd, cmd') /\ generation' = generation
    BY <1>0, <1>14, TickGoesOn DEF DownloadTick
  <2>2. ASSUME NEW j \in Jobs
        PROVE  /\ AgedJob(job[j]) \in JobRecord
               /\ DoneTasks(AgedJob(job[j])) /\ Waits(AgedJob(job[j]))
    <3>1. /\ AgedJob(job[j]) \in JobRecord
          /\ AgedJob(job[j]).phase = job[j].phase /\ AgedJob(job[j]).state = job[j].state
          /\ AgedJob(job[j]).command = job[j].command /\ AgedJob(job[j]).at = job[j].at
      BY <1>0 DEF AgedJob, JobRecord
    <3> QED
      BY <1>0, <3>1 DEF DoneTasks, Waits
  <2> QED
    BY <1>0, <1>14, <2>1, <2>2, QuietStep DEF DownloadTick
<1>15. CASE UNCHANGED downloadVars
  BY <1>0, <1>15, JobsKept, QuietStep DEF downloadVars, registryVars, vars
<1> QED
  BY <1>1, <1>2, <1>3, <1>4, <1>5, <1>6, <1>7, <1>8, <1>9, <1>10, <1>11, <1>12, <1>13,
     <1>14, <1>15 DEF DownloadNext

LEMMA DownloadStart == DownloadInit => DownloadInv
<1> SUFFICES ASSUME DownloadInit PROVE DownloadInv
  OBVIOUS
<1>1. Unborn \in Command /\ Unborn.place = "unborn"
  BY DEF Unborn, Command, Places, Outcomes
<1>2. NoJob \in JobRecord /\ NoJob.phase = "absent" /\ \A t \in Tasks : NoJob.state[t] = "pending"
  BY DownloadAssumption DEF NoJob, JobRecord, JobPhases, TaskStates, NotYet
<1>3. DownloadTypeOK
  BY <1>1, <1>2 DEF DownloadInit, Init, DownloadTypeOK, BookOK, NoLease, Idle
<1> QED
  BY <1>2, <1>3 DEF DownloadInit, DownloadInv, ExecutedOnce, DoneWasExecuted, Idle

\* The jobs, the bridge and the gateway keep their types through restarts of
\* either side.
THEOREM DownloadsTyped == DownloadSpec => []DownloadTypeOK
<1>1. DownloadInv => DownloadTypeOK
  BY DEF DownloadInv
<1> QED
  BY <1>1, DownloadStart, DownloadStep, PTL DEF DownloadSpec

\* The terminal executes no command twice, whatever is lost or restarted.
THEOREM ExecutesOnce == DownloadSpec => []ExecutedOnce
<1>1. DownloadInv => ExecutedOnce
  BY DEF DownloadInv
<1> QED
  BY <1>1, DownloadStart, DownloadStep, PTL DEF DownloadSpec

\* A task is called done only for what the terminal did for its own command.
THEOREM DoneIsExecuted == DownloadSpec => []DoneWasExecuted
<1>1. DownloadInv => DoneWasExecuted
  BY DEF DownloadInv
<1> QED
  BY <1>1, DownloadStart, DownloadStep, PTL DEF DownloadSpec
=============================================================================
