------------------------- MODULE QmtCommandGateway -------------------------
(***************************************************************************)
(* The in-memory command gateway of the QMT datasource: one leased bridge  *)
(* owner, a FIFO of historical commands, the commands that owner has       *)
(* claimed, and a bounded ledger of terminal results                       *)
(* (src/datasource/qmt/realtime/gateway.py, class QmtCommandGateway).      *)
(*                                                                         *)
(* The service is single threaded and no method of the class awaits, so    *)
(* every method is one atomic action.  Nearly all of them first run        *)
(* _maintain, which is therefore part of those actions (Maintained).       *)
(*                                                                         *)
(* Time.  The code only ever compares differences with its clock, so each  *)
(* timestamp is kept as an age that Tick advances and that stops growing   *)
(* one past the last value a comparison tells apart.  Command ids are the  *)
(* order of creation; both deques of the code hold ids in that order       *)
(* because the only append is at creation and claims take the oldest, so   *)
(* the deque and the dictionary are sets of ids.                           *)
(***************************************************************************)
EXTENDS Integers, FiniteSets, FiniteSetsExt

CONSTANTS
  Owners,                 \* bridge processes, by owner_id
  NoOwner,                \* no owner has registered yet
  OwnerStaleAfter,        \* owner_stale_after_seconds
  BusyGrants,             \* arguments of extend_busy_until
  Timeouts,               \* timeout_seconds of a command
  ResultTtl,              \* result_ttl_seconds
  MaxPollLimit,           \* max_poll_limit
  MaxOutstanding,         \* max_outstanding_commands
  MaxRetainedResults,     \* max_retained_results
  MaxResultBytes,         \* max_result_bytes
  MaxRetainedBytes,       \* max_retained_result_bytes
  Reservation,            \* TERMINAL_RESULT_RESERVATION_BYTES
  FailureBytes,           \* encoded size of a failure built by the gateway
  AnswerBytes,            \* encoded sizes a bridge answer can have
  MaxCommands,            \* bound of the model: commands ever accepted
  MaxGeneration           \* bound of the model: leases ever issued

\* The checks of the constructor, and the fact that a failure built by the
\* gateway fits its reservation (_store_result raises otherwise).
ASSUME GatewayAssumption ==
  /\ NoOwner \notin Owners
  /\ OwnerStaleAfter \in Nat \ {0}
  /\ BusyGrants \subseteq Nat \ {0}
  /\ Timeouts \subseteq Nat \ {0}
  /\ ResultTtl \in Nat \ {0}
  /\ MaxPollLimit \in Nat \ {0}
  /\ MaxOutstanding \in Nat \ {0}
  /\ MaxRetainedResults \in Nat \ {0}
  /\ MaxResultBytes \in Nat \ {0}
  /\ MaxRetainedBytes \in Nat \ {0}
  /\ Reservation \in Nat \ {0}
  /\ FailureBytes \in 1..Reservation
  /\ AnswerBytes \subseteq Nat \ {0}
  /\ MaxCommands \in Nat
  /\ MaxGeneration \in Nat
  /\ MaxOutstanding <= MaxRetainedResults
  /\ MaxRetainedResults * Reservation <= MaxRetainedBytes

VARIABLES
  owner,         \* owner_id of the current owner, or NoOwner
  generation,    \* its generation; stands for the lease token as well
  heartbeatAge,  \* now - last_heartbeat_at
  busyLeft,      \* busy_until - now, 0 once it has passed
  cmd,           \* every command, with the collection that holds it
  retained       \* _retained_result_bytes

vars == <<owner, generation, heartbeatAge, busyLeft, cmd, retained>>
leaseVars == <<owner, generation, heartbeatAge, busyLeft>>

Commands == 1..MaxCommands
Places == {"unborn", "pending", "in_flight", "result", "gone"}
Outcomes == {"none", "answered", "timeout", "owner_replaced",
             "invalid", "too_large", "capacity"}

\* age counts from created_at, claimed_at or completed_at, whichever the
\* collection holding the command compares; limit is what it is compared to.
Command == [place: Places, age: Nat, limit: Nat, lease: Nat,
            outcome: Outcomes, bytes: Nat]

Unborn == [place |-> "unborn", age |-> 0, limit |-> 0, lease |-> 0,
           outcome |-> "none", bytes |-> 0]
Gone == [Unborn EXCEPT !.place = "gone"]
Queued(timeout) == [Unborn EXCEPT !.place = "pending", !.limit = timeout]

Unencodable == 0    \* an answer that is not finite JSON has no encoding

-----------------------------------------------------------------------------
(* The collections of a book of commands k. *)

At(k, place) == {c \in Commands : k[c].place = place}
Pending(k) == At(k, "pending")
InFlight(k) == At(k, "in_flight")
Results(k) == At(k, "result")
Outstanding(k) == Pending(k) \cup InFlight(k)

Overdue(r) == r.age > r.limit
TotalBytes(k, S) == MapThenSumSet(LAMBDA c : k[c].bytes, S)

\* The n commands of S that were created first.
Oldest(S, n) == {c \in S : Cardinality({d \in S : d < c}) < n}

-----------------------------------------------------------------------------
(* _store_result.  A result that cannot be encoded, is larger than one      *)
(* result may be, or does not fit beside what is retained and reserved is   *)
(* replaced by a bounded failure.                                           *)

Encoded(label, bytes) ==
  CASE bytes = Unencodable    -> [outcome |-> "invalid", bytes |-> FailureBytes]
    [] bytes > MaxResultBytes -> [outcome |-> "too_large", bytes |-> FailureBytes]
    [] OTHER                  -> [outcome |-> label, bytes |-> bytes]

Stored(label, bytes, held, outstanding) ==
  LET r == Encoded(label, bytes)
  IN  IF held + r.bytes + outstanding * Reservation > MaxRetainedBytes
      THEN [outcome |-> "capacity", bytes |-> FailureBytes]
      ELSE r

ResultOf(s) == [place |-> "result", age |-> 0, limit |-> ResultTtl, lease |-> 0,
                outcome |-> s.outcome, bytes |-> s.bytes]

\* The members of S stored before c when the gateway fails all of S: pending
\* commands first, then claimed ones, each in order of creation.
StoredBefore(k, c, S) ==
  {d \in S : \/ k[d].place = "pending" /\ k[c].place = "in_flight"
             \/ k[d].place = k[c].place /\ d < c}

\* The loop that stores a failure for every command of S.  left[c] is what
\* _outstanding_count returns while the failure of c is being stored.
FailAll(k, S, label, held, left) ==
  [c \in Commands |->
     IF c \in S
     THEN ResultOf(Stored(label, FailureBytes,
                          held + FailureBytes * Cardinality(StoredBefore(k, c, S)),
                          left[c]))
     ELSE k[c]]

-----------------------------------------------------------------------------
(* _maintain: _prune_expired_results, then _expire_timed_out. *)

Expired == {c \in Results(cmd) : Overdue(cmd[c])}
Pruned == [c \in Commands |-> IF c \in Expired THEN Gone ELSE cmd[c]]

\* Variation: pruning forgets to give the bytes back.
PrunedBytesKept == retained

PrunedBytes == retained - TotalBytes(cmd, Expired)

\* Variation: only commands waiting to be claimed time out.
TimedOutPending == {c \in Pending(cmd) : Overdue(cmd[c])}

TimedOut == {c \in Outstanding(cmd) : Overdue(cmd[c])}

\* A pending command still counts as outstanding while its timeout is stored
\* (the deque is replaced after the loop); a claimed one has been popped.
LeftAtTimeout(c) ==
  IF cmd[c].place = "pending"
  THEN Cardinality(Outstanding(cmd))
  ELSE Cardinality(Outstanding(cmd))
         - Cardinality(StoredBefore(cmd, c, TimedOut)) - 1

Maintained ==
  FailAll(Pruned, TimedOut, "timeout", PrunedBytes,
          [c \in TimedOut |-> LeftAtTimeout(c)])
MaintainedBytes == PrunedBytes + FailureBytes * Cardinality(TimedOut)

Maintain == cmd' = Maintained /\ retained' = MaintainedBytes

-----------------------------------------------------------------------------
(* Ownership. *)

HeartbeatStale == heartbeatAge > OwnerStaleAfter

\* _owner_is_stale: a heartbeat may be late while now < busy_until.
OwnerIsStale == owner # NoOwner /\ HeartbeatStale /\ busyLeft = 0

\* _require_owner: the caller presents its id, lease token and generation.
RequireOwner(o, g) == owner # NoOwner /\ owner = o /\ generation = g

\* Variations of the takeover: it forgets the claimed commands, or it hands
\* them to the next bridge.
FailWaitingOnly ==
  LET S == Pending(cmd)
  IN  /\ cmd' = FailAll(cmd, S, "owner_replaced", retained, [c \in S |-> 0])
      /\ retained' = retained + FailureBytes * Cardinality(S)

RequeueClaimed ==
  /\ cmd' = [c \in Commands |->
               IF c \in InFlight(cmd) THEN Queued(cmd[c].limit) ELSE cmd[c]]
  /\ UNCHANGED retained

\* _fail_commands_for_replaced_owner clears both collections first.
FailForReplacedOwner ==
  LET S == Outstanding(cmd)
  IN  /\ cmd' = FailAll(cmd, S, "owner_replaced", retained, [c \in S |-> 0])
      /\ retained' = retained + FailureBytes * Cardinality(S)

\* Variation: another bridge is refused even when the owner is stale.
RegisterOwnerNoTakeover(o) ==
  /\ \/ /\ owner = o
        /\ UNCHANGED <<owner, generation, cmd, retained>>
     \/ /\ owner = NoOwner
        /\ generation < MaxGeneration
        /\ owner' = o
        /\ generation' = generation + 1
        /\ UNCHANGED <<cmd, retained>>
  /\ heartbeatAge' = 0
  /\ UNCHANGED busyLeft

\* register_owner.  A different owner is refused while the current one is
\* fresh; the same fresh owner keeps its lease; every other registration
\* issues the next generation.
RegisterOwner(o) ==
  /\ \/ /\ owner = o /\ ~OwnerIsStale
        /\ UNCHANGED <<owner, generation, cmd, retained>>
     \/ /\ owner = NoOwner
        /\ generation < MaxGeneration
        /\ owner' = o
        /\ generation' = generation + 1
        /\ UNCHANGED <<cmd, retained>>
     \/ /\ OwnerIsStale
        /\ generation < MaxGeneration
        /\ owner' = o
        /\ generation' = generation + 1
        /\ FailForReplacedOwner
  /\ heartbeatAge' = 0
  /\ UNCHANGED busyLeft

\* heartbeat and validate_owner: no maintenance.
Heartbeat(o, g) ==
  /\ RequireOwner(o, g)
  /\ heartbeatAge' = 0
  /\ UNCHANGED <<owner, generation, busyLeft, cmd, retained>>

\* extend_busy_until takes the later of the two deadlines; nothing else ever
\* writes busy_until.
BusyExtended(seconds) == IF seconds > busyLeft THEN seconds ELSE busyLeft

ExtendBusyUntil(seconds) ==
  /\ busyLeft' = BusyExtended(seconds)
  /\ UNCHANGED <<owner, generation, heartbeatAge, cmd, retained>>

-----------------------------------------------------------------------------
(* Commands. *)

\* Variations of the capacity test: it does not count the results that
\* outstanding commands will need, or not the bytes of the new one.
HasCapacityNow(k, held) ==
  LET outstanding == Cardinality(Outstanding(k))
  IN  /\ outstanding < MaxOutstanding
      /\ Cardinality(Results(k)) < MaxRetainedResults
      /\ held + (outstanding + 1) * Reservation <= MaxRetainedBytes

HasCapacityWithoutOwn(k, held) ==
  LET outstanding == Cardinality(Outstanding(k))
  IN  /\ outstanding < MaxOutstanding
      /\ Cardinality(Results(k)) + outstanding < MaxRetainedResults
      /\ held + outstanding * Reservation <= MaxRetainedBytes

\* The capacity test of enqueue: a slot and a byte reservation must be left
\* for the terminal result of every accepted command.
HasCapacity(k, held) ==
  LET outstanding == Cardinality(Outstanding(k))
  IN  /\ outstanding < MaxOutstanding
      /\ Cardinality(Results(k)) + outstanding < MaxRetainedResults
      /\ held + (outstanding + 1) * Reservation <= MaxRetainedBytes

IsNext(c) == cmd[c].place = "unborn" /\ \A d \in Commands : d < c => cmd[d].place # "unborn"

Enqueue(c, timeout) ==
  /\ IsNext(c)
  /\ HasCapacity(Maintained, MaintainedBytes)
  /\ cmd' = [Maintained EXCEPT ![c] = Queued(timeout)]
  /\ retained' = MaintainedBytes
  /\ UNCHANGED leaseVars

\* poll: maintenance comes before the owner check, so an unauthorised poll
\* still maintains (see Observe).
Poll(o, g, limit) ==
  /\ RequireOwner(o, g)
  /\ heartbeatAge' = 0
  /\ LET claimed == Oldest(Pending(Maintained), limit)
     IN  cmd' = [c \in Commands |->
                   IF c \in claimed
                   THEN [Maintained[c] EXCEPT !.place = "in_flight", !.age = 0,
                                              !.lease = generation]
                   ELSE Maintained[c]]
  /\ retained' = MaintainedBytes
  /\ UNCHANGED <<owner, generation, busyLeft>>

\* Variation: post_result accepts an answer without maintaining first.
PostResultBeforeMaintenance(o, g, c, bytes) ==
  /\ RequireOwner(o, g)
  /\ heartbeatAge' = 0
  /\ cmd[c].place = "in_flight" /\ cmd[c].lease = generation
  /\ LET s == Stored("answered", bytes, retained, Cardinality(Outstanding(cmd)) - 1)
     IN  /\ cmd' = [cmd EXCEPT ![c] = ResultOf(s)]
         /\ retained' = retained + s.bytes
  /\ UNCHANGED <<owner, generation, busyLeft>>

\* post_result by the current owner.  The answer is refused, after the
\* heartbeat, unless that generation still has the command in flight.
PostResult(o, g, c, bytes) ==
  /\ RequireOwner(o, g)
  /\ heartbeatAge' = 0
  /\ IF Maintained[c].place = "in_flight" /\ Maintained[c].lease = generation
     THEN LET s == Stored("answered", bytes, MaintainedBytes,
                          Cardinality(Outstanding(Maintained)) - 1)
          IN  /\ cmd' = [Maintained EXCEPT ![c] = ResultOf(s)]
              /\ retained' = MaintainedBytes + s.bytes
     ELSE Maintain
  /\ UNCHANGED <<owner, generation, busyLeft>>

\* take_result: a client removes its result.
TakeResult(c) ==
  /\ Maintained[c].place = "result"
  /\ cmd' = [Maintained EXCEPT ![c] = Gone]
  /\ retained' = MaintainedBytes - Maintained[c].bytes
  /\ UNCHANGED leaseVars

\* result_for, command_state, health, expire_timed_out, and the calls that
\* are refused after maintenance: a full enqueue, a poll or result from a
\* caller that is not the owner, take_result of an absent result.
Observe == Maintain /\ UNCHANGED leaseVars

\* One unit of the clock.
Aged(r) ==
  IF r.place \in {"pending", "in_flight", "result"} /\ ~Overdue(r)
  THEN [r EXCEPT !.age = @ + 1]
  ELSE r

Tick ==
  /\ cmd' = [c \in Commands |-> Aged(cmd[c])]
  /\ heartbeatAge' = IF HeartbeatStale \/ owner = NoOwner
                     THEN heartbeatAge ELSE heartbeatAge + 1
  /\ busyLeft' = IF busyLeft > 0 THEN busyLeft - 1 ELSE 0
  /\ UNCHANGED <<owner, generation, retained>>

-----------------------------------------------------------------------------
Init ==
  /\ owner = NoOwner
  /\ generation = 0
  /\ heartbeatAge = 0
  /\ busyLeft = 0
  /\ cmd = [c \in Commands |-> Unborn]
  /\ retained = 0

Next ==
  \/ \E o \in Owners : RegisterOwner(o)
  \/ \E o \in Owners, g \in 1..MaxGeneration :
       \/ Heartbeat(o, g)
       \/ \E limit \in 1..MaxPollLimit : Poll(o, g, limit)
       \/ \E c \in Commands, bytes \in AnswerBytes \cup {Unencodable} :
            PostResult(o, g, c, bytes)
  \/ \E seconds \in BusyGrants : ExtendBusyUntil(seconds)
  \/ \E c \in Commands :
       \/ \E timeout \in Timeouts : Enqueue(c, timeout)
       \/ TakeResult(c)
  \/ Observe
  \/ Tick

Spec == Init /\ [][Next]_vars

-----------------------------------------------------------------------------
(* What the gateway promises. *)

\* The types of the state.  There is an owner exactly when a lease has been
\* issued.  LedgerExact says what retained is.
TypeOK ==
  /\ owner \in Owners \cup {NoOwner}
  /\ generation \in Nat
  /\ owner = NoOwner <=> generation = 0
  /\ heartbeatAge \in Nat
  /\ busyLeft \in Nat
  /\ cmd \in [Commands -> Command]

\* Admission control of enqueue is enough for the whole life of a command:
\* whatever order of claims, timeouts, replacements and answers follows,
\* every outstanding command still has a result slot of its own.
SlotsReserved ==
  /\ Cardinality(Outstanding(cmd)) <= MaxOutstanding
  /\ Cardinality(Outstanding(cmd)) + Cardinality(Results(cmd)) <= MaxRetainedResults

\* ... and the bytes of a bounded failure, so a timeout or an owner
\* replacement can always be recorded within max_retained_result_bytes.
BytesReserved ==
  retained + Cardinality(Outstanding(cmd)) * Reservation <= MaxRetainedBytes

\* The running total _retained_result_bytes never drifts from the results it
\* is the total of, over prunes, takes, timeouts and substituted failures.
LedgerExact == retained = TotalBytes(cmd, Results(cmd))

\* Every command in flight was claimed under the lease in force: after a
\* takeover no work of the old bridge is left to be answered by either.
ClaimsAreFenced == \A c \in InFlight(cmd) : cmd[c].lease = generation /\ owner # NoOwner

\* A terminal result is final: it stays as recorded until it expires or is
\* taken, and a late answer or a second timeout never replaces it.
TerminalIsFinal ==
  [][\A c \in Commands :
       /\ cmd[c].place = "result" =>
            \/ cmd'[c].place = "gone"
            \/ /\ cmd'[c].place = "result"
               /\ cmd'[c].outcome = cmd[c].outcome
               /\ cmd'[c].bytes = cmd[c].bytes
       /\ cmd[c].place = "gone" => cmd'[c].place = "gone"]_vars

\* The bridge's answer is recorded only for the lease that claimed the
\* command and only within the timeout counted from the claim: the
\* maintenance that post_result runs first beats an answer that comes late.
AnswersAreTimely ==
  [][\A c \in Commands :
       cmd[c].place # "result" /\ cmd'[c].place = "result" /\ cmd'[c].outcome = "answered" =>
         /\ cmd[c].place = "in_flight"
         /\ cmd[c].lease = generation'
         /\ ~Overdue(cmd[c])]_vars

\* poll never hands out a command whose timeout has passed: the client may
\* already have been told that it failed.
ClaimsAreTimely ==
  [][\A c \in Commands :
       cmd[c].place = "pending" /\ cmd'[c].place = "in_flight" => ~Overdue(cmd[c])]_vars

\* A lease that replaces another starts with nothing outstanding: what was
\* queued or claimed has been failed, also when the same bridge comes back
\* late.  (Commands queued before the first bridge ever registers are kept.)
NewLeaseStartsEmpty ==
  [][generation > 0 /\ generation' # generation => Outstanding(cmd') = {}]_vars

\* Every accepted command reaches a terminal result, whatever the bridge
\* does, and that result is taken or dropped after its TTL: the slot and the
\* bytes of a command come back also when its client gave up waiting.
Settles ==
  \A c \in Commands : c \in Outstanding(cmd) ~> cmd[c].place = "gone"

-----------------------------------------------------------------------------
(* The gateway implements QmtCommandService. *)

PhaseOf(r) ==
  CASE r.place = "unborn"    -> "unborn"
    [] r.place = "pending"   -> "queued"
    [] r.place = "in_flight" -> "claimed"
    [] r.place = "result"    -> "settled"
    [] OTHER                 -> "dropped"

VerdictOf(r) ==
  CASE r.outcome = "none"     -> "none"
    [] r.outcome = "answered" -> "answered"
    [] OTHER                  -> "failed"

Service ==
  INSTANCE QmtCommandService WITH
    phase   <- [c \in Commands |-> PhaseOf(cmd[c])],
    holder  <- [c \in Commands |-> cmd[c].lease],
    verdict <- [c \in Commands |-> VerdictOf(cmd[c])],
    lease   <- generation

\* Whatever the order of polls, answers, timeouts and takeovers, a client
\* sees each command go once through queued, claimed, settled and dropped,
\* and an answer only from the lease that claimed it.
ImplementsService == Service!Spec
=============================================================================
