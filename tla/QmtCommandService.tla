-------------------------- MODULE QmtCommandService --------------------------
(***************************************************************************)
(* What the QMT command gateway promises its clients and bridges, without  *)
(* clocks, byte budgets or queues: every command moves one way through     *)
(* queued, claimed, settled and dropped; it is claimed by one lease, is    *)
(* answered only by the lease that claimed it, and settles once.  A lease  *)
(* that replaces another fails everything that is not settled.             *)
(*                                                                         *)
(* QmtCommandGateway implements this specification (see the mapping        *)
(* there).                                                                 *)
(***************************************************************************)
EXTENDS Integers

CONSTANTS Commands     \* names of the commands that can be accepted

VARIABLES
  phase,    \* where each command is in its life
  holder,   \* the lease that claimed it, 0 when no lease holds it
  verdict,  \* how it settled: "answered" or "failed"; "none" before
  lease     \* the lease in force, 0 before the first

svars == <<phase, holder, verdict, lease>>

Phases == {"unborn", "queued", "claimed", "settled", "dropped"}
Verdicts == {"none", "answered", "failed"}

Become(c, p, h, v) == phase'[c] = p /\ holder'[c] = h /\ verdict'[c] = v

Keep(c) == Become(c, phase[c], holder[c], verdict[c])
Accept(c) == phase[c] = "unborn" /\ Become(c, "queued", 0, "none")
Claim(c) == phase[c] = "queued" /\ lease # 0 /\ Become(c, "claimed", lease, "none")
Answer(c) == phase[c] = "claimed" /\ holder[c] = lease /\ Become(c, "settled", 0, "answered")
Fail(c) == phase[c] \in {"queued", "claimed"} /\ Become(c, "settled", 0, "failed")
Drop(c) == phase[c] = "settled" /\ Become(c, "dropped", 0, "none")

\* A client that asks at the moment of the timeout gets the failure and
\* removes it in the same call.
FailAndDrop(c) == phase[c] \in {"queued", "claimed"} /\ Become(c, "dropped", 0, "none")

Typed ==
  /\ phase' \in [Commands -> Phases]
  /\ holder' \in [Commands -> Int]
  /\ verdict' \in [Commands -> Verdicts]

\* Any call: the time that has passed may fail or drop any number of
\* commands, a poll claims some, but at most one is accepted or answered.
Serve ==
  /\ Typed
  /\ lease' = lease
  /\ \E one \in SUBSET Commands :
       /\ \A a, b \in one : a = b
       /\ \A c \in one : Accept(c) \/ Answer(c) \/ FailAndDrop(c)
       /\ \A c \in Commands \ one : Keep(c) \/ Claim(c) \/ Fail(c) \/ Drop(c)

\* The first lease finds the queue as it is; a later one fails what is
\* outstanding and leaves the rest alone.
NewLease ==
  /\ Typed
  /\ lease' = lease + 1
  /\ \A c \in Commands :
       IF lease > 0 /\ phase[c] \in {"queued", "claimed"} THEN Fail(c) ELSE Keep(c)

Init ==
  /\ phase = [c \in Commands |-> "unborn"]
  /\ holder = [c \in Commands |-> 0]
  /\ verdict = [c \in Commands |-> "none"]
  /\ lease = 0

Next == Serve \/ NewLease

Spec == Init /\ [][Next]_svars
=============================================================================
