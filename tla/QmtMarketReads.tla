--------------------------- MODULE QmtMarketReads ---------------------------
(***************************************************************************)
(* Historical bars of the QMT datasource: the HTTP routes in front of the  *)
(* command gateway (qmt/routes/bridge.py, qmt/routes/v1/product.py) and    *)
(* the reads that wait on it (src/datasource/qmt/operations/market.py).    *)
(*                                                                         *)
(* A read is one coroutine: it looks at the owner and queues its command   *)
(* in one step, then looks for the result every 50 ms until its deadline,  *)
(* and once more after it.  Other clients queue commands of their own and  *)
(* only look at the results, the bridge polls and answers, and reads take  *)
(* theirs away, all in any order.  Downloads, the only ones to open a busy *)
(* window, are QmtHistoryDownload.                                         *)
(*                                                                         *)
(* Room is reserved for the failure of a command and not for its answer: a *)
(* reservation is 1,024 bytes, the bars of one answer may have 8 MiB.  So  *)
(* an answer may have any size up to the limit of one result, and bars     *)
(* that come in time may still find the results of others in their place.  *)
(***************************************************************************)
EXTENDS QmtCommandGateway

CONSTANTS
  Reads,           \* requests to /v1/bars/query
  BarsTimeout,     \* bridge_timeout_seconds
  AnswerSizes      \* encoded sizes of the answers that are not too big

\* The timeout and the answers of reads are among those the gateway serves.
\* Nothing relates the size of an answer to a reservation.
ASSUME ReadAssumption ==
  /\ IsFiniteSet(Reads)
  /\ BarsTimeout \in Timeouts
  /\ AnswerSizes \subseteq 1..MaxResultBytes
  /\ AnswerSizes \cup {MaxResultBytes + 1} \subseteq AnswerBytes

VARIABLES
  read,      \* the coroutine of every request
  answer     \* history: the bars the bridge posted for each command in time

readVars == <<read, answer>>
allVars == <<vars, readVars>>

NoCommand == 0

\* left counts down to the deadline of the wait.
Phases == {"idle", "waiting", "bars", "refused", "failed", "timeout"}
EndPhases == Phases \ {"idle", "waiting"}

-----------------------------------------------------------------------------
(* What the bridge makes of get_market_data_ex. *)

\* Bars; bars with a measure that has no meaning on some bar (NaN); no bars:
\* an answer that is not ok because the native call raised, a value that is no
\* mapping, or one with a volume that no decimal can hold; more than one
\* result may be.
NativeAnswers == {"rows", "missing_measures", "no_bars", "too_big"}
Bars == {"rows", "missing_measures"}

\* Variation: the route hands NaN to the gateway.
EncodingWithNaN(a, size) ==
  CASE a = "missing_measures" -> Unencodable
    [] a = "too_big"          -> MaxResultBytes + 1
    [] OTHER                  -> size

\* The route replaces NaN by null before the gateway encodes the answer.
Encoding(a, size) == IF a = "too_big" THEN MaxResultBytes + 1 ELSE size

\* Bars that came in time, the size of their encoding, and whether the results
\* nobody has taken yet and the reservations of the other commands left room
\* for them.
Answer == [bars : BOOLEAN, size : Nat, room : BOOLEAN]
NoAnswer == [bars |-> FALSE, size |-> 0, room |-> FALSE]

HasRoom(size) ==
  TotalBytes(Maintained, Results(Maintained)) + size
    + (Cardinality(Outstanding(Maintained)) - 1) * Reservation <= MaxRetainedBytes

-----------------------------------------------------------------------------
(* The routes of the bridge and of other clients. *)

Route(action) == action /\ UNCHANGED readVars

\* The route also lets the subscription controller try to unlock, which is
\* part of QmtSubscription.
PostOwner(o) == Route(RegisterOwner(o))

PollCommands(o, g, limit) == Route(Poll(o, g, limit))

PostAnswer(o, g, c, a, size) ==
  /\ PostResult(o, g, c, Encoding(a, size))
  /\ answer' = IF a \in Bars /\ Maintained[c].place = "in_flight" /\ Maintained[c].lease = g
               THEN [answer EXCEPT ![c] = [bars |-> TRUE, size |-> size, room |-> HasRoom(size)]]
               ELSE answer
  /\ UNCHANGED read

PostCommand(c, timeout) == Route(Enqueue(c, timeout))

\* get_command_result leaves the result where it is: nobody but a read or a
\* download takes one.
GetCommandResult == Route(Observe)

-----------------------------------------------------------------------------
(* A read. *)

\* _resolve_bridge_result: a result that is not ok, and one the bars cannot be
\* read from, raise a QmtBridgeError.
Resolved(c) ==
  IF Maintained[c].outcome = "answered" /\ answer[c].bars THEN "bars" ELSE "failed"

Becomes(r, phase) == read' = [read EXCEPT ![r].phase = phase]

\* get_bars up to its wait: a missing or stale owner and a full gateway are
\* refused at once.  health maintains before it looks at the owner.
QueryBars(r) ==
  /\ read[r].phase = "idle"
  /\ IF owner = NoOwner \/ OwnerIsStale \/ ~HasCapacity(Maintained, MaintainedBytes)
     THEN Observe /\ Becomes(r, "refused")
     ELSE \E c \in Commands :
            /\ Enqueue(c, BarsTimeout)
            /\ read' = [read EXCEPT ![r] =
                          [phase |-> "waiting", command |-> c, left |-> BarsTimeout]]
  /\ UNCHANGED answer

\* One round of the wait.  After the deadline the result is looked for one
\* last time.
AwaitBars(r) ==
  LET c == read[r].command
  IN  /\ read[r].phase = "waiting"
      /\ \/ TakeResult(c) /\ Becomes(r, Resolved(c))
         \/ /\ Maintained[c].place # "result"
            /\ Observe
            /\ IF read[r].left > 0 THEN UNCHANGED read ELSE Becomes(r, "timeout")
      /\ UNCHANGED answer

\* Variation: every round of the wait has the whole timeout again.
TimeLeftAnew(r) == read[r].left

TimeLeft(r) ==
  IF read[r].phase = "waiting" /\ read[r].left > 0 THEN read[r].left - 1 ELSE read[r].left

ReadTick ==
  /\ Tick
  /\ read' = [r \in Reads |-> [read[r] EXCEPT !.left = TimeLeft(r)]]
  /\ UNCHANGED answer

-----------------------------------------------------------------------------
ReadInit ==
  /\ Init
  /\ read = [r \in Reads |-> [phase |-> "idle", command |-> NoCommand, left |-> 0]]
  /\ answer = [c \in Commands |-> NoAnswer]

ReadNext ==
  \/ \E o \in Owners : PostOwner(o)
  \/ \E o \in Owners, g \in 1..MaxGeneration :
       \/ Route(Heartbeat(o, g))
       \/ \E limit \in 1..MaxPollLimit : PollCommands(o, g, limit)
       \/ \E c \in Commands, a \in NativeAnswers, size \in AnswerSizes :
            PostAnswer(o, g, c, a, size)
  \/ \E c \in Commands, timeout \in Timeouts : PostCommand(c, timeout)
  \/ GetCommandResult
  \/ \E r \in Reads : QueryBars(r) \/ AwaitBars(r)
  \/ ReadTick

ReadSpec == ReadInit /\ [][ReadNext]_allVars

\* The clock advances, the event loop resumes a coroutine that is due, and
\* something keeps calling the gateway: every poll of a bridge, authorised or
\* not, and every look at the health of the bridge maintains first.
FairReadSpec ==
  /\ ReadSpec
  /\ WF_allVars(ReadTick)
  /\ WF_allVars(GetCommandResult)
  /\ \A r \in Reads : WF_allVars(AwaitBars(r))

-----------------------------------------------------------------------------
\* A read that was queued ends, whatever the bridge does: with bars, with an
\* error of its command or with its own timeout.
ReadsEnd == \A r \in Reads : read[r].phase = "waiting" ~> read[r].phase \in EndPhases

\* A read shows what the bridge answered to its very own command.  It has
\* bars only when bars came in time and found room.  It fails only when no
\* bars came in time, or when bars larger than a reservation found that the
\* results of others had taken the room they needed
\* (QMT_COMMAND_RESULT_CAPACITY_EXCEEDED): neither a late answer, nor a
\* takeover, nor a gap in a measure costs a read its bars, and bars that fit
\* a reservation are never crowded out.
ReadsShowTheAnswer ==
  \A r \in Reads :
    LET a == answer[read[r].command]
    IN  /\ read[r].phase = "bars" => a.bars /\ a.room
        /\ read[r].phase = "failed" =>
             \/ ~a.bars
             \/ ~a.room /\ a.size > Reservation
=============================================================================
