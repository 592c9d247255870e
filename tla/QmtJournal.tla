------------------------------ MODULE QmtJournal ------------------------------
(***************************************************************************)
(* The files of the QMT service's subscription journal                     *)
(* (src/datasource/qmt/realtime/subscription.py, class                     *)
(* QmtSubscriptionJournal): an active file that takes one record at a      *)
(* time, the archives it is rotated into, and the checkpoints that replace *)
(* archives in which nothing is left open.  A step is one durable change   *)
(* of the directory; the process may stop between any two of them, and in  *)
(* the middle of a record.                                                 *)
(*                                                                         *)
(* A file is the sequence of its lines, and the hash of a line is the      *)
(* number of lines that were written before it, which no other line has.   *)
(* Left out are the folds of old checkpoints, which no decision reads, and *)
(* the checksum file beside an archive: a start reads it (_load_tail), but *)
(* it is written whole, from an archive nobody changes any more, so the    *)
(* comparison cannot fail.  Sizes are counted in records: the files that   *)
(* hold none (checkpoints, catalog, manifest, marker, checksums, leftovers *)
(* of atomic writes) count as nothing, though the code adds them to the    *)
(* bytes it limits.  A write that fails leaves what a crash leaves, and a  *)
(* journal that refuses every record until the restart.                    *)
(***************************************************************************)
EXTENDS QmtJournalRecords

CONSTANTS
  RotateRecords,   \* rotate_bytes
  MaxTotal,        \* archive_max_bytes
  MaxRecords,      \* bound of the model: lines ever written
  MaxCrashes       \* bound of the model: stops of the process

\* The bounds __init__ insists on: a file holds an anchor and a record.
ASSUME JournalAssumption ==
  /\ RotateRecords \in Nat \ {0, 1}
  /\ MaxTotal \in Nat /\ MaxTotal >= 2 * RotateRecords
  /\ MaxRecords \in Nat /\ MaxCrashes \in Nat

VARIABLES
  disk,      \* the directory
  run,       \* the process: its state, the step it is at, sequence and hash
  caller,    \* the controller: calls made, records to write, what it recovers
  history,   \* every record that became durable, in order
  crashes

vars == <<disk, run, caller, history, crashes>>

Line(seq, prev, record) ==
  [seq |-> seq, prev |-> prev, hash |-> Len(history) + 1, record |-> record]
Records(lines) == [i \in DOMAIN lines |-> lines[i].record]
Anchor == Record("rotation_anchor", 0, "none", 0, {})

\* An archive is named by its lines, a checkpoint by the lines it covers; <<>>
\* is a file that is absent or empty.
NoMarker == [phase |-> "none", checkpoint |-> 0, sources |-> {}]
NoCheckpoint == [last |-> 0, hash |-> 0]
Name(lines) == Last(lines).seq

Files(d) == Append(d.archives, d.active)
Lines(d) == FlattenSeq(Files(d))
Total(d) == Len(Lines(d)) + Len(d.rotating)
Latest(d) == IF d.checkpoints = <<>> THEN NoCheckpoint ELSE Last(d.checkpoints)

-----------------------------------------------------------------------------
(* Which archives have nothing open: _resolved_archive_prefix. *)

Unscanned == [pending |-> {}, awaiting |-> <<>>, open |-> {}]

\* The oldest call of the method that waits for its transition; a cancel has
\* to be about the same subscription.
Consumed(awaiting, method, id) ==
  LET i == SelectInSeq(awaiting, LAMBDA c : c.method = method /\ (method = "cancel" => c.id = id))
  IN  IF i = 0 THEN awaiting ELSE RemoveAt(awaiting, i)

\* A dictionary keeps the place of a key that is set again.
Awaited(awaiting, call) ==
  LET i == SelectInSeq(awaiting, LAMBDA c : c.seq = call.seq)
  IN  IF i = 0 THEN Append(awaiting, call) ELSE [awaiting EXCEPT ![i] = call]

ScannedRecord(s, r) ==
  CASE r.kind = "native_intent" ->
         [s EXCEPT !.pending = {p \in @ : p.seq # r.seq} \cup
                                 {[seq |-> r.seq, method |-> r.what, id |-> r.id]}]
    [] r.kind = "native_result" /\ \E p \in s.pending : p.seq = r.seq ->
         LET call == CHOOSE p \in s.pending : p.seq = r.seq
         IN  [s EXCEPT !.pending = @ \ {call},
                       !.awaiting = IF r.what = "failure" THEN @ ELSE Awaited(@, call)]
    [] r.kind = "registry_transition" /\ r.what = "unsubscribed" ->
         [s EXCEPT !.open = @ \ {Handle(r.id, r.about)},
                   !.awaiting = Consumed(@, "cancel", r.id)]
    [] r.kind = "registry_transition" /\ r.what # "unsubscribed" ->
         [s EXCEPT !.open = @ \cup {Handle(r.id, r.about)},
                   !.awaiting = Consumed(@, r.what, r.id)]
    [] r.kind = "operator_observation" /\ r.what = "qmt_context_rebuilt" -> Unscanned
    [] OTHER -> s

Closed(s) == s.pending = {} /\ s.awaiting = <<>> /\ s.open = {}

\* How many of the oldest archives may be replaced.
Prefix(archives, n) == FlattenSeq(SubSeq(archives, 1, n))
Compactable(archives) ==
  Max({0} \cup {n \in DOMAIN archives :
                  Closed(FoldLeft(ScannedRecord, Unscanned, Records(Prefix(archives, n))))})

-----------------------------------------------------------------------------
(* append, _ensure_capacity, _rotate, _compact_resolved_archives. *)

At(step) == run.status = "up" /\ run.at = step
GoesTo(step) == run' = [run EXCEPT !.at = step]
Keeps == UNCHANGED <<caller, history, crashes>>

\* What is next for a record once nothing more can be compacted.
\* Variation: the limit is not looked at again.
RoomAfterCompaction(d) ==
  IF d.active # <<>> /\ Len(d.active) + 1 > RotateRecords THEN "rotate" ELSE "write"
Room(d) ==
  IF Total(d) + 1 > MaxTotal \/ d.rotating # <<>> THEN "refused"
  ELSE IF d.active # <<>> /\ Len(d.active) + 1 > RotateRecords THEN "rotate"
  ELSE "write"

\* A journal that refuses a record is unhealthy and takes no other.
Proceeds(r, d) ==
  IF Room(d) = "refused" THEN [r EXCEPT !.status = "unhealthy", !.at = "idle"]
  ELSE [r EXCEPT !.at = Room(d)]

BeginAppend ==
  /\ At("idle") /\ caller.script # <<>>
  /\ LET r == [run EXCEPT !.built = Line(run.seq + 1, run.hash, Head(caller.script))]
     IN  run' = IF Total(disk) + 1 > MaxTotal /\ Compactable(disk.archives) > 0
                THEN [r EXCEPT !.at = "compact"] ELSE Proceeds(r, disk)
  /\ UNCHANGED disk /\ Keeps

WriteRecord ==
  /\ At("write")
  /\ disk' = [disk EXCEPT !.active = Append(@, run.built)]
  /\ history' = Append(history, run.built.record)
  /\ run' = [run EXCEPT !.seq = run.built.seq, !.hash = run.built.hash, !.at = "idle"]
  /\ caller' = [caller EXCEPT !.script = Tail(@)]
  /\ UNCHANGED crashes

RotateActive ==
  /\ At("rotate")
  /\ disk' = [disk EXCEPT !.rotating = disk.active, !.active = <<>>]
  /\ GoesTo("rotating") /\ Keeps

RotateArchive ==
  /\ At("rotating")
  /\ disk' = [disk EXCEPT !.archives = Append(@, disk.rotating), !.rotating = <<>>]
  /\ GoesTo("archived") /\ Keeps

PublishManifest ==
  /\ At("archived")
  /\ disk' = [disk EXCEPT !.manifest = Name(Last(disk.archives))]
  /\ GoesTo("manifested") /\ Keeps

\* The record is built again behind the anchor.
WriteAnchor ==
  LET anchor == Line(run.seq + 1, run.hash, Anchor)
  IN  /\ At("manifested")
      /\ disk' = [disk EXCEPT !.active = <<anchor>>]
      /\ history' = Append(history, Anchor)
      /\ run' = [run EXCEPT
           !.seq = anchor.seq, !.hash = anchor.hash, !.at = "write",
           !.built = [seq |-> anchor.seq + 1, prev |-> anchor.hash,
                      hash |-> anchor.hash + 1, record |-> run.built.record]]
      /\ UNCHANGED <<caller, crashes>>

\* The sources of a compaction that runs, and its checkpoint.
Sources == {Name(a) : a \in ToSet(SubSeq(disk.archives, 1, Compactable(disk.archives)))}
Marks(phase) == disk' = [disk EXCEPT !.marker.phase = phase]

PrepareCompaction ==
  /\ At("compact")
  /\ disk' = [disk EXCEPT !.marker = [phase |-> "prepared", checkpoint |-> Max(Sources),
                                      sources |-> Sources]]
  /\ GoesTo("prepared") /\ Keeps

WriteCheckpoint ==
  LET source == CHOOSE a \in ToSet(disk.archives) : Name(a) = disk.marker.checkpoint
  IN  /\ At("prepared")
      /\ disk' = [disk EXCEPT !.checkpoints =
                    Append(@, [last |-> Name(source), hash |-> Last(source).hash])]
      /\ GoesTo("checkpointed") /\ Keeps

MarkCheckpoint == At("checkpointed") /\ Marks("checkpoint_published") /\ GoesTo("published") /\ Keeps

PublishCatalog ==
  /\ At("published")
  /\ disk' = [disk EXCEPT !.catalog = disk.marker.checkpoint]
  /\ GoesTo("cataloged") /\ Keeps

MarkManifest == At("cataloged") /\ Marks("manifest_published") /\ GoesTo("retiring") /\ Keeps

\* The sources go one by one, the oldest first.
\* Variation: every archive goes.
Retired(d) == [d EXCEPT !.archives = Tail(@)]
HasArchive(d) == d.archives # <<>>
IsSource(d) == d.archives # <<>> /\ Name(Head(d.archives)) \in d.marker.sources

RetireSource ==
  /\ At("retiring")
  /\ IF IsSource(disk) THEN disk' = Retired(disk) /\ UNCHANGED run
     ELSE Marks("sources_retired") /\ GoesTo("retired")
  /\ Keeps

\* The last step of a compaction.
FinishCompaction ==
  /\ At("retired")
  /\ disk' = [disk EXCEPT !.marker = NoMarker]
  /\ GoesTo("fold") /\ Keeps

\* _fold_expired_checkpoints: the oldest checkpoints may have expired, never
\* the latest.
FoldCheckpoint ==
  /\ At("fold")
  /\ \/ /\ Len(disk.checkpoints) > 1
        /\ disk' = [disk EXCEPT !.checkpoints = Tail(@)]
        /\ UNCHANGED run
     \/ UNCHANGED disk /\ run' = Proceeds(run, disk)
  /\ Keeps

-----------------------------------------------------------------------------
(* The start: __init__. *)

Starting(step) == run.status = "starting" /\ run.at = step

\* _recover_interrupted_rotation.
RecoverRotation ==
  /\ Starting("rotation")
  /\ CASE disk.rotating # <<>> /\ disk.active # <<>> ->
            UNCHANGED disk /\ run' = [run EXCEPT !.status = "unreadable"]
       [] disk.rotating # <<>> /\ disk.active = <<>> ->
            /\ disk' = [disk EXCEPT !.active = disk.rotating, !.rotating = <<>>]
            /\ GoesTo("compaction")
       [] disk.rotating = <<>> /\ (disk.active # <<>> \/ disk.archives = <<>>) ->
            UNCHANGED disk /\ GoesTo("compaction")
       [] OTHER ->
            /\ disk' = [disk EXCEPT !.manifest = Name(Last(disk.archives))]
            /\ GoesTo("anchor")
  /\ Keeps

RecoverAnchor ==
  LET last == Last(Last(disk.archives))
  IN  /\ Starting("anchor")
      /\ disk' = [disk EXCEPT !.active = <<Line(last.seq + 1, last.hash, Anchor)>>]
      /\ history' = Append(history, Anchor)
      /\ GoesTo("compaction") /\ UNCHANGED <<caller, crashes>>

\* _recover_interrupted_compaction goes back, while there is no checkpoint, or
\* forward.
\* Variation: back is where it always goes.
HasCheckpoint(d) == \E c \in ToSet(d.checkpoints) : c.last = d.marker.checkpoint
GoesBackAlways(d) == TRUE
GoesBack(d) == d.marker.phase = "prepared" /\ ~HasCheckpoint(d)

RecoverCompaction ==
  /\ Starting("compaction")
  /\ CASE disk.marker = NoMarker -> UNCHANGED disk /\ GoesTo("load")
       [] disk.marker # NoMarker /\ GoesBack(disk) ->
            disk' = [disk EXCEPT !.marker = NoMarker] /\ GoesTo("load")
       [] disk.marker # NoMarker /\ ~GoesBack(disk) /\ ~HasCheckpoint(disk) ->
            UNCHANGED disk /\ run' = [run EXCEPT !.status = "unreadable"]
       [] OTHER -> disk' = [disk EXCEPT !.catalog = disk.marker.checkpoint] /\ GoesTo("sources")
  /\ Keeps

RecoverSources ==
  /\ Starting("sources")
  /\ IF IsSource(disk) THEN disk' = Retired(disk) /\ UNCHANGED run
     ELSE disk' = [disk EXCEPT !.marker = NoMarker] /\ GoesTo("load")
  /\ Keeps

\* _verify_catalog_and_manifest.
Verified(d) ==
  /\ d.archives # <<>> => d.manifest = Name(Last(d.archives))
  /\ d.checkpoints # <<>> => d.catalog = Latest(d).last

\* _load_tail: every line follows the one before it, the first the latest
\* checkpoint, and none is torn.
Chained(d) ==
  \A i \in DOMAIN Lines(d) :
    LET line == Lines(d)[i]
    IN  /\ line.seq = Latest(d).last + i
        /\ line.prev = (IF i = 1 THEN Latest(d).hash ELSE Lines(d)[i - 1].hash)

\* With no file at all the counters stay at zero.
Load ==
  /\ Starting("load")
  /\ IF disk.torn \/ ~Verified(disk) \/ ~Chained(disk)
     THEN run' = [run EXCEPT !.status = "unreadable"] /\ UNCHANGED caller
     ELSE LET tail == IF Lines(disk) = <<>> THEN [seq |-> 0, hash |-> 0] ELSE Last(Lines(disk))
              known == Replay(Records(Lines(disk)))
          IN  /\ run' = [run EXCEPT !.status = "up", !.at = "idle",
                                    !.seq = tail.seq, !.hash = tail.hash]
              /\ caller' = [calls |-> 0, script |-> <<>>,
                            todo |-> {c \in known.candidates : ~c.tried},
                            stuck |-> known.unknown > 0 \/ \E c \in known.candidates : c.tried]
  /\ UNCHANGED <<disk, history, crashes>>

-----------------------------------------------------------------------------
(* Who calls append: the controller, of which QmtSubscription has the        *)
(* details.  Its registry is what a restart would restore (JournalAgrees).   *)

NextId == 1 + Max({0} \cup {r.id : r \in ToSet(history)})
Intent(method, id, about) == Record("native_intent", caller.calls + 1, method, id, about)
Result(says, id) == Record("native_result", caller.calls + 1, says, id, {})
Transition(what, id, about) == Record("registry_transition", 0, what, id, about)

\* A call times out, or is answered with or without success.
Course(script, confirmed) == [script |-> script, confirmed |-> confirmed]
SubscribeCourses(s) ==
  LET intent == Intent("single", 0, {s})
  IN  {Course(<<intent>>, FALSE), Course(<<intent, Result("failure", 0)>>, FALSE),
       Course(<<intent, Result("other", 0)>>, FALSE),
       Course(<<intent, Result("id", NextId), Transition("single", NextId, {s})>>, TRUE)}
CancelCourses(h) ==
  LET intent == Intent("cancel", h.id, h.about)
  IN  {Course(<<intent>>, FALSE), Course(<<intent, Result("failure", 0)>>, FALSE),
       Course(<<intent, Result("other", 0)>>, FALSE),
       Course(<<intent, Result("true", 0), Transition("unsubscribed", h.id, h.about)>>, TRUE)}

\* _attempt_startup_cleanup around a cancel.
CleanupScript(h, c) ==
  LET note(kind, what) == Record(kind, 0, what, h.id, h.about)
      verdict == IF c.confirmed THEN "confirmed" ELSE "unconfirmed"
      n == IF c.confirmed THEN 2 ELSE Len(c.script)
  IN  <<note("recovery_intent", "none")>> \o SubSeq(c.script, 1, n)
        \o <<note("recovery_result", verdict)>>
        \o (IF c.confirmed
            THEN <<Transition("unsubscribed", h.id, h.about), note("recovery_terminal", "confirmed")>>
            ELSE <<>>)

Asks(c) ==
  /\ At("idle") /\ caller.script = <<>> /\ Len(history) < MaxRecords
  /\ caller' = c /\ UNCHANGED <<disk, run, history, crashes>>

Request ==
  /\ caller.todo = {} /\ ~caller.stuck
  /\ \E s \in Symbols :
       LET id == Replay(history).singles[s]
       IN  \E c \in IF id = 0 THEN SubscribeCourses(s) ELSE CancelCourses(Handle(id, {s})) :
             Asks([caller EXCEPT !.script = c.script, !.calls = @ + 1])

Cleanup ==
  \E h \in caller.todo : \E c \in CancelCourses(h) :
    Asks([caller EXCEPT !.script = CleanupScript(h, c), !.calls = @ + 1,
                        !.todo = @ \ {h}, !.stuck = @ \/ ~c.confirmed])

\* The terminal has started anew.
Observe ==
  /\ caller.todo # {} \/ caller.stuck
  /\ Asks([caller EXCEPT !.script = <<Observation>>, !.todo = {}, !.stuck = FALSE])

\* The process stops.  A record that was being written may be on the disk, in
\* part or as a whole.
Crash ==
  /\ run.status \notin {"down", "unreadable"} /\ crashes < MaxCrashes
  /\ crashes' = crashes + 1
  /\ run' = [run EXCEPT !.status = "down"]
  /\ \/ UNCHANGED <<disk, history>>
     \/ At("write") /\ disk' = [disk EXCEPT !.torn = TRUE] /\ UNCHANGED history
     \/ /\ At("write")
        /\ disk' = [disk EXCEPT !.active = Append(@, run.built)]
        /\ history' = Append(history, run.built.record)
  /\ UNCHANGED caller

Start ==
  /\ run.status = "down"
  /\ run' = [run EXCEPT !.status = "starting", !.at = "rotation", !.seq = 0, !.hash = 0,
                        !.built = Line(0, 0, Anchor)]
  /\ UNCHANGED disk /\ Keeps

Init ==
  /\ disk = [active |-> <<>>, rotating |-> <<>>, archives |-> <<>>, manifest |-> 0,
             marker |-> NoMarker, checkpoints |-> <<>>, catalog |-> 0, torn |-> FALSE]
  /\ history = <<>>
  /\ run = [status |-> "down", at |-> "idle", seq |-> 0, hash |-> 0, built |-> Line(0, 0, Anchor)]
  /\ caller = [calls |-> 0, script |-> <<>>, todo |-> {}, stuck |-> FALSE]
  /\ crashes = 0

Next ==
  \/ BeginAppend \/ WriteRecord
  \/ RotateActive \/ RotateArchive \/ PublishManifest \/ WriteAnchor
  \/ PrepareCompaction \/ WriteCheckpoint \/ MarkCheckpoint \/ PublishCatalog \/ MarkManifest
  \/ RetireSource \/ FinishCompaction \/ FoldCheckpoint
  \/ RecoverRotation \/ RecoverAnchor \/ RecoverCompaction \/ RecoverSources \/ Load
  \/ Request \/ Cleanup \/ Observe
  \/ Crash \/ Start

Spec == Init /\ [][Next]_vars

-----------------------------------------------------------------------------
(* Properties. *)

Idle == At("idle") /\ caller.script = <<>>

\* A start reads the journal back whatever it finds of an interrupted rotation
\* or compaction, also when starts were interrupted before it; only a torn
\* line stops it (_recover_interrupted_rotation, _recover_interrupted_compaction
\* against _verify_catalog_and_manifest, _load_tail).
ReadsBack == run.status = "unreadable" => disk.torn

\* The numbers go on, and the files hold every record ever written but those
\* that the latest checkpoint covers; after the last of these nothing was open
\* (_rotate, _compact_resolved_archives and the recovery of both, against
\* _load_tail and _resolved_archive_prefix).
KeepsTheRest ==
  At("idle") =>
    /\ run.seq = Len(history) /\ run.hash = Len(history)
    /\ Records(Lines(disk)) = SubSeq(history, Latest(disk).last + 1, Len(history))
    /\ Closed(FoldLeft(ScannedRecord, Unscanned, SubSeq(history, 1, Latest(disk).last)))

\* The scan keeps a call by its callSequence, which starts again at one with
\* every process.  A cancel takes the place of a call of another subscription,
\* of a process before, whose transition the scan still awaits.
AnsweredBefore(records, j) ==
  {i \in 1..(j - 1) : records[i].kind = "native_result" /\ records[i].seq = records[j].seq}
TakenOver(records) ==
  \E j \in DOMAIN records :
    /\ records[j].kind = "native_result" /\ AnsweredBefore(records, j) # {}
    /\ LET scan == FoldLeft(ScannedRecord, Unscanned, SubSeq(records, 1, j - 1))
           answer == records[Max(AnsweredBefore(records, j))]
       IN  \E c \in ToSet(scan.awaiting), p \in scan.pending :
             /\ c.seq = records[j].seq /\ p.seq = c.seq
             /\ p.id \notin {c.id, answer.id}


\* The files of records stay within the limit, counted in records, but for the
\* anchor of the last rotation (_ensure_capacity, _rotate).  What the other
\* files of the journal add to the code's bytes is left out.
WithinLimit == Total(disk) <= MaxTotal + 1
=============================================================================
