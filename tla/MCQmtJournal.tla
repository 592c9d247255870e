---------------------------- MODULE MCQmtJournal ----------------------------
(* Instances of QmtJournal for TLC. *)
EXTENDS QmtJournal

CONSTANTS a, b

\* A process in the middle of its recovery, with files of six records.  The one
\* before it had subscribed to b, and had the answer of the terminal for a when
\* it stopped.  The terminal has refused the cancel of a; b is left.
Written ==
  <<Record("native_intent", 1, "single", 0, {a}), Record("native_result", 1, "failure", 0, {}),
    Record("native_intent", 1, "single", 0, {b}), Record("native_result", 1, "id", 1, {}),
    Record("registry_transition", 0, "single", 1, {b}),
    Record("native_intent", 2, "single", 0, {a}),
    Anchor,
    Record("native_result", 2, "id", 2, {}),
    Record("recovery_intent", 0, "none", 2, {a}), Record("native_intent", 1, "cancel", 2, {a}),
    Record("native_result", 1, "failure", 0, {}), Record("recovery_result", 0, "unconfirmed", 2, {a})>>
WrittenLines ==
  [i \in DOMAIN Written |-> [seq |-> i, prev |-> i - 1, hash |-> i, record |-> Written[i]]]

\* It is the process that tried a, or the next one, whose calls start at one
\* again.  The stops so far are not counted.
RecoveringInit ==
  /\ disk = [archives |-> <<SubSeq(WrittenLines, 1, 6)>>, active |-> SubSeq(WrittenLines, 7, 12),
             rotating |-> <<>>, manifest |-> 6, marker |-> NoMarker, checkpoints |-> <<>>,
             catalog |-> 0, torn |-> FALSE]
  /\ history = Written
  /\ run = [status |-> "up", at |-> "idle", seq |-> 12, hash |-> 12, built |-> Last(WrittenLines)]
  /\ \E calls \in {0, 1} :
       caller = [calls |-> calls, script |-> <<>>, todo |-> {Candidate(1, {b}, FALSE)}, stuck |-> TRUE]
  /\ crashes = 0

RecoveringSpec == RecoveringInit /\ [][Next]_vars
=============================================================================
