------------------------ MODULE MCQmtHistoryDownload ------------------------
(* Instances of QmtHistoryDownload for TLC. *)
EXTENDS QmtHistoryDownload
=============================================================================
