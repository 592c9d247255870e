-------------------------- MODULE MCQmtMarketReads --------------------------
(* Instances of QmtMarketReads for TLC. *)
EXTENDS QmtMarketReads
=============================================================================
