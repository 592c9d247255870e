------------------------- MODULE MCQmtSubscription -------------------------
(* Instances of QmtSubscription for TLC. *)
EXTENDS QmtSubscription

SymbolSymmetry == Permutations(Symbols)
=============================================================================
