SPECIFICATION Spec
CONSTANTS
  a = a
  b = b
  Symbols = {a, b}
  IdsRestart = FALSE
  MaxOps = 2
  MaxFaults = 2
  MaxRestarts = 1
SYMMETRY SymbolSymmetry
CHECK_DEADLOCK FALSE
INVARIANTS AnsweredAreOwned NoSymbolTwice RecoverableAfterCrash JournalAgrees
PROPERTIES ReplyMatches
