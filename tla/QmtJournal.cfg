SPECIFICATION Spec
CONSTANTS
  a = a
  b = b
  Symbols = {a}
  RotateRecords = 2
  MaxTotal = 12
  MaxRecords = 15
  MaxCrashes = 2
CHECK_DEADLOCK FALSE
INVARIANTS ReadsBack KeepsTheRest  WithinLimit
