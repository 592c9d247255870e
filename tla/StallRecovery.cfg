SPECIFICATION Spec
CONSTANTS
  Day = 12
  Segments <- TwoSegments
  Grace = 1
  MaxCycles = 2
  MaxSync = 1
  MaxChanges = 1
INVARIANTS AlarmIsEarned
PROPERTIES SilenceIsReported Recovers
