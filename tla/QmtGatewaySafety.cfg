SPECIFICATION Spec
CONSTANTS
  o1 = o1
  o2 = o2
  NoOwner = NoOwner
  Owners = {o1, o2}
  OwnerStaleAfter = 1
  BusyGrants = {2}
  Timeouts = {1, 2}
  ResultTtl = 2
  MaxPollLimit = 2
  MaxOutstanding = 2
  MaxRetainedResults = 2
  MaxResultBytes = 4
  MaxRetainedBytes = 5
  Reservation = 2
  FailureBytes = 1
  AnswerBytes = {1, 4, 5}
  MaxCommands = 3
  MaxGeneration = 2
SYMMETRY OwnerSymmetry
INVARIANTS SlotsReserved BytesReserved LedgerExact ClaimsAreFenced
PROPERTIES AnswersAreTimely ImplementsService
