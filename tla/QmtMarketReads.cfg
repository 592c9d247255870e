SPECIFICATION FairReadSpec
CONSTANTS
  o1 = o1
  r1 = r1
  r2 = r2
  NoOwner = NoOwner
  Owners = {o1}
  OwnerStaleAfter = 1
  BusyGrants = {}
  Timeouts = {1}
  ResultTtl = 1
  MaxPollLimit = 1
  MaxOutstanding = 2
  MaxRetainedResults = 2
  MaxResultBytes = 3
  MaxRetainedBytes = 5
  Reservation = 2
  FailureBytes = 1
  AnswerBytes = {2, 3, 4}
  AnswerSizes = {2, 3}
  MaxCommands = 2
  MaxGeneration = 2
  Reads = {r1, r2}
  BarsTimeout = 1
INVARIANTS ReadsShowTheAnswer
PROPERTIES Settles ReadsEnd
