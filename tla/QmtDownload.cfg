SPECIFICATION FairDownloadSpec
CONSTANTS
  b1 = b1
  b2 = b2
  j1 = j1
  NoOwner = NoOwner
  Owners = {b1, b2}
  OwnerStaleAfter = 1
  BusyGrants = {}
  Timeouts = {}
  ResultTtl = 2
  MaxPollLimit = 1
  MaxResultBytes = 2
  Reservation = 1
  FailureBytes = 1
  BusyMargin = 1
  JobTtl = 1
  Jobs = {j1}
  TasksPerJob = 2
  CommandTimeout = 2
  AnswerBytes = {1}
  MaxOutstanding = 1
  MaxRetainedResults = 2
  MaxRetainedBytes = 4
  MaxCommands = 2
  MaxFaults = 2
  MaxGeneration = 3
INVARIANTS DoneWasExecuted
PROPERTIES JobsFinish LeaseReturns
