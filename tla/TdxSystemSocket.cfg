SPECIFICATION FairSystemSpec
CONSTANTS
  s1 = s1
  k1 = k1
  NoOwner = 0
  Ids = {1}
  Symbols = {s1}
  Clients = {k1}
  MaxSubscriptions = 1
  OwnerStaleAfter = 1
  TakeoverGrace = 1
  RetryWindow = 1
  ControlTimeout = 1
  MaxGeneration = 8
  MaxRevision = 1
  MaxProbe = 1
  KeepAlive = 1
  MaxFaults = 1
PROPERTY SocketFollowsLease
