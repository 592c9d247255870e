SPECIFICATION Spec
CONSTANTS
  b1 = b1
  b2 = b2
  s1 = s1
  s2 = s2
  k1 = k1
  k2 = k2
  NoOwner = NoOwner
  Ids = {b1, b2}
  Symbols = {s1, s2}
  Clients = {k1, k2}
  MaxSubscriptions = 1
  OwnerStaleAfter = 1
  TakeoverGrace = 2
  RetryWindow = 1
  ControlTimeout = 1
  MaxGeneration = 2
  MaxRevision = 2
  MaxProbe = 1
SYMMETRY Symmetry
INVARIANTS GateIsCurrent HealthyMeansExact WaitIsForCurrent SubscribedMeansLive
