SPECIFICATION Spec
CONSTANTS
  Conns = {k1, k2}
  NoConn = NoConn
  QueueMax = 2
  WireMax = 1
  MaxQuotes = 2
  MaxSubs = 2
  MaxDuring = 1
  MaxBoots = 2
  MaxFaults = 1
PROPERTIES InCaptureOrder QueueDrains QuotesFlow
