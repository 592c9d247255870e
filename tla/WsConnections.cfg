SPECIFICATION Spec
CONSTANTS
  a1 = a1
  a2 = a2
  b1 = b1
  alice = alice
  bob = bob
  Sockets <- SomeSockets
  Clients <- SomeClients
  NameOf <- SomeNames
  Broadcasts = {p1}
  NoSocket = NoSocket
  NoClient = NoClient
  MaxTimeouts = 1
INVARIANTS KeepsItsPlace LeaderIsAttached
PROPERTIES EvictsOnlyFailed IdComesFree
