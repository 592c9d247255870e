--------------------------- MODULE MCWsConnections ---------------------------
EXTENDS WsConnections

CONSTANTS a1, a2, b1, alice, bob

SomeSockets == {a1, a2, b1}
SomeClients == {alice, bob}
SomeNames == [s \in SomeSockets |-> IF s = b1 THEN bob ELSE alice]
=============================================================================
