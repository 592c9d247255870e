------------------------ MODULE MCTdxRealtimeGateway ------------------------
(* Instances of TdxRealtimeGateway for TLC. *)
EXTENDS TdxRealtimeGateway, TLC

Symmetry == Permutations(Ids) \cup Permutations(Symbols) \cup Permutations(Clients)
=============================================================================
