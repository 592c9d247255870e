------------------------ MODULE MCTdxRealtimeSystem ------------------------
(* Instances of TdxRealtimeSystem for TLC. *)
EXTENDS TdxRealtimeSystem, TLC
=============================================================================
