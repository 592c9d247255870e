------------------------ MODULE MCQmtCommandGateway ------------------------
(* Instances of QmtCommandGateway for TLC. *)
EXTENDS QmtCommandGateway, TLC

OwnerSymmetry == Permutations(Owners)
=============================================================================
