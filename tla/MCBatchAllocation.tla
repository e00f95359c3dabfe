------------------------ MODULE MCBatchAllocation ------------------------
(* Small instances of BatchAllocation for TLC.                             *)
EXTENDS BatchAllocation, TLC

CONSTANTS c1, c2, c3, o1, o2, o3

MCSymmetry == Permutations(Clients) \union Permutations(Orders)
=============================================================================
