------------------------- MODULE MCOrderLifecycle -------------------------
(* A small instance of OrderLifecycle for TLC.                             *)
EXTENDS OrderLifecycle, TLC

CONSTANTS c1, c2, c3, i1, i2

MCSymmetry == Permutations(Clients) \union Permutations(Items)
=============================================================================
