---------------------------- MODULE MCRecipeCost ----------------------------
(* Small instances of RecipeCost for TLC.                                  *)
EXTENDS RecipeCost, TLC

CONSTANTS r1, k1, m1, m2

MCQuantities == {0, 1, 3, 4}
MCCopies == {-1, 2}
=============================================================================
