------------------------------ MODULE MCSystem ------------------------------
(* Small instances of System for TLC.                                      *)
EXTENDS System, TLC

CONSTANTS b1, r1, r2, w1, w2

MCExpiry == b1 :> 0

(* A negative quantity is as good as any to the handlers.                  *)
MCQuantities == {-1, 2}
=============================================================================
