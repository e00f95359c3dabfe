--------------------------- MODULE MCOutboxWorker ---------------------------
(* Small instances of OutboxWorker for TLC.                                *)
EXTENDS OutboxWorker, TLC

CONSTANTS e1, e2, e3, w1, w2

(* e2 and e3 were written by transactions that started at the same time.   *)
MCCreatedAt == e1 :> 1 @@ e2 :> 2 @@ e3 :> 2
MCCreatedAtTwo == e1 :> 1 @@ e2 :> 2

(* Workers are interchangeable; used only where no liveness property is    *)
(* checked.                                                                *)
MCSymmetry == Permutations(Workers)
=============================================================================
