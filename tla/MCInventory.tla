---------------------------- MODULE MCInventory ----------------------------
(* Small instances of Inventory for TLC, and what the repository's texts   *)
(* say of the inventory and its code does not do.                          *)
EXTENDS Catalog, TLC

CONSTANTS b1, r1, r2, s1, s2

MCExpiry == b1 :> 2

(* A negative quantity is as good as any to the handlers.                  *)
MCQuantities == {-1, 1, 2}

MCSymmetry == Permutations({r1, r2}) \union Permutations({s1, s2})

(* docs/ARCHITECTURE.md: the change and its event are saved in one         *)
(* database transaction.  (Looked at when no handler is running.)          *)
WriteoffIsAnnounced ==
  (\A r \in Requests : pc[r] \in {"new", "done", "failed"})
    => \A b \in Batches : announced[b] = wasted[b]
=============================================================================
