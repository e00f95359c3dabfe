------------------------------- MODULE Catalog -------------------------------
(***************************************************************************)
(* The storefront's read model: the batches its catalog query shows of the *)
(* inventory_batches table, which Inventory changes.  Store and ingredient *)
(* only narrow the page and are left out.                                  *)
(***************************************************************************)
EXTENDS Inventory

(* The column written_off: its default is FALSE and no statement sets it.  *)
WrittenOff(b) == FALSE

(* The rows CatalogReader selects.                                         *)
Offered ==
  {b \in Batches : /\ row[b].freshness \notin {"absent", "expired"}
                   /\ ~WrittenOff(b) /\ row[b].remaining > 0}

(* The commands whose commit has added to b, their quantity being negative. *)
Refills(b) == {r \in Requests : pc[r] = "done" /\ cmd[r].batch = b /\ cmd[r].qty < 0}

(* What a page shows of a batch is never less than what is left later, and *)
(* what has left the catalog stays away, but for one cause: the commit of  *)
(* a command with a negative quantity, which nothing refuses.  No stale    *)
(* copy, rollback or pass gives back what was taken.                       *)
OnlyNegativesRefill ==
  [][\A b \in Batches :
       /\ row[b].freshness # "absent"
       /\ (b \in Offered' /\ b \notin Offered) \/ row'[b].remaining > row[b].remaining
       => Refills(b)' \ Refills(b) # {}]_vars
=============================================================================
