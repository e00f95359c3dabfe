--------------------------- MODULE BatchAllocation ---------------------------
(***************************************************************************)
(* The allocation batches of the ordering context: a batch row and its     *)
(* batch_allocations rows, read and written by the clients of the ordering *)
(* BatchRepository.  Batches share nothing, so the module has one.         *)
(*                                                                         *)
(* GetByID (and GetBySKU, for the batches of one SKU) reads the batch and  *)
(* its allocations in two statements outside any transaction.  UpdateTx    *)
(* writes the batch WHERE version = the version read, deletes all its      *)
(* allocations and inserts those of the copy.                              *)
(***************************************************************************)
EXTENDS Naturals, FiniteSets

CONSTANTS
  Clients,     \* each loads the batch once, changes it and saves it
  Orders,
  Quantities,  \* quantities clients allocate
  Qty,         \* the qty column
  Faults       \* "abort": a client stops anywhere; "read": allocation rows get lost

ASSUME AllocationAssumption ==
  /\ IsFiniteSet(Orders)
  /\ Quantities \subseteq Nat \ {0}
  /\ Qty \in Nat
  /\ Faults \subseteq {"abort", "read"}

VARIABLES
  version,   \* the version column
  allocs,    \* allocs[o]: qty of the batch_allocations row for o, 0 without a row
  pc,        \* pc[c]: how far client c has come
  seen,      \* seen[c]: the version c has read
  copy,      \* copy[c]: the allocations map in c's memory
  changed,   \* changed[c]: the orders c has allocated or deallocated in its copy
  lost       \* history: lost[c]: the orders whose rows c's read has missed

vars == <<version, allocs, pc, seen, copy, changed, lost>>

Amounts == Quantities \union {0}

(* The sum of an allocations map, as the number of pieces it hands out.    *)
Pieces(f) == UNION {{o} \X (1..f[o]) : o \in Orders}
Total(f) == Cardinality(Pieces(f))

AvailableQty(f) == Qty - Total(f)

(* NewBatch, Allocate before the first save, Save.                         *)
Init ==
  /\ version = 0
  /\ allocs \in {f \in [Orders -> Amounts] : Total(f) <= Qty}
  /\ pc = [c \in Clients |-> "new"]
  /\ seen = [c \in Clients |-> 0]
  /\ copy = [c \in Clients |-> [o \in Orders |-> 0]]
  /\ changed = [c \in Clients |-> {}]
  /\ lost = [c \in Clients |-> {}]

table == <<version, allocs>>

-----------------------------------------------------------------------------
(* GetByID's first statement.                                              *)
ReadBatch(c) ==
  /\ pc[c] = "new"
  /\ pc' = [pc EXCEPT ![c] = "half"]
  /\ seen' = [seen EXCEPT ![c] = version]
  /\ UNCHANGED <<table, copy, changed, lost>>

(* Its second statement.  rows.Err is not looked at: when the connection   *)
(* breaks the rows of gone are missing and nobody is told.                 *)
ReadAllocations(c) ==
  /\ pc[c] = "half"
  /\ \E gone \in SUBSET {o \in Orders : allocs[o] # 0} :
       /\ gone # {} => "read" \in Faults
       /\ copy' = [copy EXCEPT ![c] = [o \in Orders |-> IF o \in gone THEN 0 ELSE allocs[o]]]
       /\ lost' = [lost EXCEPT ![c] = gone]
  /\ pc' = [pc EXCEPT ![c] = "ready"]
  /\ UNCHANGED <<table, seen, changed>>

Put(c, o, q) ==
  /\ copy' = [copy EXCEPT ![c][o] = q]
  /\ changed' = [changed EXCEPT ![c] = @ \union {o}]
  /\ UNCHANGED <<table, pc, seen, lost>>

(* Mutant: Allocate without CanAllocate.                                   *)
AllocateUnchecked(c, o, q) == pc[c] = "ready" /\ Put(c, o, q)

(* Mutant: += instead of =.                                                *)
AllocateAdds(c, o, q) ==
  /\ pc[c] = "ready" /\ AvailableQty(copy[c]) >= q
  /\ Put(c, o, copy[c][o] + q)

(* Allocate overwrites an earlier allocation of the same order.            *)
Allocate(c, o, q) ==
  /\ pc[c] = "ready" /\ AvailableQty(copy[c]) >= q
  /\ Put(c, o, q)

Deallocate(c, o) ==
  /\ pc[c] = "ready" /\ copy[c][o] # 0
  /\ Put(c, o, 0)

(* A transaction that has updated the row keeps its lock until it ends.    *)
Locked == \E c \in Clients : pc[c] = "updated"

(* Mutant: UpdateTx without the test of the version.                       *)
UpdateTxUnguarded(c) ==
  /\ pc[c] = "ready" /\ ~Locked
  /\ pc' = [pc EXCEPT ![c] = "updated"]
  /\ UNCHANGED <<table, seen, copy, changed, lost>>

UpdateTx(c) ==
  /\ pc[c] = "ready" /\ ~Locked /\ seen[c] = version
  /\ pc' = [pc EXCEPT ![c] = "updated"]
  /\ UNCHANGED <<table, seen, copy, changed, lost>>

(* UpdateTx updates no row: ErrOptimisticLock.                             *)
Conflict(c) ==
  /\ pc[c] = "ready" /\ seen[c] # version
  /\ pc' = [pc EXCEPT ![c] = "failed"]
  /\ UNCHANGED <<table, seen, copy, changed, lost>>

(* Mutant: the row keeps its version.                                      *)
CommitSameVersion(c) ==
  /\ pc[c] = "updated"
  /\ pc' = [pc EXCEPT ![c] = "done"]
  /\ allocs' = copy[c]
  /\ UNCHANGED <<version, seen, copy, changed, lost>>

(* The new version, the DELETE and the INSERTs become visible together.    *)
Commit(c) ==
  /\ pc[c] = "updated"
  /\ pc' = [pc EXCEPT ![c] = "done"]
  /\ version' = version + 1
  /\ allocs' = copy[c]
  /\ UNCHANGED <<seen, copy, changed, lost>>

(* ErrInsufficientQty, another error, a cancelled request, a crash.        *)
Abort(c) ==
  /\ "abort" \in Faults /\ pc[c] \in {"new", "half", "ready", "updated"}
  /\ pc' = [pc EXCEPT ![c] = "failed"]
  /\ UNCHANGED <<table, seen, copy, changed, lost>>

Next == \E c \in Clients :
  \/ ReadBatch(c) \/ ReadAllocations(c)
  \/ \E o \in Orders : Deallocate(c, o) \/ \E q \in Quantities : Allocate(c, o, q)
  \/ UpdateTx(c) \/ Conflict(c) \/ Commit(c) \/ Abort(c)

Spec == Init /\ [][Next]_vars

-----------------------------------------------------------------------------
(* Every allocation is one that some client asked for.                     *)
TypeOK ==
  /\ version \in Nat
  /\ allocs \in [Orders -> Amounts]
  /\ pc \in [Clients -> {"new", "half", "ready", "updated", "done", "failed"}]
  /\ seen \in [Clients -> Nat]
  /\ copy \in [Clients -> [Orders -> Amounts]]
  /\ changed \in [Clients -> SUBSET Orders]
  /\ lost \in [Clients -> SUBSET Orders]

(* The stored allocations never exceed the batch, although every client    *)
(* checks AvailableQty against a copy of its own.                          *)
WithinQty == Total(allocs) <= Qty

(* UpdateTx deletes and rewrites the allocations of all orders, and still  *)
(* what a committed client gave an order stays until the save of a client  *)
(* that means to change that very order, or whose own read has missed its  *)
(* row: then the order loses all it had.                                   *)
PromisesKept ==
  [][\A o \in Orders : allocs'[o] # allocs[o] =>
       \E c \in Clients :
         /\ pc[c] = "updated" /\ pc'[c] = "done"
         /\ o \in changed[c] \/ (o \in lost[c] /\ allocs'[o] = 0)]_vars

(* A copy put together from two reads is never saved with a mixture of two *)
(* states of the table: if its version is the current one, so is what it   *)
(* has of every order its client has not touched and its read not missed.  *)
(* A missed row itself is taken for an order without an allocation.        *)
NoTornSave ==
  \A c \in Clients : pc[c] \in {"ready", "updated"} /\ seen[c] = version =>
    \A o \in Orders \ changed[c] : copy[c][o] = IF o \in lost[c] THEN 0 ELSE allocs[o]
=============================================================================
