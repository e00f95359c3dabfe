------------------------------ MODULE Inventory ------------------------------
(***************************************************************************)
(* Flower batches: the inventory_batches table, the HTTP requests that     *)
(* draw from a batch or write some of it off, and the passes that mark     *)
(* batches as they age.                                                    *)
(*                                                                         *)
(* A request reads the row, changes the aggregate in memory and writes the *)
(* whole row back in a transaction, under the test WHERE version = the     *)
(* version it has read.  A pass reads all active rows and saves those that *)
(* change, one statement each, under the same test.                        *)
(***************************************************************************)
EXTENDS Integers, FiniteSets

CONSTANTS
  Batches, Requests, Sweepers,
  Received,     \* quantities a batch may be received with (CHECK received_qty > 0)
  Quantities,   \* quantities a consume or write-off command may carry; nothing checks
                \* their sign
  Expiry,       \* expires_at of each batch
  AgingThreshold, CriticalThreshold,
  MaxTime,      \* bound: the clock stops here
  Faults        \* "abort": requests and passes stop anywhere; "publish": Publish fails

ASSUME InventoryAssumption ==
  /\ Received \subseteq Nat \ {0}
  /\ Quantities \subseteq Int
  /\ Expiry \in [Batches -> Nat]
  /\ AgingThreshold \in Nat /\ CriticalThreshold \in Nat
  /\ MaxTime \in Nat
  /\ Faults \subseteq {"abort", "publish"}

VARIABLES
  row,        \* row[b]: the committed row; freshness "absent" before it is inserted
  received,   \* row[b]'s received_qty, written once
  cmd,        \* cmd[r]: what request r asks for
  pc,         \* pc[r]: how far r's handler has come
  copy,       \* copy[r]: the aggregate in r's memory
  snap,       \* snap[s][b]: the aggregate a pass still has to look at
  asOf,       \* asOf[s]: the time the pass took at its start
  now,
  drawn,      \* total QtyConsumed of the batch_consumed rows in outbox_events
  announced,  \* total Qty of the batch_written_off rows in outbox_events
  wasted,     \* history: total quantity of committed write-offs
  outbox      \* outbox[b]: the names of the events stored for b

vars == <<row, received, cmd, pc, copy, snap, asOf, now, drawn, announced, wasted, outbox>>

Freshness == {"absent", "fresh", "aging", "critical", "expired"}
Row == [remaining: Nat, freshness: Freshness, version: Nat]
NoRow == [remaining |-> 0, freshness |-> "absent", version |-> 0]
Command == [op: {"consume", "writeoff"}, batch: Batches, qty: Quantities]
EventNames == {"batch_received", "batch_consumed", "batch_written_off", "batch_expired"}

Init ==
  /\ row = [b \in Batches |-> NoRow]
  /\ received = [b \in Batches |-> 0]
  /\ cmd \in [Requests -> Command]
  /\ pc = [r \in Requests |-> "new"]
  /\ copy = [r \in Requests |-> NoRow]
  /\ snap = [s \in Sweepers |-> [b \in Batches |-> NoRow]]
  /\ asOf = [s \in Sweepers |-> 0]
  /\ now = 0
  /\ drawn = [b \in Batches |-> 0]
  /\ announced = [b \in Batches |-> 0]
  /\ wasted = [b \in Batches |-> 0]
  /\ outbox = [b \in Batches |-> {}]

history == <<drawn, announced, wasted, outbox>>
passes == <<snap, asOf>>

-----------------------------------------------------------------------------
(* ReceiveBatch: the row and its event are inserted in one transaction,    *)
(* under an id nobody else knows yet.                                      *)
Receive(b) ==
  /\ row[b].freshness = "absent"
  /\ \E q \in Received :
       /\ row' = [row EXCEPT ![b] = [remaining |-> q, freshness |-> "fresh", version |-> 1]]
       /\ received' = [received EXCEPT ![b] = q]
  /\ outbox' = [outbox EXCEPT ![b] = @ \union {"batch_received"}]
  /\ UNCHANGED <<cmd, pc, copy, passes, now, drawn, announced, wasted>>

Usable(x) == x.freshness \notin {"absent", "expired"}

(* Mutant: Consume and Writeoff do not look at what is left.               *)
AcceptsAnyQty(x, q) == Usable(x)

(* Batch.Consume and Batch.Writeoff.                                       *)
Accepts(x, q) == Usable(x) /\ q <= x.remaining

(* FindByID through the pool, then the change in memory.                   *)
Load(r) ==
  /\ pc[r] = "new"
  /\ LET x == row[cmd[r].batch]
     IN  /\ Accepts(x, cmd[r].qty)
         /\ copy' = [copy EXCEPT ![r] = [x EXCEPT !.remaining = @ - cmd[r].qty]]
  /\ pc' = [pc EXCEPT ![r] = "loaded"]
  /\ UNCHANGED <<row, received, cmd, passes, now, history>>

(* ErrBatchNotFound, ErrBatchExpired or ErrInsufficientBatch.              *)
Refuse(r) ==
  /\ pc[r] = "new" /\ ~Accepts(row[cmd[r].batch], cmd[r].qty)
  /\ pc' = [pc EXCEPT ![r] = "failed"]
  /\ UNCHANGED <<row, received, cmd, copy, passes, now, history>>

(* A transaction that has updated the row keeps its lock until it ends.    *)
Locked(b) == \E r \in Requests : pc[r] \in {"updated", "published"} /\ cmd[r].batch = b

(* Mutant: UpdateTx without the test of the version.                       *)
UpdateTxUnguarded(r) ==
  /\ pc[r] = "loaded" /\ ~Locked(cmd[r].batch)
  /\ pc' = [pc EXCEPT ![r] = "updated"]
  /\ UNCHANGED <<row, received, cmd, copy, passes, now, history>>

(* UpdateTx waits for the row lock and finds the version it has read.      *)
UpdateTx(r) ==
  /\ pc[r] = "loaded" /\ ~Locked(cmd[r].batch)
  /\ copy[r].version = row[cmd[r].batch].version
  /\ pc' = [pc EXCEPT ![r] = "updated"]
  /\ UNCHANGED <<row, received, cmd, copy, passes, now, history>>

(* UpdateTx updates no row: ErrOptimisticLock.                             *)
Conflict(r) ==
  /\ pc[r] = "loaded" /\ copy[r].version # row[cmd[r].batch].version
  /\ pc' = [pc EXCEPT ![r] = "failed"]
  /\ UNCHANGED <<row, received, cmd, copy, passes, now, history>>

(* A write-off's event goes through Publish: its own statement on the      *)
(* pool, committed at once.                                                *)
Publish(r) ==
  /\ pc[r] = "updated" /\ cmd[r].op = "writeoff"
  /\ pc' = [pc EXCEPT ![r] = "published"]
  /\ announced' = [announced EXCEPT ![cmd[r].batch] = @ + cmd[r].qty]
  /\ outbox' = [outbox EXCEPT ![cmd[r].batch] = @ \union {"batch_written_off"}]
  /\ UNCHANGED <<row, received, cmd, copy, passes, now, drawn, wasted>>

(* Its error is printed and forgotten.                                     *)
PublishFails(r) ==
  /\ "publish" \in Faults
  /\ pc[r] = "updated" /\ cmd[r].op = "writeoff"
  /\ pc' = [pc EXCEPT ![r] = "published"]
  /\ UNCHANGED <<row, received, cmd, copy, passes, now, history>>

Stored(x) == [x EXCEPT !.version = @ + 1]

(* The transaction of a consume (UpdateTx and PublishTx) commits.          *)
CommitConsume(r) ==
  /\ pc[r] = "updated" /\ cmd[r].op = "consume"
  /\ pc' = [pc EXCEPT ![r] = "done"]
  /\ LET b == cmd[r].batch
     IN  /\ row' = [row EXCEPT ![b] = Stored(copy[r])]
         /\ drawn' = [drawn EXCEPT ![b] = @ + cmd[r].qty]
         /\ outbox' = [outbox EXCEPT ![b] = @ \union {"batch_consumed"}]
  /\ UNCHANGED <<received, cmd, copy, passes, now, announced, wasted>>

CommitWriteoff(r) ==
  /\ pc[r] = "published"
  /\ pc' = [pc EXCEPT ![r] = "done"]
  /\ LET b == cmd[r].batch
     IN  /\ row' = [row EXCEPT ![b] = Stored(copy[r])]
         /\ wasted' = [wasted EXCEPT ![b] = @ + cmd[r].qty]
  /\ UNCHANGED <<received, cmd, copy, passes, now, drawn, announced, outbox>>

(* An error, a cancelled request or the end of the process: RunTx or the   *)
(* server rolls the transaction back.                                      *)
Abort(r) ==
  /\ "abort" \in Faults /\ pc[r] \in {"loaded", "updated", "published"}
  /\ pc' = [pc EXCEPT ![r] = "failed"]
  /\ UNCHANGED <<row, received, cmd, copy, passes, now, history>>

-----------------------------------------------------------------------------
Active == {b \in Batches : Usable(row[b]) /\ row[b].remaining > 0}

Todo(s) == {b \in Batches : snap[s][b] # NoRow}

(* RecalcFreshness: FindActive, and the time all its tests will use.       *)
SweepStart(s) ==
  /\ Todo(s) = {}
  /\ snap' = [snap EXCEPT ![s] = [b \in Batches |-> IF b \in Active THEN row[b] ELSE NoRow]]
  /\ asOf' = [asOf EXCEPT ![s] = now]
  /\ UNCHANGED <<row, received, cmd, pc, copy, now, history>>

(* Mutant: the batch expires as soon as it is within CriticalThreshold.    *)
TransitionEarly(x, b, t) ==
  IF t + CriticalThreshold > Expiry[b] THEN "expired"
  ELSE IF x.freshness = "fresh" /\ t + AgingThreshold > Expiry[b] THEN "aging"
  ELSE x.freshness

(* The switch of RecalcFreshnessHandler: at most one transition per pass.  *)
Transition(x, b, t) ==
  IF t > Expiry[b] THEN "expired"
  ELSE IF x.freshness = "fresh" /\ t + AgingThreshold > Expiry[b] THEN "aging"
  ELSE IF x.freshness = "aging" /\ t + CriticalThreshold > Expiry[b] THEN "critical"
  ELSE x.freshness

Target(s, b) == Transition(snap[s][b], b, asOf[s])

(* Mutant: the pass goes on after a conflict.                              *)
SweepSkipConflicts(s, b) ==
  /\ b \in Todo(s)
  /\ Target(s, b) = snap[s][b].freshness \/ snap[s][b].version # row[b].version
  /\ snap' = [snap EXCEPT ![s][b] = NoRow]
  /\ UNCHANGED <<row, received, cmd, pc, copy, asOf, now, history>>

SweepSkip(s, b) ==
  /\ b \in Todo(s) /\ Target(s, b) = snap[s][b].freshness
  /\ snap' = [snap EXCEPT ![s][b] = NoRow]
  /\ UNCHANGED <<row, received, cmd, pc, copy, asOf, now, history>>

(* Mutant: Save without the test of the version.                           *)
SweepSaveUnguarded(s, b) ==
  /\ b \in Todo(s) /\ Target(s, b) # snap[s][b].freshness /\ ~Locked(b)
  /\ row' = [row EXCEPT ![b] = Stored([snap[s][b] EXCEPT !.freshness = Target(s, b)])]
  /\ snap' = [snap EXCEPT ![s][b] = NoRow]
  /\ UNCHANGED <<received, cmd, pc, copy, asOf, now, history>>

(* Mutant: the pass saves a batch also when nothing has changed.           *)
SweepSaveAlways(s, b) ==
  /\ b \in Todo(s)
  /\ ~Locked(b) /\ snap[s][b].version = row[b].version
  /\ row' = [row EXCEPT ![b] = Stored([snap[s][b] EXCEPT !.freshness = Target(s, b)])]
  /\ snap' = [snap EXCEPT ![s][b] = NoRow]
  /\ UNCHANGED <<received, cmd, pc, copy, asOf, now, history>>

(* Save writes the whole aggregate back, and no event.                     *)
SweepSave(s, b) ==
  /\ b \in Todo(s) /\ Target(s, b) # snap[s][b].freshness
  /\ ~Locked(b) /\ snap[s][b].version = row[b].version
  /\ row' = [row EXCEPT ![b] = Stored([snap[s][b] EXCEPT !.freshness = Target(s, b)])]
  /\ snap' = [snap EXCEPT ![s][b] = NoRow]
  /\ UNCHANGED <<received, cmd, pc, copy, asOf, now, history>>

(* The first error ends the pass: a conflict on one batch, or any other.   *)
SweepFail(s) ==
  /\ \/ \E b \in Todo(s) : /\ Target(s, b) # snap[s][b].freshness
                           /\ snap[s][b].version # row[b].version
     \/ "abort" \in Faults /\ Todo(s) # {}
  /\ snap' = [snap EXCEPT ![s] = [b \in Batches |-> NoRow]]
  /\ UNCHANGED <<row, received, cmd, pc, copy, asOf, now, history>>

Tick ==
  /\ now < MaxTime
  /\ now' = now + 1
  /\ UNCHANGED <<row, received, cmd, pc, copy, passes, history>>

Request(r) ==
  \/ Load(r) \/ Refuse(r) \/ UpdateTx(r) \/ Conflict(r)
  \/ Publish(r) \/ PublishFails(r) \/ CommitConsume(r) \/ CommitWriteoff(r) \/ Abort(r)

Sweep(s) ==
  \/ SweepStart(s) \/ SweepFail(s)
  \/ \E b \in Batches : SweepSkip(s, b) \/ SweepSave(s, b)

Next ==
  \/ \E b \in Batches : Receive(b)
  \/ \E r \in Requests : Request(r)
  \/ \E s \in Sweepers : Sweep(s)
  \/ Tick

Spec == Init /\ [][Next]_vars

-----------------------------------------------------------------------------
TypeOK ==
  /\ row \in [Batches -> Row]
  /\ received \in [Batches -> Nat]
  /\ cmd \in [Requests -> Command]
  /\ pc \in [Requests -> {"new", "loaded", "updated", "published", "done", "failed"}]
  /\ copy \in [Requests -> Row]
  /\ snap \in [Sweepers -> [Batches -> Row]]
  /\ asOf \in [Sweepers -> Nat] /\ now \in Nat
  /\ drawn \in [Batches -> Int] /\ announced \in [Batches -> Int] /\ wasted \in [Batches -> Int]
  /\ outbox \in [Batches -> SUBSET EventNames]

(* The row and the consumed events that other services see tell the same   *)
(* story: what was received is what is left plus what the batch_consumed   *)
(* events say plus the committed write-offs, with requests and passes that *)
(* write the whole row back from stale copies.                             *)
Ledger ==
  \A b \in Batches : row[b].remaining + drawn[b] + wasted[b] = received[b]

Rank == [absent |-> 0, fresh |-> 1, aging |-> 2, critical |-> 3, expired |-> 4]

(* A batch never becomes fresher: a handler that read it before a pass     *)
(* marked it cannot write the old state back.                              *)
FreshnessNeverReverts ==
  [][\A b \in Batches : Rank[row[b].freshness] <= Rank[row'[b].freshness]]_vars

(* Once a batch is marked expired nothing is taken from it, also not by a  *)
(* request that had checked it before.                                     *)
NoDrawAfterExpired ==
  [][\A b \in Batches : row[b].freshness = "expired" => row'[b] = row[b]]_vars

(* No batch is marked before its time: passes work with an old clock and   *)
(* old copies, and still the mark fits the batch's dates.                  *)
FreshnessIsEarned ==
  \A b \in Batches :
    /\ row[b].freshness = "aging" => now + AgingThreshold > Expiry[b]
    /\ row[b].freshness = "critical" => now + CriticalThreshold > Expiry[b]
    /\ row[b].freshness = "expired" => now > Expiry[b]

(* Every new version of a row is a committed draw or write-off, or an      *)
(* older mark: passes that find nothing due write nothing, however many    *)
(* events start them.  So the conflicts that make a request fail           *)
(* (ErrOptimisticLock) and a pass be tried again are paid for by changes.  *)
Committed(b) == {r \in Requests : pc[r] = "done" /\ cmd[r].batch = b}

VersionsAreEarned ==
  \A b \in Batches :
    /\ IsFiniteSet(Committed(b))
    /\ row[b].version <= Rank[row[b].freshness] + Cardinality(Committed(b))

(* Requests and passes, with all their stale copies, implement stock that  *)
(* changes in single steps.                                                *)
Stock == INSTANCE AtomicStock WITH
           stock <- [b \in Batches |-> row[b].remaining],
           state <- [b \in Batches |-> row[b].freshness],
           taken <- [b \in Batches |-> drawn[b] + wasted[b]]

AtomicStockSpec == Stock!Spec
=============================================================================
