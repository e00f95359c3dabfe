# A specification of florist-core

TLA+ modules, TLC configurations and TLAPS proofs for florist-core, a Go back
end of a flower shop: inventory of batches that age, orders, recipes and a
storefront, over one PostgreSQL database with a transactional outbox.

Paths below are relative to the repository; `file.go:71` is a line of the file
of that name in the part under discussion.

    tlc -config MCOutboxWorker.cfg MCOutboxWorker.tla     model-check one instance
    tlapm OutboxWorkerProofs.tla                          check one module's proofs

## 1. Inventory of the system

### The parts, their state and how they interact

| Part | Code | State | Operations |
|---|---|---|---|
| Outbox table and worker | `internal/shared/postgres/outbox_worker.go`, `migrations/004` | rows of `outbox_events` (status, attempts); per process the claimed rows in memory | poll: claim, call handler, write the outcome |
| Event publisher | `internal/shared/postgres/event_publisher.go` | none of its own | `PublishTx` (in the caller's transaction), `Publish` (a statement of its own) |
| Inventory | `internal/inventory/**` | rows of `inventory_batches` with a version | receive, consume, write off, the freshness pass |
| Ordering, orders | `internal/ordering/{domain/order.go,application,infrastructure/postgres/order_repository.go}` | rows of `orders` and `order_items` | place (from the storefront), confirm; the aggregate also advances and cancels |
| Ordering, allocation | `internal/ordering/domain/batch.go`, its `batch_repository.go` | `batches`, `batch_allocations` | allocate, deallocate, save |
| Storefront | `internal/storefront/**` | none | catalog query; `PlaceOrderHandler`, which calls the ordering context |
| Production | `internal/production/**` | rows of `recipes` | create a recipe, compute a cost |
| Transaction runner, pool | `internal/shared/infrastructure/postgres/**` | open transactions, connections | `RunTx`, `NewPool` |
| Wiring | `cmd/api/main.go` | main's context | starts the HTTP server and one worker per process, dispatches events |
| Kernel, config, Redis, an older outbox publisher | `internal/shared/kernel`, `cmd/api/config.go`, ... | none that matters | values and start-up |

HTTP handlers run in a goroutine per request. They share nothing in memory:
everything they share is a row, read outside the transaction, changed as an
aggregate in memory and written back whole under `WHERE version = <the version
read>`. Events written with the rows are picked up by the worker of some
process, which calls the handler main gave it: three kinds of inventory events
start a freshness pass (`main.go:74`), which reads all active batches and saves
those whose mark changes. So inventory requests feed the outbox, and the outbox
triggers passes that compete with inventory requests.

### What is hard, and what makes each part correct

* Outbox: several processes, claims committed before the handler runs, dropped
  errors of the outcome UPDATE, a context that is cancelled under the worker.
  Correct: one worker per row at a time, the attempts counter true, no pending
  row stranded, settled rows final, every row settled in the end.
* Inventory: requests and passes hold stale copies of the same rows; a pass
  uses one time for all its tests. Correct: no stock lost or invented, no
  mark too early or taken back, nothing drawn from a marked batch, each change
  announced by an event.
* Confirmation: many requests confirm one order; a service outside the
  transaction; commits whose answer is lost. Correct: one confirmation, one
  event, one success, after a reservation.
* Order life and allocation: copies assembled from two statements. Correct:
  a torn copy is never saved; what others committed is not forgotten; nothing
  is oversold; states only go forward.
* Inventory and outbox together: passes run inside handler calls, compete with
  requests and are retried. Correct: success means the marks are made, every
  event is settled unless it is lost, a late event leads to the marks.
* Connections: handlers ask for a second connection with one in hand, and wait
  for rows with one. Correct: with a connection to spare every job ends, and a
  shutdown ends the process.
* Catalog and costs: reads of rows that change meanwhile. Correct: what is gone
  stays gone unless a negative command brings it back, a cost is that of a whole
  recipe and equals the sum of its lines.

`PROJECT.json` lists every component and every hazard at its line.

### The tree does not compile, and the reading adopted

The commit modelled is in the middle of a change. The kernel declares types
twice; main wires names that do not exist or differ in spelling
(`NewWriteOffBatchHandler`/`NewWriteoffBatchHandler`) or in arguments
(`NewPool`, `NewConfirmOrderHandler`); `PullEvents`, `Batch.WriteOff`, the
inventory `UpdateTx`, `Order.CustomerID` and `RehydrateOrder` are called and
not defined; `order_repository.go` has a broken `nilableStr` and
the allocation map has a slice as its key; migration 003 creates a table 001
has created; `batches` and `batch_allocations` have no migration; and
`AvailabilityService` and `ReservationService` have no implementation.

The modules translate what each handler, method and statement that is there
plainly does. Where a callee is missing it is modelled from its declaration
and its callers and marked external in the map: inventory's `UpdateTx` tests
the version as `Save` beside it does; the two services answer as they like.
Where two versions of a thing exist, the module follows the one the callers
can use (the columns of migration 001, `WriteoffBatchHandler` of
`writeoff_batch.go`).

## 2. Modules

| Module | Models | Lines of thought |
|---|---|---|
| `OutboxWorker` | the outbox table and the polling workers | the detailed specification |
| `EventDelivery` | what an outbox promises | abstract; implemented by `OutboxWorker` (`DeliverySpec`) |
| `Inventory` | batches, requests, passes, the clock | the detailed specification |
| `AtomicStock` | stock that changes in single steps | abstract; implemented by `Inventory` (`AtomicStockSpec`) |
| `Catalog` | the storefront's view of the inventory's rows | extends `Inventory` |
| `System` | main's wiring of inventory and outbox | composes `Inventory` and `OutboxWorker`, implements both |
| `ConnectionPool` | connections, transactions, row locks, shutdown | every handler as a script of what it takes |
| `OrderConfirmation` | placing and confirming orders | requests for any number of orders |
| `BatchAllocation` | one allocation batch and its clients | batches share nothing |
| `OrderLifecycle` | one order, its lines and its clients | orders share nothing |
| `RecipeCost` | recipes being saved and costed, prices that change | money wraps |
| `MC...` | instances for TLC | constants, symmetry, and the claims of the texts that the code does not keep |
| `...Proofs` | theorems | one per detailed module; `InventoryProofs` has those of `Catalog` too |

One action is one database statement, the commit of one transaction, one call
of a service or handler, or one change of a copy in memory. A statement inside
an open transaction changes nothing others can see: `UpdateTx` takes the row
lock (an external fact about PostgreSQL: the lock is held until the transaction
ends) and tests the version, the commit publishes all the transaction's writes.
READ COMMITTED semantics are used throughout: an UPDATE whose version test
fails on the committed row changes nothing and does not wait, and one that has
waited for the lock makes the test again. So `UpdateTx` needs the lock to be
free and the version to fit, and `Conflict` needs the version to differ, whoever
holds the lock.

### OutboxWorker

`status` and `attempts` are columns. `hold[w][e]` is the position of worker w's
loop with row e: queued after the claim, handling while the handler runs, `ok`
or `err` after it. `seen` is the attempts value RETURNING gave (the outcome
is decided on it, `outbox_worker.go:103`). `ctx` is main's context. `runs` and
`wins` are history. Insert is the commit of a transaction that called
`PublishTx`; Claim the UPDATE with its sub-select, where any order among equal
`created_at` and any LIMIT are allowed; Settle and SettleLost the outcome
UPDATE and its dropped failure; Cancel, Restart and Crash the process's fate.
Faults: `crash`, `cancel`, `read` (a claimed row does not reach the loop),
`write` (the outcome UPDATE fails).

Left out: the payload, the two-second tick (a worker may poll at any time),
and the case of two claims that overlap in time where the earlier one rolls
back after the later one has skipped its locked rows (SKIP LOCKED): the
later claim may then take younger rows first. Nothing checked speaks of order.

### Inventory

`row` is the committed row with remaining_qty, freshness and version; `copy[r]`
the aggregate of request r; `snap[s]` what a pass has still to look at, `asOf` the
one `time.Now` of the pass (`recalc_freshness_handler.go:29`). Refuse covers
the domain errors, Conflict ErrOptimisticLock, Abort every other end. The
event of a consume is part of its commit, the event of a write-off is a step of
its own inside the open transaction (`writeoff_batch.go:41` uses Publish).
`drawn`, `announced` sum the quantities in stored events, `wasted` is history.
Transition is the switch of the pass with the guards of MarkAging,
MarkCritical and Expire; a pass saves with its own time, and its first error
ends it. Passes may start at any time, a superset of the triggers in main.
SweepStart takes FindActive (`recalc_freshness_handler.go:24`) and `time.Now`
(`:29`) in one step. That is harmless: a batch the pass saves has not changed since
it was read (the version test), so it was the same at both moments; one that has
changed in between ends the pass, as an error may anyway. Quantities
of commands are integers of any sign: `http/handlers.go:52-82` and
`domain/batch.go:87`, `:147` look only at what is too much.
`Catalog` adds `Offered`, the rows the storefront's two queries select; `WrittenOff`
is the column `written_off`, false by its default, as no statement sets it.
`Refills` are the committed commands with a negative quantity.

### System

Every action is one of `Inventory`, of `OutboxWorker`, or one of both at once,
so the composition adds no behaviour to either. A step that stores an event (Receive,
CommitConsume, Publish) inserts its row in the table. Dispatch is the worker's
call of the handler; for the event of a draw or a write-off it is FindActive
too, and the pass goes on (Pass) inside the call. The handler returns success
when its pass is through, and the pass's error when Save meets a conflict, a
failure, or FindActive has failed; Save waits for a row a request has locked.
A process that dies takes its pass with it. `scope` is history: what the last
pass has read. A signal is left to `OutboxWorker`; here it is a crash. The LIMIT
and attempts are those of `OutboxWorker`, created_at is equal for all rows.

### ConnectionPool

`Script` lists what each handler asks of the database. `tx` are the jobs whose
RunTx holds a connection, `stmt` those with a statement on the pool, so a job
may hold two. Asks are the jobs inside Acquire, which waits without a time
limit of its own; `holder` are the row locks. Fail is any error (RunTx rolls
back), GiveUp a wait that a hung-up client or the worker's cancelled context
ends. Publish takes its connection under `context.Background()`
(`event_publisher.go:34`), so nothing ends its wait. Signal, Close and Exit are
main's shutdown: `srv.Shutdown` waits 15 seconds for requests, then the deferred
`pool.Close` waits for every connection in use, for as long as it takes.
`ReservesInPool` says whether the reservation service, which is not in the tree,
queries this pool.

Left out of `place` is the `order_items` row with the zero id
(`order_repository.go:204-230`), which all placed orders lock: its holder has only
statements of its own transaction and the commit before it, asks for no further
connection, and so makes nobody wait for ever.

One action of a job is the grant of a connection, the answer of a statement,
an UPDATE with its row lock, or a commit. Rows are contended only between jobs
that update the same table, and a job updates one row.

### OrderConfirmation

`cmd` chooses place-and-confirm or confirm alone, for any order. `zeroLine` is
the one row in `order_items` with the zero id: `PlaceOrder` gives its lines no
id and upsertItems is INSERT ... ON CONFLICT (id), so all such lines share one
row, which stays with the first order. `copy[r]` is what FindByID returned
(version, has lines). Reserve calls a service that has no part in the
transaction. Commit writes the row and order.confirmed; with fault `answer` the
caller is told of a failure although it took effect. `StoredStatuses` is the
CHECK of `orders.status`.

### BatchAllocation and OrderLifecycle

The same pattern of clients: two reads (ReadBatch/ReadAllocations,
FindRow/FindItems), changes of the copy by the aggregate's methods in any order,
UpdateTx/Update with the version test, Commit. In BatchAllocation the commit
replaces all allocations by those of the copy, and fault `read` is the unchecked
`rows.Err` after the loops: a read may miss any rows, and its client goes on with
the rest. `lost[c]`, history, are the orders whose rows c's read has missed.
In OrderLifecycle the commit only adds lines, as
the upsert does. The payload of order.cancelled is left out.
`Total(f)` counts the pieces an allocations map hands out, which is its sum.

### RecipeCost

`req[r]` is the POST body; `written` what its transaction has inserted, `stored`
what others see. Insertable is the table: CHECK (quantity > 0), the INT column,
the primary key over recipe and material. A calculation copies the recipe
(FindByID, external) and asks one price after the other (external) while
SetPrice changes them. Wrap is int64 as two's complement of a small width;
CopiesOf the default of `calc_cost.go:57`. Ids are new for each recipe, so the
ON CONFLICT branch of the first statement and the DELETE have no rows to meet.

## 3. Runs

Distinct states are for the exhaustive runs; all invariants are checked on
every one.

| Run | Instance | States | Shows |
|---|---|---|---|
| outbox_safety | 3 rows (two with one created_at), 2 workers, LIMIT 2, max_attempts 2, all faults, workers symmetric | 34,944 | ExclusiveClaim, PendingIsClaimable, AttemptAccounting, SettledIsFinal, and the refinement of EventDelivery |
| inventory_safety | 1 batch received with 2, 2 requests of -1, 1 or 2, 2 passes, time to 3 (its date is 2), aborts and failed publishes, requests and passes symmetric | 699,851 | Ledger, FreshnessIsEarned, VersionsAreEarned, FreshnessNeverReverts, NoDrawAfterExpired, OnlyNegativesRefill, the refinement of AtomicStock |
| confirm_safety | 2 orders, 3 requests, aborts and lost answers, fair | 22,768 | ConfirmedOnce, OneSuccess, ConfirmedIsReserved, RequestsEnd |
| allocation_safety | 3 clients, 2 orders, quantities 1 and 2 of a batch of 3, aborts and missed rows, clients symmetric | 3,406,610 | WithinQty, PromisesKept, NoTornSave |
| lifecycle_safety | 3 clients, 2 lines, aborts | 84,946 | NothingFromNothing, StatusGoesForward, ConfirmedIsFrozen |
| system | 1 batch with date 0 received with 1, 2 requests of -1 or 2, 1 worker, LIMIT 2, max_attempts 2, aborts, failed publishes, crashes, lost outcomes, fair | 371,854 | PassInsideHandler, SuccessMeansMarked, EventsSettle, LateDrawMarks |
| pool | 3 jobs of any kind, 3 connections, 1 batch, 1 order, the reservation in the pool, fair | 157,508 | JamIsNested, JobsEnd, CloseReturns, NoJamStays |
| recipe | 1 recipe of up to 2 lines, 1 calculation, 2 materials, prices 1 and 7, money from -16 to 15, quantities 0, 1, 3, 4 of at most 3 | 9,088 | WholeRecipes, CostIsSum |
| outbox_lost | 2 rows, 1 worker, crash, fair | violation | AtLeastOnce |
| inventory_writeoff_event | 1 batch, 1 request, aborts | violation | WriteoffIsAnnounced |
| confirm_reservation | 1 order, 1 request, aborts | violation | ReservationIsAtomic |
| confirm_lines | 2 orders placed | violation | EmptyMeansNoLines |

### Bounds, and why they are enough

* Outbox: three rows against LIMIT 2 leave one row out of a claim, two workers
  can hold disjoint rows and race, and max_attempts 2 gives a first, a last and
  no further attempt. Rows interact only through the LIMIT and workers
  only through rows.
* Inventory: requests and passes interact pairwise through one row's version,
  so one batch with two of each shows every interaction; the clock runs past its
  date, so that it lives through all marks. What several batches add, a pass that
  ends in the middle, is one batch that is looked at or not.
  A batch is received with 2 and commands carry -1, 1 or 2, so that two requests
  together may ask for too much, and one may refill what the other has taken or
  bring a batch back that was used up. A clock bound (`MaxTime`) is the only bound on
  behaviours; versions and sums are bounded because each request is made once.
* Confirmation: three requests allow one to place and two to confirm, or two
  placed orders to meet in `zeroLine`.
* Allocation and order life: three clients allow a torn read (one commit
  between the two statements of another) with a third that commits after it.
* System: two requests give two events that start passes, beside the one of the
  batch's receipt, so that one pass meets the other request's change, fails and
  is tried again, and a lost event may or may not be followed by another. The
  clock passes the batch's date. The batch is received with 1 and a command carries
  -1 or 2: a draw of 2 is refused until a refill has come before it, and both kinds
  of events start passes. A second worker is left to outbox_safety; the
  safety properties are proved for any number.
* Pool: three connections and three jobs are the smallest instance with a jam of
  two kinds: all three inside RunTx waiting for another connection, and one
  write-off in Publish with two others waiting for its row. JobsEnd speaks of
  the behaviours with at most two jobs in flight at a time.
* Recipe: money is so narrow that the price of a line (7 times 3 in four bits and
  a sign), sums and the product with the copies all wrap; a request
  may name a material twice, or a quantity the column does not take.

`CHECK_DEADLOCK FALSE` stands in every configuration because requests and
clients are made once and then end, and an outbox may be drained: the system
really may stop. A jam of the pool is found by its own definition (`Jam`), as
clients that hang up always leave a step. Symmetry is used in outbox_safety
(workers), inventory_safety (requests, passes), allocation_safety and
lifecycle_safety (clients); no liveness
property is checked there, the refinements there are safety formulas, and the
permuted sets do not occur in expressions that tell their members apart.

### Fairness

`System!FairSpec` assumes WF of Work(w) for each worker: a goroutine whose
process lives is scheduled, its ticker fires, and a pass is a loop over a finite
result. A request that has begun comes to its end (net/http gives it a goroutine;
no request has to begin), and time goes by. Nothing is assumed about crashes,
failures or which of two rows is looked at first: rows that fail compete with
all others, and EventsSettle holds because each claim uses up an attempt.
`OutboxWorker!FairSpec`, under which AtLeastOnce is refuted, assumes WF of Progress(w).
`OrderConfirmation!FairSpec` assumes WF of Step(r) for the same reason as above;
Abort is not fair. A request that waits for a row lock is
disabled, and RequestsEnd says that the holder always lets it go on.
`ConnectionPool!FairSpec` assumes WF of Work(j): Acquire serves a job that can be
served, statements are answered, goroutines run. Weak fairness is enough for
JobsEnd: with a connection to spare somebody can always go on, and each job that
gets ahead of another, for a connection or a row, comes to its end.
WF of Close and Exit is main coming to its next line. That clients
hang up is no part of it; NoJamStays adds it as its hypothesis.

## 4. Findings

Each violation run checks one sentence of the repository's texts; the texts are
quoted in `PROJECT.json`.

1. The outbox is not "at least once" (`outbox_worker.go:71`): rows in
   `processing` are never read again after a worker dies.
2. A write-off's event is committed apart from the write-off
   (`writeoff_batch.go:41`), so either can exist without the other.
3. A reservation outlives the transaction it was made in
   (`confirm_order.go:77`), and nothing ever releases one.
4. After the first order placed through the storefront, lines without ids are
   lost and later orders are refused as empty (`place_order.go:58`).

Other disagreements met while modelling, which are plain to read and for which
no run was made:

* `outbox_worker.go:27` promises "give up after this many failures per event";
  the setting is stored and never read, the row's `max_attempts` decides.
* `inventory.batch_expired` is recorded in the aggregate and dropped
  (`recalc_freshness_handler.go:53` saves the row, the pass has no publisher),
  though `docs/ARCHITECTURE.md:41` publishes events through the outbox and main
  has a case for this one.
* `recalc_freshness_handler.go:21` says the pass "is invoked periodically"; it is
  invoked for events only (`main.go:74`), so where nothing is sold a batch past
  its date is never marked. LateDrawMarks is the half that holds.
* `main.go:104` and `:108` make the production and storefront handlers without
  the cost handler and the place-order handler that their constructors ask for.
* The catalog's queries select `purchase_price_copecks` and
  `purchase_price_currency` (`catalog_reader.go:32`), columns of no migration, and order
  by `expires_at`, which is there the printed day and not the time.
* `docs/ARCHITECTURE.md:101` says that an expired batch cannot be used; Consume
  (`domain/batch.go:84`) tests the stored mark, not the date.
* `kernel/types.go:129` says batches become critical within 24 h; a pass marks a
  fresh batch within 24 h as aging first (`recalc_freshness_handler.go:41`).
* `domain/batch.go:82` says Consume reduces the quantity; a negative one adds, also
  to a batch that has sold out, and takes stock above what was received.
  OnlyNegativesRefill: nothing else does.
* The CHECK of `migrations/001:47` does not know `draft`, the status the code
  inserts. Theorem NoDraftNoOrder: with that CHECK no order is ever stored. The
  runs use the statuses of `order.go` so that the rest can be examined.
* Ordering's `batch_repository.go:157-165` and `:213-220` do not look at
  `rows.Err`, as `order_repository.go:201` does. A client whose read has missed rows
  saves the batch without them, so committed allocations are forgotten. The run has
  that fault on, PromisesKept and NoTornSave name exactly this case, and WithinQty
  holds in spite of it.
* `place_order.go:65` calls `NewOrder(storeID, items)`, while `order.go:66` takes a
  customer and no items. OrderConfirmation follows the caller (the order has the
  lines of the request), and the finding on lost lines rests on that reading.
* `order.go:157` and `docs/DOMAIN_LOGIC.md:34` allow Cancel in draft and
  confirmed only; the guard refuses cancelled and shipped only.
* `README.md:36` and `:50` say that cancelling releases reserves; it does not.
* RemoveItem (`order.go:101`) has no effect on a stored line: the repository
  upserts and never deletes (`order_repository.go:213`).
* `order.go:166` changes the status before `:172` copies it into PrevStatus.

## 5. Proofs

All theorems hold for every value of the constants that satisfies the module's
named assumption (sets of any size, any quantities, any number of processes).
Each proofs module has the same shape: an inductive invariant `IInv`, a lemma
for Init, one lemma per action or per group of actions that disturb the same
parts, `NextIInv` by cases of Next, and theorem
`Invariance == Spec => []IInv`, from which the listed theorems follow.

* `OutboxWorkerProofs`. AttemptAccounting is not inductive, as it says nothing of
  rows being processed. `RowHistory` ties runs, wins and attempts to the status
  of each row, `LoopHistory` to the place of the row in a loop. ExclusiveClaim is
  what makes the outcome decided on `seen` right. Proved: TypeOK, ExclusiveClaim,
  PendingIsClaimable, AttemptAccounting, SettledIsFinal, and DeliverySpec step by
  step: every action is a step of EventDelivery or a stutter. All with all faults.
  Two theorems put a frame around the finding about "at least once". BoundedEffort is
  the part of liveness that is safety: after its insert a row has at most five
  steps for each of its attempts, and whatever changes a row spends one of them
  (`Budget`, a number that never grows), so no row, fault or race keeps the
  workers busy for ever. OnlyFaultsLose: without crashes, signals and lost
  statements a row in `processing` is always in some worker's hands.
* `InventoryProofs`. A copy that carries the current version is the
  current row less its own draw (`CopyInv`), the same for the batches in a pass
  (`SnapInv`); a copy never has a newer version than the row; the lock holder's
  copy is current (`LockInv`); the clock of a pass is never ahead (`ClockInv`);
  a row that is absent has no history (`AbsentInv`). Proved: TypeOK, Ledger, FreshnessIsEarned,
  FreshnessNeverReverts, NoDrawAfterExpired, and that Inventory implements
  AtomicStock, for integer quantities of any sign. WithinBounds, also for any sign:
  stock is above what was received only after a committed command with a negative
  quantity (StockBounds, which is not checked by a run).
  How far publishing outside of the transaction alone, without an error or a
  rollback, spoils the events of write-offs (finding 2) is AnnouncedIsCommitted: they
  are ahead only by what the holder of the row's lock is about to commit.
  NoEmptyWrites bounds the conflicts optimistic locking can cause: a row's version
  is at most the rank of its mark plus the number of draws and write-offs committed
  on it (VersionsAreEarned). A pass that writes although nothing changed would break
  it. n requests thus make at most n + 4 versions of a row, and whoever fails on a
  conflict fails on one of them. It is proved with `IInv` alone, whether the requests
  are finitely many or not: what is counted are the committed ones.
  For the catalog: NothingReturns, which is OnlyNegativesRefill for quantities of any
  sign. It says of every step that raises stock or brings a batch back which command
  has done it: `Taken`, the only kind of step that changes what remains, carries the
  request that becomes done. RefillsAreFinal: such a command stays in `Refills`.
* `OrderConfirmationProofs`. A handler that passed the draft test read version
  0, and the first commit makes it 1: a copy with the current version is of a
  draft. Proved: TypeOK, ConfirmedOnce, OneSuccess, ConfirmedIsReserved, with
  all faults, and NoDraftNoOrder (above). From ConfirmedIsReserved follows OneOrderEver, how
  far finding 4 goes: of all orders placed through the storefront at most one is
  ever confirmed.
* `BatchAllocationProofs`. No version is used for two states of the table
  (`SeenInv`: no client has read a version yet to come), so the untouched part of
  a copy whose version is current is current (NoTornSave, which with `LockInv`
  and `UntouchedInv` is inductive); what it has of an order its read has missed is 0.
  Proved, with both faults: TypeOK, WithinQty, PromisesKept and NoTornSave. WithinQty is about
  a sum over a function. To keep induction out, the sum is the number of pieces
  the map hands out, a cardinality: a copy that loses rows has fewer pieces
  (TotalMonotone), and putting q in one order's place adds at most q (TotalPut).
* `OrderLifecycleProofs`. A copy with the current version is a later state of
  the stored row, it has the row's lines once the row has left the draft, and
  what it has confirmed has lines and a reservation (`CopyInv`); a half-read
  copy with the current version has the row's status (`HalfInv`); the lock
  holder's version is current (`LockInv`). Proved: TypeOK, NothingFromNothing, StatusGoesForward,
  ConfirmedIsFrozen.
* `SystemProofs`. Every step of the composition is a step or a stutter of
  Inventory (ImplementsInventory) and of OutboxWorker (ImplementsOutbox). The two
  proofs modules are instantiated with the system's variables, and their
  assumptions follow from PartsAssumption, so that what is proved of a part holds
  of the system without a second proof; NothingLost states it for the Ledger.
  On top of that: a worker's pass has batches left only while a handler call of one
  event is open (PassInsideHandler), and each batch the pass has read is still to
  be looked at or carries the mark its time demands (the core of `IInv`), from
  which SuccessMeansMarked follows when nothing is left to look at. The marks
  stay because freshness never reverts, a fact of the instance of Inventory.
  DoneIsTrue carries it from the call to the table: the UPDATE that writes `done`
  leaves those batches marked. LateDoneIsMarked is the same seen from the shelf: from the
  moment an event is pending after a batch's date, `done` means that the batch is off
  the shelf. Its invariant `Late` says that no worker has the event in hand on behalf of
  a pass that began before that date or did not read the batch; a batch that is off the
  shelf stays off until a negative command refills it (NothingReturns), so the theorem
  speaks of the behaviours up to the next refill of that batch, for quantities of any
  sign. A refill is never undone (RefillsAreFinal), hence S is the set of the refills
  there were when the event was pending. StockIsAtomic and EventsAreDelivered carry both
  refinements over, so the whole system implements AtomicStock and
  EventDelivery. EventsMatchChanges is what a transactional outbox is for: a batch
  and a draw are in the database if and only if their event is. It needs facts of
  both sides, that a late commit or save never brings a row into being (`CopyInv`,
  `LockInv`, `SnapInv` of Inventory) and that a late outcome is written to a row
  that is there (ExclusiveClaim). HandlersSeeCommitted follows.
* `ConnectionPoolProofs`. `IInv` says what of its script each job has left, that
  a job is in `tx` exactly between its begin and its commit, in `stmt` only before a
  statement on the pool, and that the holder of a row is in `tx` past its update.
  The holder of a row is past its update, so it waits for no row, and in a jam it is
  inside Acquire with its transaction's connection in hand; where nobody waits for a row
  all are inside Acquire and the connections in use are such jobs'. Proved: TypeOK
  (with the bound MaxConns), JamIsNested, RoomForAll, for any jobs, rows and MaxConns.
  JamCanEnd says who could end a jam. A write-off in Publish cannot be cancelled, but
  it has made a query on a second connection before, so the last of them to do so
  has found one free: fewer than MaxConns jobs are past that query (`RoomInv`). In
  every jam there is therefore a job that can be cancelled, or, before the signal,
  a pass whose Save holds the missing connection and waits for the row of a
  write-off in Publish. Nobody ends that last jam before the
  signal. JamHasWriteoff: where stock is not reserved in this pool,
  every jam has a write-off that asks for a second connection inside RunTx.
* `RecipeCostProofs`. What a transaction has written is its recipe's lines as far as it has
  come, and others see nothing of it before it has committed (`SaveInv`); the copy a
  calculation works on is a stored recipe (`LoadInv`), and its running total is the
  wrapped sum of the lines whose price has been asked (`SumInv`). Two arguments carry
  CostIsSum. A wrap keeps the remainder by 2^w, sums and products respect remainders, and two
  machine integers with one remainder are equal: so the wraps on the way make no
  difference (`WrapOfSum`, `WrapOfProduct`). And the sum itself is stated without a
  recursive definition, as the number of kopecks on the bill: one more line adds
  a disjoint block of them (`UnitsOfOneMore`). The one
  assumption beyond the types is that the materials are finitely many.
  Proved: TypeOK, WholeRecipes, CostIsSum, for any requests, lines, prices and width.

Only model-checked, as liveness is out of the prover's reach: RequestsEnd, EventsSettle,
LateDrawMarks, JobsEnd, CloseReturns and NoJamStays. What of them is safety is proved:
for EventsSettle, that a row can take only so many steps (BoundedEffort) and that
retries fail on only so many conflicts (NoEmptyWrites); for LateDrawMarks, that `done`
cannot come without the mark (LateDoneIsMarked); for NoJamStays, that somebody can
end the jam (JamCanEnd). That the remaining steps are taken is what fairness adds.
Proved and in no run: StockBounds, RoomForAll, JamCanEnd, JamHasWriteoff, the type invariant of
System, its Ledger, and the properties that the proofs modules define themselves.
The existence of a step in the abstract specification is proved, ENABLED is not used,
and no sum is computed by induction: both sums are cardinalities.

## 6. Not modelled, and what could follow

Modelled, most important first: the outbox with its abstract specification, the
inventory with its own, confirmation, allocation, the order's life, the system
of inventory and outbox, the connections, the catalog, recipes and costs.
What could follow, in this order:

1. Abstract specifications for allocation (atomic reservation of a quantity) and
   for the order's life (one status machine), implemented by the two modules,
   with the refinement proved.
2. Order events in `System`: today order.confirmed has no handler in main, so the
   outbox only marks it done.

Left out of modelled parts: `Batch.Release` and the inventory queries without a
caller, `WriteOffBatchHandler` of `receive_batch.go` (it calls a method that does
not exist), the columns no modelled statement tests, and the order and prices
of a catalog page.

Not planned: HTTP decoding and status codes, the kernel's value objects,
configuration, the Redis client (nothing uses it), the older outbox publisher
(not wired), formatting and logging.
