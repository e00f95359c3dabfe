----------------------------- MODULE SystemProofs -----------------------------
(***************************************************************************)
(* The system is no more than its parts allow: each of its behaviours is   *)
(* one of Inventory and one of OutboxWorker, so what is proved of them     *)
(* holds of it, for any batches, requests, workers, dates and faults.      *)
(* What a successful event means is proved from that.                      *)
(***************************************************************************)
EXTENDS System, TLAPS

IP == INSTANCE InventoryProofs WITH Sweepers <- Workers, Faults <- StockFaults
OP == INSTANCE OutboxWorkerProofs WITH
        CreatedAt <- [e \in Events |-> 0], Faults <- OutboxFaults

-----------------------------------------------------------------------------
(* A step of the system is one of Inventory, or leaves its variables alone. *)
LEMMA StockSteps == [Next]_vars => [I!Next]_stock
  <1> SUFFICES ASSUME [Next]_vars PROVE I!Next \/ UNCHANGED stock
    OBVIOUS
  <1>1. ASSUME NEW b \in Batches, Receive(b) PROVE I!Next
    BY <1>1 DEF Receive, I!Next
  <1>2. ASSUME NEW r \in Requests, Request(r) PROVE I!Next
    BY <1>2 DEF Request, CommitConsume, Publish, Quiet, I!Next, I!Request
  <1>3. ASSUME NEW w \in Workers, Work(w) \/ Crash(w) PROVE I!Next \/ UNCHANGED stock
    BY <1>3 DEF Work, Poll, Dispatch, Pass, HandlerOk, HandlerErr, Crash, I!Next, I!Sweep
  <1>4. CASE Tick
    BY <1>4 DEF Tick, I!Next
  <1>5. CASE UNCHANGED vars
    BY <1>5 DEF vars
  <1>6. QED
    BY <1>1, <1>2, <1>3, <1>4, <1>5 DEF Next

(* The same for OutboxWorker.                                              *)
LEMMA TableSteps == [Next]_vars => [O!Next]_table
  <1> SUFFICES ASSUME [Next]_vars PROVE O!Next \/ UNCHANGED table
    OBVIOUS
  <1>1. ASSUME NEW b \in Batches, Receive(b) PROVE O!Next
    BY <1>1 DEF Receive, O!Next, Events
  <1>2. ASSUME NEW r \in Requests, Request(r) PROVE O!Next \/ UNCHANGED table
    BY <1>2 DEF Request, CommitConsume, Publish, Quiet, O!Next, Events
  <1>3. ASSUME NEW w \in Workers, Work(w) \/ Crash(w) PROVE O!Next \/ UNCHANGED table
    BY <1>3 DEF Work, Poll, Dispatch, Pass, HandlerOk, HandlerErr, Crash, O!Next, O!Progress
  <1>4. CASE Tick
    BY <1>4 DEF Tick
  <1>5. CASE UNCHANGED vars
    BY <1>5 DEF vars
  <1>6. QED
    BY <1>1, <1>2, <1>3, <1>4, <1>5 DEF Next

(* Requests and passes behave in the system as Inventory says: the worker  *)
(* that starts a pass, waits for it and drops it when it dies only chooses *)
(* when Inventory's steps happen.                                          *)
THEOREM ImplementsInventory == Spec => I!Spec
  <1>1. Init => I!Init
    BY DEF Init
  <1>2. UNCHANGED stock => UNCHANGED I!vars
    BY DEF stock, I!vars
  <1>3. [Next]_vars => [I!Next]_(I!vars)
    BY <1>2, StockSteps
  <1>4. QED
    BY <1>1, <1>3, PTL DEF Spec, I!Spec

(* The table and its workers behave in the system as OutboxWorker says.    *)
THEOREM ImplementsOutbox == Spec => O!Spec
  <1>1. Init => O!Init
    BY DEF Init
  <1>2. UNCHANGED table => UNCHANGED O!vars
    BY DEF table, O!vars
  <1>3. [Next]_vars => [O!Next]_(O!vars)
    BY <1>2, TableSteps
  <1>4. QED
    BY <1>1, <1>3, PTL DEF Spec, O!Spec

-----------------------------------------------------------------------------
(* The instance of the module with the proofs is the same specification.   *)
LEMMA SameInventory == I!Spec => IP!Spec
  <1>1. I!Init => IP!Init
    BY DEF I!Init, IP!Init, I!NoRow, IP!NoRow, I!Command, IP!Command
  <1>2. I!Next => IP!Next
    BY DEF I!Next, I!Receive, I!Request, I!Load, I!Refuse, I!UpdateTx, I!Conflict, I!Publish,
       I!PublishFails, I!CommitConsume, I!CommitWriteoff, I!Abort, I!Usable, I!Accepts, I!Locked,
       I!Stored, I!passes, I!history, I!Sweep, I!SweepStart, I!SweepFail, I!SweepSkip, I!SweepSave,
       I!Target, I!Transition, I!Todo, I!Active, I!NoRow, I!Tick,
       IP!Next, IP!Receive, IP!Request, IP!Load, IP!Refuse, IP!UpdateTx, IP!Conflict, IP!Publish,
       IP!PublishFails, IP!CommitConsume, IP!CommitWriteoff, IP!Abort, IP!Usable, IP!Accepts,
       IP!Locked, IP!Stored, IP!passes, IP!history, IP!Sweep, IP!SweepStart, IP!SweepFail,
       IP!SweepSkip, IP!SweepSave, IP!Target, IP!Transition, IP!Todo, IP!Active, IP!NoRow, IP!Tick
  <1>3. UNCHANGED I!vars => UNCHANGED IP!vars
    BY DEF I!vars, IP!vars
  <1>4. [I!Next]_(I!vars) => [IP!Next]_(IP!vars)
    BY <1>2, <1>3
  <1>5. QED
    BY <1>1, <1>4, PTL DEF I!Spec, IP!Spec

LEMMA SameOutbox == O!Spec => OP!Spec
  <1>1. O!Init => OP!Init
    BY DEF O!Init, OP!Init
  <1>2. O!Next => OP!Next
    BY DEF O!Next, O!Insert, O!Progress, O!Claim, O!Restart, O!Call, O!HandlerOk, O!HandlerErr,
       O!Settle, O!SettleLost, O!Outcome, O!Cancel, O!Crash, O!Idle, O!Busy, O!Eligible, O!Claimable, O!Cardinality,
       OP!Next, OP!Insert, OP!Progress, OP!Claim, OP!Restart, OP!Call, OP!HandlerOk, OP!HandlerErr,
       OP!Settle, OP!SettleLost, OP!Outcome, OP!Cancel, OP!Crash, OP!Idle, OP!Busy, OP!Eligible,
       OP!Claimable, OP!Cardinality
  <1>3. UNCHANGED O!vars => UNCHANGED OP!vars
    BY DEF O!vars, OP!vars
  <1>4. [O!Next]_(O!vars) => [OP!Next]_(OP!vars)
    BY <1>2, <1>3
  <1>5. QED
    BY <1>1, <1>4, PTL DEF O!Spec, OP!Spec

(* In the whole system no change of stock is lost, for all requests and    *)
(* the passes events start.                                                *)
THEOREM NothingLost == Spec => []I!Ledger
  <1>1. IP!Ledger => I!Ledger
    BY DEF I!Ledger, IP!Ledger
  <1>2. QED
    BY <1>1, PartsAssumption, ImplementsInventory, SameInventory, IP!NothingLost, PTL

-----------------------------------------------------------------------------
Engaged(w, e) == hold[w][e] \in {"handling", "ok", "err"}

(* The mark a pass that began at asOf[w] has to see to.                    *)
Floor(w, b) ==
  IF asOf[w] > Expiry[b] THEN 4 ELSE IF asOf[w] + AgingThreshold > Expiry[b] THEN 2 ELSE 0

MarkOf(b) == I!Rank[row[b].freshness]

(* What w's loop and its pass have to do with each other.                  *)
OneEngaged(w) == \A e, f \in Events : Engaged(w, e) /\ Engaged(w, f) => e = f

PassHasCall(w) == I!Todo(w) # {} => \E e \in Requests : hold[w][e] = "handling"

SnapIsOlder(w) ==
  \A b \in Batches : snap[w][b] # I!NoRow => I!Rank[snap[w][b].freshness] <= MarkOf(b)

MarkedSoFar(w) ==
  \A e \in Events : hold[w][e] \in {"handling", "ok"} /\ StartsPass(e) =>
    \A b \in scope[w] \ I!Todo(w) : Floor(w, b) <= MarkOf(b)

WInv(w) ==
  /\ I!Todo(w) \subseteq scope[w]
  /\ OneEngaged(w) /\ PassHasCall(w) /\ SnapIsOlder(w) /\ MarkedSoFar(w)

IInv == \A w \in Workers : WInv(w)

(* What the parts' theorems say of a state and of a step.                  *)
Parts == TypeOK /\ IP!SnapInv

Older == \A b \in Batches : MarkOf(b) <= MarkOf(b)'

Known == Parts /\ Parts' /\ Older

-----------------------------------------------------------------------------
(* Marks are numbers from 0 to 4.                                          *)
LEMMA MarkType == Parts /\ Parts' => \A b \in Batches : MarkOf(b) \in 0..4 /\ MarkOf(b)' \in 0..4
  BY DEF Parts, TypeOK, I!TypeOK, I!Row, I!Freshness, I!Rank, MarkOf

(* A step that leaves w's pass alone and starts or ends no call of w's     *)
(* handler, and whatever other processes do to the rows.                   *)
LEMMA Elsewhere ==
  ASSUME Known, NEW w \in Workers, WInv(w), UNCHANGED cmd,
         snap'[w] = snap[w], asOf'[w] = asOf[w], scope'[w] = scope[w],
         \A e \in Events : /\ Engaged(w, e)' => Engaged(w, e)
                           /\ hold'[w][e] = "handling" <=> hold[w][e] = "handling"
                           /\ hold'[w][e] = "ok" => hold[w][e] = "ok"
  PROVE  WInv(w)'
  <1>1. I!Todo(w)' = I!Todo(w) /\ \A e \in Events : StartsPass(e)' = StartsPass(e)
    BY DEF I!Todo, StartsPass
  <1>2. \A b \in Batches : MarkOf(b) \in 0..4 /\ MarkOf(b)' \in 0..4 /\ MarkOf(b) <= MarkOf(b)'
    BY MarkType DEF Known, Parts, Older
  <1>3. \A b \in Batches : Floor(w, b)' = Floor(w, b) /\ Floor(w, b) \in {0, 2, 4}
    BY DEF Floor
  <1>4. OneEngaged(w)' /\ PassHasCall(w)'
    BY <1>1 DEF WInv, OneEngaged, PassHasCall, Events
  <1>5. SnapIsOlder(w)'
    <2>1. \A b \in Batches : snap[w][b] \in I!Row
      BY DEF Known, Parts, TypeOK, I!TypeOK
    <2>2. \A b \in Batches : I!Rank[snap[w][b].freshness] \in 0..4
      BY <2>1 DEF I!Row, I!Freshness, I!Rank
    <2>3. QED
      BY <1>2, <2>2 DEF WInv, SnapIsOlder
  <1>6. MarkedSoFar(w)'
    <2>1. \A b \in Batches : Floor(w, b) <= MarkOf(b) => Floor(w, b)' <= MarkOf(b)'
      BY <1>2, <1>3
    <2>2. scope[w] \subseteq Batches
      BY DEF Known, Parts, TypeOK
    <2>3. QED
      BY <1>1, <2>1, <2>2 DEF WInv, MarkedSoFar
  <1>7. QED
    BY <1>1, <1>4, <1>5, <1>6 DEF WInv

(* The worker's own statements end calls and start none.                   *)
LEMMA PollWInv ==
  ASSUME Known, NEW w \in Workers, WInv(w), Poll(w)
  PROVE  WInv(w)'
  <1>1. UNCHANGED <<cmd, snap, asOf, scope>>
    BY DEF Poll, stock
  <1>2. \A e \in Events : /\ hold'[w][e] \in {hold[w][e], "none", "queued"}
                          /\ hold[w][e] = "handling" => hold'[w][e] = "handling"
    <2>1. CASE O!Claim(w)
      BY <2>1 DEF Known, Parts, TypeOK, O!TypeOK, O!Claim, O!Idle
    <2>2. ASSUME NEW f \in Events, O!Settle(w, f) \/ O!SettleLost(w, f)
          PROVE  \A e \in Events : hold'[w][e] = IF e = f THEN "none" ELSE hold[w][e]
      BY <2>2 DEF Known, Parts, TypeOK, O!TypeOK, O!Settle, O!SettleLost
    <2>3. ASSUME NEW f \in Events, O!Settle(w, f) \/ O!SettleLost(w, f)
          PROVE  hold[w][f] # "handling"
      BY <2>3 DEF O!Settle, O!SettleLost
    <2>4. QED
      BY <2>1, <2>2, <2>3 DEF Poll
  <1>3. QED
    BY <1>1, <1>2, Elsewhere DEF Engaged

(* A dispatched draw or write-off begins with every active batch to do.    *)
LEMMA DispatchWInv ==
  ASSUME Known, NEW w \in Workers, NEW e \in Events, WInv(w), Dispatch(w, e)
  PROVE  WInv(w)'
  <1>1. \A f \in Events : /\ hold'[w][f] = IF f = e THEN "handling" ELSE hold[w][f]
                          /\ ~Engaged(w, f)
    BY DEF Dispatch, O!Call, O!Busy, Engaged, Known, Parts, TypeOK, O!TypeOK
  <1>2. I!Todo(w) = {}
    BY <1>1 DEF WInv, PassHasCall, Engaged, Events
  <1>3. OneEngaged(w)'
    BY <1>1 DEF OneEngaged, Engaged
  <1>4. CASE StartsPass(e) /\ I!SweepStart(w) /\ scope' = [scope EXCEPT ![w] = I!Active]
    <2>1. e \in Requests
      BY <1>4 DEF StartsPass
    <2>2. \A b \in Batches : snap'[w][b] = IF b \in I!Active THEN row[b] ELSE I!NoRow
      BY <1>4 DEF I!SweepStart, Known, Parts, TypeOK, I!TypeOK
    <2>3. scope'[w] = I!Active /\ UNCHANGED row
      BY <1>4 DEF I!SweepStart, Known, Parts, TypeOK
    <2>4. I!Todo(w)' = I!Active
      BY <2>2 DEF I!Todo, I!Active, I!Usable, I!NoRow
    <2>5. PassHasCall(w)'
      BY <1>1, <2>1 DEF PassHasCall, Events
    <2>6. SnapIsOlder(w)'
      BY <2>2, <2>3, MarkType DEF SnapIsOlder, MarkOf, Known
    <2>7. MarkedSoFar(w)'
      BY <2>3, <2>4 DEF MarkedSoFar
    <2>8. QED
      BY <1>3, <2>3, <2>4, <2>5, <2>6, <2>7 DEF WInv
  <1>5. CASE ~StartsPass(e) /\ UNCHANGED <<stock, scope>>
    <2>1. UNCHANGED <<row, snap, asOf, cmd, scope>>
      BY <1>5 DEF stock
    <2>2. I!Todo(w)' = {} /\ ~StartsPass(e)'
      BY <1>2, <1>5, <2>1 DEF I!Todo, StartsPass
    <2>3. SnapIsOlder(w)' /\ PassHasCall(w)'
      BY <2>1, <2>2 DEF WInv, SnapIsOlder, MarkOf, PassHasCall
    <2>4. MarkedSoFar(w)'
      BY <1>1, <2>2 DEF MarkedSoFar, Engaged
    <2>5. QED
      BY <1>3, <2>2, <2>3, <2>4 DEF WInv
  <1>6. QED
    BY <1>4, <1>5 DEF Dispatch

(* A pass that skips or saves a batch has done what the clock asks for.    *)
LEMMA PassWInv ==
  ASSUME Known, NEW w \in Workers, WInv(w), Pass(w)
  PROVE  WInv(w)'
  <1>1. PICK b \in Batches : I!SweepSkip(w, b) \/ I!SweepSave(w, b)
    BY DEF Pass
  <1>2. /\ UNCHANGED <<cmd, asOf, hold, scope>> /\ b \in I!Todo(w)
        /\ snap' = [snap EXCEPT ![w][b] = I!NoRow]
    BY <1>1 DEF Pass, table, I!SweepSkip, I!SweepSave
  <1>3. \A c \in Batches : snap'[w][c] = IF c = b THEN I!NoRow ELSE snap[w][c]
    BY <1>2 DEF Known, Parts, TypeOK, I!TypeOK
  <1>4. I!Todo(w)' = I!Todo(w) \ {b}
    BY <1>3 DEF I!Todo
  <1>5. \A c \in Batches : MarkOf(c) \in 0..4 /\ MarkOf(c)' \in 0..4 /\ MarkOf(c) <= MarkOf(c)'
    BY MarkType DEF Known, Older
  <1>6. \A c \in Batches : Floor(w, c)' = Floor(w, c) /\ Floor(w, c) \in {0, 2, 4}
    BY <1>2 DEF Floor
  <1>7. snap[w][b] \in I!Row /\ I!Usable(snap[w][b])
    <2>1. snap[w][b] # IP!NoRow
      BY <1>2 DEF I!Todo, I!NoRow, IP!NoRow
    <2>2. IP!Usable(snap[w][b])
      BY <2>1 DEF Known, Parts, IP!SnapInv
    <2>3. QED
      BY <2>2 DEF IP!Usable, I!Usable, Known, Parts, TypeOK, I!TypeOK
  <1>8. Floor(w, b) <= I!Rank[I!Target(w, b)]
    <2>1. snap[w][b].freshness \in {"fresh", "aging", "critical"}
      BY <1>7 DEF I!Usable, I!Row, I!Freshness
    <2>2. QED
      BY <2>1 DEF Floor, I!Target, I!Transition, I!Rank
  <1>9. Floor(w, b) <= MarkOf(b)'
    <2>1. CASE I!SweepSkip(w, b)
      <3>1. I!Target(w, b) = snap[w][b].freshness
        BY <2>1 DEF I!SweepSkip
      <3>2. I!Rank[snap[w][b].freshness] <= MarkOf(b)
        BY <1>2 DEF WInv, SnapIsOlder, I!Todo
      <3>3. I!Rank[snap[w][b].freshness] \in 0..4
        BY <1>7 DEF I!Row, I!Freshness, I!Rank
      <3>4. QED
        BY <1>5, <1>6, <1>8, <3>1, <3>2, <3>3
    <2>2. CASE I!SweepSave(w, b)
      <3>1. row' = [row EXCEPT ![b] =
                      I!Stored([snap[w][b] EXCEPT !.freshness = I!Target(w, b)])]
        BY <2>2 DEF I!SweepSave
      <3>2. row'[b] = I!Stored([snap[w][b] EXCEPT !.freshness = I!Target(w, b)])
        BY <3>1 DEF Known, Parts, TypeOK, I!TypeOK
      <3>3. row'[b].freshness = I!Target(w, b)
        BY <1>7, <3>2 DEF I!Stored, I!Row
      <3>4. QED
        BY <1>8, <3>3 DEF MarkOf
    <2>3. QED
      BY <1>1, <2>1, <2>2
  <1>10. OneEngaged(w)' /\ PassHasCall(w)'
    BY <1>2, <1>4 DEF WInv, OneEngaged, Engaged, PassHasCall
  <1>11. SnapIsOlder(w)'
    <2>1. \A c \in Batches : snap[w][c] \in I!Row
      BY DEF Known, Parts, TypeOK, I!TypeOK
    <2>2. \A c \in Batches : I!Rank[snap[w][c].freshness] \in 0..4
      BY <2>1 DEF I!Row, I!Freshness, I!Rank
    <2>3. QED
      BY <1>3, <1>5, <2>2 DEF WInv, SnapIsOlder
  <1>12. MarkedSoFar(w)'
    <2>1. \A e \in Events : StartsPass(e)' = StartsPass(e)
      BY <1>2 DEF StartsPass
    <2>2. \A c \in Batches : Floor(w, c) <= MarkOf(c) => Floor(w, c)' <= MarkOf(c)'
      BY <1>5, <1>6
    <2>3. scope[w] \subseteq Batches
      BY DEF Known, Parts, TypeOK
    <2>4. QED
      BY <1>2, <1>4, <1>6, <1>9, <2>1, <2>2, <2>3 DEF WInv, MarkedSoFar
  <1>13. QED
    BY <1>2, <1>4, <1>10, <1>11, <1>12 DEF WInv

(* The call returns nil when its pass has nothing left to do.              *)
LEMMA HandlerOkWInv ==
  ASSUME Known, NEW w \in Workers, NEW e \in Events, WInv(w), HandlerOk(w, e)
  PROVE  WInv(w)'
  <1>1. UNCHANGED <<row, snap, asOf, cmd, scope>> /\ I!Todo(w) = {} /\ hold[w][e] = "handling"
    BY DEF HandlerOk, stock, O!HandlerOk
  <1>2. \A f \in Events : hold'[w][f] = IF f = e THEN "ok" ELSE hold[w][f]
    BY DEF HandlerOk, O!HandlerOk, Known, Parts, TypeOK, O!TypeOK
  <1>3. I!Todo(w)' = {} /\ \A f \in Events : StartsPass(f)' = StartsPass(f)
    BY <1>1 DEF I!Todo, StartsPass
  <1>4. OneEngaged(w)'
    BY <1>1, <1>2 DEF WInv, OneEngaged, Engaged
  <1>5. SnapIsOlder(w)' /\ PassHasCall(w)'
    BY <1>1, <1>3 DEF WInv, SnapIsOlder, MarkOf, PassHasCall
  <1>6. MarkedSoFar(w)'
    BY <1>1, <1>2, <1>3 DEF WInv, MarkedSoFar, Floor, MarkOf
  <1>7. QED
    BY <1>3, <1>4, <1>5, <1>6 DEF WInv

(* An error ends the pass with the call; so does the end of the process.   *)
LEMMA DropWInv ==
  ASSUME Known, NEW w \in Workers, WInv(w), Crash(w) \/ \E e \in Events : HandlerErr(w, e)
  PROVE  WInv(w)'
  <1>1. I!Todo(w)' = {}
    <2>1. CASE Crash(w)
      BY <2>1 DEF Crash, stock, I!SweepFail, I!Todo, Known, Parts, TypeOK, I!TypeOK
    <2>2. ASSUME NEW e \in Events, HandlerErr(w, e) PROVE I!Todo(w)' = {}
      BY <2>2 DEF HandlerErr, stock, I!SweepFail, I!Todo, WInv, Known, Parts, TypeOK, I!TypeOK
    <2>3. QED
      BY <2>1, <2>2
  <1>2. OneEngaged(w)' /\ \A f \in Events : hold'[w][f] \notin {"handling", "ok"}
    <2>1. CASE Crash(w)
      BY <2>1 DEF Crash, O!Crash, OneEngaged, Engaged, Known, Parts, TypeOK, O!TypeOK
    <2>2. ASSUME NEW e \in Events, HandlerErr(w, e)
          PROVE  /\ hold[w][e] = "handling"
                 /\ \A f \in Events : hold'[w][f] = IF f = e THEN "err" ELSE hold[w][f]
      BY <2>2 DEF HandlerErr, O!HandlerErr, Known, Parts, TypeOK, O!TypeOK
    <2>3. QED
      BY <2>1, <2>2 DEF WInv, OneEngaged, Engaged
  <1>3. PassHasCall(w)' /\ I!Todo(w)' \subseteq scope'[w]
    BY <1>1 DEF PassHasCall
  <1>4. SnapIsOlder(w)'
    BY <1>1 DEF SnapIsOlder, I!Todo
  <1>5. MarkedSoFar(w)'
    BY <1>2 DEF MarkedSoFar
  <1>6. QED
    BY <1>2, <1>3, <1>4, <1>5 DEF WInv

(* The steps of one process are seen by another in the rows only.          *)
LEMMA OtherWInv ==
  ASSUME Known, NEW w \in Workers, NEW v \in Workers \ {w}, WInv(v), Work(w) \/ Crash(w)
  PROVE  WInv(v)'
  <1>1. hold'[v] = hold[v]
    BY DEF Work, Poll, Dispatch, Pass, HandlerOk, HandlerErr, Crash, table, O!Claim, O!Settle,
       O!SettleLost, O!Call, O!HandlerOk, O!HandlerErr, O!Crash, Known, Parts, TypeOK, O!TypeOK
  <1>2. UNCHANGED cmd /\ snap'[v] = snap[v] /\ asOf'[v] = asOf[v]
    BY DEF Work, Poll, Dispatch, Pass, HandlerOk, HandlerErr, Crash, stock, I!SweepStart,
       I!SweepSkip, I!SweepSave, I!SweepFail, I!history, Known, Parts, TypeOK, I!TypeOK
  <1>3. scope'[v] = scope[v]
    BY DEF Work, Poll, Dispatch, Pass, HandlerOk, HandlerErr, Crash, Known, Parts, TypeOK
  <1>4. QED
    BY <1>1, <1>2, <1>3, Elsewhere DEF Engaged

(* Requests, receipts and the clock are seen by every process in the rows  *)
(* only.                                                                   *)
LEMMA RequestWInv ==
  ASSUME Known, NEW v \in Workers, WInv(v),
         \/ \E b \in Batches : Receive(b)
         \/ \E r \in Requests : Request(r)
         \/ Tick
         \/ UNCHANGED vars
  PROVE  WInv(v)'
  <1>1. UNCHANGED <<hold, cmd, snap, asOf, scope>>
    BY DEF Receive, Request, CommitConsume, Publish, Quiet, Tick, vars, stock, table, O!Insert,
       I!Receive, I!Load, I!Refuse, I!UpdateTx, I!Conflict, I!Publish, I!PublishFails,
       I!CommitConsume, I!CommitWriteoff, I!Abort, I!Tick, I!passes, I!history
  <1>2. QED
    BY <1>1, Elsewhere DEF Engaged

(* No step breaks the invariant.                                           *)
LEMMA NextIInv == IInv /\ [Next]_vars /\ Known => IInv'
  <1> SUFFICES ASSUME IInv, [Next]_vars, Known, NEW v \in Workers PROVE WInv(v)'
    BY DEF IInv
  <1>1. WInv(v)
    BY DEF IInv
  <1>2. ASSUME NEW w \in Workers, Work(w) \/ Crash(w), v # w PROVE WInv(v)'
    BY <1>1, <1>2, OtherWInv
  <1>3. CASE Work(v) \/ Crash(v)
    BY <1>1, <1>3, PollWInv, DispatchWInv, PassWInv, HandlerOkWInv, DropWInv DEF Work
  <1>4. QED
    BY <1>1, <1>2, <1>3, RequestWInv DEF Next

-----------------------------------------------------------------------------
(* Every variable keeps its type.                                          *)
THEOREM TypeCorrect == Spec => []TypeOK
  <1> DEFINE ScopeOK == scope \in [Workers -> SUBSET Batches]
  <1>1. Init => ScopeOK
    BY DEF Init
  <1>2. ScopeOK /\ [Next]_vars => ScopeOK'
    <2> SUFFICES ASSUME ScopeOK, [Next]_vars, scope' # scope PROVE ScopeOK'
      OBVIOUS
    <2>1. PICK w \in Workers, e \in Events : Dispatch(w, e)
      BY DEF Next, Receive, Request, CommitConsume, Publish, Quiet, Tick, vars, Work, Poll, Pass,
         HandlerOk, HandlerErr, Crash
    <2>2. scope' = [scope EXCEPT ![w] = I!Active] /\ I!Active \subseteq Batches
      BY <2>1 DEF Dispatch, I!Active
    <2>3. QED
      BY <2>2
  <1>3. Spec => []ScopeOK
    BY <1>1, <1>2, PTL DEF Spec
  <1>4. Spec => []I!TypeOK
    <2>1. IP!TypeOK => I!TypeOK
      BY DEF IP!TypeOK, I!TypeOK, IP!Row, I!Row, IP!Freshness, I!Freshness, IP!Command, I!Command,
         IP!EventNames, I!EventNames
    <2>2. QED
      BY <2>1, PartsAssumption, ImplementsInventory, SameInventory, IP!TypeCorrect, PTL
  <1>5. Spec => []O!TypeOK
    <2>1. OP!TypeOK => O!TypeOK
      BY DEF OP!TypeOK, O!TypeOK, OP!Status, O!Status, OP!Hold, O!Hold
    <2>2. OP!OutboxAssumption
      BY PartsAssumption DEF O!FaultKinds, OP!FaultKinds
    <2>3. QED
      BY <2>1, <2>2, ImplementsOutbox, SameOutbox, OP!TypeCorrect, PTL
  <1>6. ScopeOK /\ I!TypeOK /\ O!TypeOK => TypeOK
    BY DEF TypeOK
  <1>7. QED
    BY <1>3, <1>4, <1>5, <1>6, PTL

(* Every worker's loop and pass fit together: WInv for all workers.        *)
THEOREM Invariance == Spec => []IInv
  <1>1. Init => IInv
    BY DEF Init, I!Init, O!Init, IInv, WInv, OneEngaged, Engaged, PassHasCall, SnapIsOlder,
       MarkedSoFar, I!Todo
  <1>2. Spec => []Parts
    <2>1. IP!IInv => IP!SnapInv
      BY DEF IP!IInv
    <2>2. TypeOK /\ IP!SnapInv => Parts
      BY DEF Parts
    <2>3. QED
      BY <2>1, <2>2, PartsAssumption, TypeCorrect, ImplementsInventory, SameInventory,
         IP!Invariance, PTL
  <1>3. Spec => [][\A b \in Batches : IP!Rank[row[b].freshness] <= IP!Rank[row'[b].freshness]]_(IP!vars)
    BY PartsAssumption, ImplementsInventory, SameInventory, IP!NeverFresher, PTL
       DEF IP!FreshnessNeverReverts
  <1>4. ASSUME Parts, Parts', [\A b \in Batches : IP!Rank[row[b].freshness] <= IP!Rank[row'[b].freshness]]_(IP!vars)
        PROVE  Known
    <2>1. CASE \A b \in Batches : IP!Rank[row[b].freshness] <= IP!Rank[row'[b].freshness]
      BY <1>4, <2>1 DEF Known, Older, MarkOf, IP!Rank, I!Rank
    <2>2. CASE UNCHANGED IP!vars
      <3>1. \A b \in Batches : MarkOf(b)' = MarkOf(b) /\ MarkOf(b) \in 0..4
        BY <1>4, <2>2, MarkType DEF IP!vars, MarkOf
      <3>2. QED
        BY <1>4, <3>1 DEF Known, Older
    <2>3. QED
      BY <1>4, <2>1, <2>2
  <1>5. QED
    BY <1>1, <1>2, <1>3, <1>4, NextIInv, PTL DEF Spec

(* A pass is always part of exactly one handler call, however processes    *)
(* die and calls fail.                                                     *)
THEOREM PassesAreCalls == Spec => []PassInsideHandler
  <1>1. IInv => PassInsideHandler
    BY DEF IInv, WInv, OneEngaged, PassHasCall, Engaged, PassInsideHandler, Events
  <1>2. QED
    BY <1>1, Invariance, PTL

(* A call that reported success has marked all it had to mark.             *)
THEOREM SuccessIsTrue == Spec => []SuccessMeansMarked
  <1>1. IInv /\ TypeOK => SuccessMeansMarked
    <2> SUFFICES ASSUME IInv, TypeOK, NEW w \in Workers, NEW e \in Events, hold[w][e] = "ok",
                        StartsPass(e), NEW b \in scope[w]
                 PROVE  /\ asOf[w] > Expiry[b] => row[b].freshness = "expired"
                        /\ asOf[w] + AgingThreshold > Expiry[b] => row[b].freshness # "fresh"
      BY DEF SuccessMeansMarked
    <2>1. WInv(w) /\ b \in Batches
      BY DEF IInv, TypeOK
    <2>2. I!Todo(w) = {}
      BY <2>1 DEF WInv, OneEngaged, PassHasCall, Engaged, Events
    <2>3. Floor(w, b) <= MarkOf(b)
      BY <2>1, <2>2 DEF WInv, MarkedSoFar
    <2>4. row[b].freshness \in I!Freshness
      BY <2>1 DEF TypeOK, I!TypeOK, I!Row
    <2>5. QED
      BY <2>3, <2>4 DEF Floor, MarkOf, I!Rank, I!Freshness
  <1>2. QED
    BY <1>1, Invariance, TypeCorrect, PTL
-----------------------------------------------------------------------------
(* In the whole system stock changes in single steps, as AtomicStock says. *)
THEOREM StockIsAtomic == Spec => I!AtomicStockSpec
  <1>1. IP!Stock!Init => I!Stock!Init
    BY DEF IP!Stock!Init, I!Stock!Init
  <1>2. [IP!Stock!Next]_<<[b \in Batches |-> row[b].remaining],
                          [b \in Batches |-> row[b].freshness],
                          [b \in Batches |-> drawn[b] + wasted[b]]>>
        => [I!Stock!Next]_<<[b \in Batches |-> row[b].remaining],
                            [b \in Batches |-> row[b].freshness],
                            [b \in Batches |-> drawn[b] + wasted[b]]>>
    BY DEF IP!Stock!Next, IP!Stock!Receive, IP!Stock!Take, IP!Stock!Age, IP!Stock!Rank,
           I!Stock!Next, I!Stock!Receive, I!Stock!Take, I!Stock!Age, I!Stock!Rank
  <1>3. IP!AtomicStockSpec => I!AtomicStockSpec
    BY <1>1, <1>2, PTL DEF IP!AtomicStockSpec, I!AtomicStockSpec, IP!Stock!Spec, I!Stock!Spec
  <1>4. QED
    BY <1>3, PartsAssumption, ImplementsInventory, SameInventory, IP!Atomicity, PTL

(* In the whole system the table keeps EventDelivery's promise.            *)
THEOREM EventsAreDelivered == Spec => O!DeliverySpec
  <1>1. OP!Delivery!Init => O!Delivery!Init
    BY DEF OP!Delivery!Init, O!Delivery!Init, OP!StageOf, O!StageOf, OP!Succeeded, O!Succeeded,
       OP!Held, O!Held
  <1>2. [OP!Delivery!Next]_<<[e \in Events |-> OP!StageOf(e)], attempts>>
        => [O!Delivery!Next]_<<[e \in Events |-> O!StageOf(e)], attempts>>
    <2>1. \A e \in Events : OP!StageOf(e) = O!StageOf(e) /\ OP!StageOf(e)' = O!StageOf(e)'
      BY DEF OP!StageOf, O!StageOf, OP!Succeeded, O!Succeeded, OP!Held, O!Held
    <2>2. /\ [e \in Events |-> OP!StageOf(e)] = [e \in Events |-> O!StageOf(e)]
          /\ [e \in Events |-> OP!StageOf(e)]' = [e \in Events |-> O!StageOf(e)]'
      BY <2>1
    <2>3. \A S, from, to : OP!Delivery!Move(S, from, to) => O!Delivery!Move(S, from, to)
      BY <2>2 DEF OP!Delivery!Move, O!Delivery!Move
    <2>4. \A S, Gone : OP!Delivery!Take(S, Gone) => O!Delivery!Take(S, Gone)
      BY <2>2 DEF OP!Delivery!Take, O!Delivery!Take
    <2>5. OP!Delivery!Next => O!Delivery!Next
      BY <2>3, <2>4
         DEF OP!Delivery!Next, OP!Delivery!Submit, OP!Delivery!Deliver, OP!Delivery!Acknowledge,
             OP!Delivery!GiveBack, OP!Delivery!GiveUp, OP!Delivery!Lose,
             O!Delivery!Next, O!Delivery!Submit, O!Delivery!Deliver, O!Delivery!Acknowledge,
             O!Delivery!GiveBack, O!Delivery!GiveUp, O!Delivery!Lose
    <2>6. QED
      BY <2>2, <2>5
  <1>3. OP!DeliverySpec => O!DeliverySpec
    BY <1>1, <1>2, PTL DEF OP!DeliverySpec, O!DeliverySpec, OP!Delivery!Spec, O!Delivery!Spec
  <1>4. OP!OutboxAssumption
    BY PartsAssumption DEF O!OutboxAssumption, OP!OutboxAssumption, O!FaultKinds, OP!FaultKinds
  <1>5. QED
    BY <1>3, <1>4, ImplementsOutbox, SameOutbox, OP!Implementation, PTL
-----------------------------------------------------------------------------
(* A batch and a draw are in the database if and only if their event is; a *)
(* write-off's event only says that its transaction has updated the row.   *)
EventWithChange ==
  /\ \A b \in Batches : status[b] = "absent" <=> row[b].freshness = "absent"
  /\ \A r \in Requests :
       /\ cmd[r].op = "consume" => (status[r] = "absent" <=> pc[r] # "done")
       /\ cmd[r].op = "writeoff" /\ status[r] # "absent" => pc[r] \in {"published", "done", "failed"}

(* What a worker has in hand has happened: its handler never sees the      *)
(* event of a receipt or a draw that can still be rolled back.             *)
HandledHappened ==
  \A w \in Workers, e \in Events : hold[w][e] # "none" =>
    /\ e \in Batches => row[e].freshness # "absent"
    /\ e \in Requests /\ cmd[e].op = "consume" => pc[e] = "done"

(* Only a write-off's event is there before its transaction has committed. *)
OnlyWriteoffsPublish == \A r \in Requests : pc[r] = "published" => cmd[r].op = "writeoff"

(* What EventWithChange needs to know of the parts.                        *)
Basis ==
  /\ TypeOK /\ OnlyWriteoffsPublish
  /\ IP!CopyInv /\ IP!LockInv /\ IP!SnapInv /\ O!ExclusiveClaim

LEMMA PublishersWriteOff == Spec => []OnlyWriteoffsPublish
  <1>1. Init => OnlyWriteoffsPublish
    BY DEF Init, I!Init, OnlyWriteoffsPublish
  <1>2. TypeOK /\ OnlyWriteoffsPublish /\ [I!Next]_stock => OnlyWriteoffsPublish'
    <2> SUFFICES ASSUME TypeOK, OnlyWriteoffsPublish, [I!Next]_stock, NEW q \in Requests, pc'[q] = "published"
                 PROVE  cmd'[q].op = "writeoff"
      BY DEF OnlyWriteoffsPublish
    <2>1. UNCHANGED cmd
      BY DEF stock, I!Next, I!Receive, I!Request, I!Load, I!Refuse, I!UpdateTx, I!Conflict, I!Publish,
         I!PublishFails, I!CommitConsume, I!CommitWriteoff, I!Abort, I!Sweep, I!SweepStart,
         I!SweepSkip, I!SweepSave, I!SweepFail, I!Tick
    <2>2. ASSUME NEW r \in Requests, I!Request(r)
          PROVE  pc'[q] = pc[q] \/ cmd[q].op = "writeoff"
      BY <2>2 DEF I!Request, I!Load, I!Refuse, I!UpdateTx, I!Conflict, I!Publish, I!PublishFails,
         I!CommitConsume, I!CommitWriteoff, I!Abort, TypeOK, I!TypeOK
    <2>3. CASE UNCHANGED pc
      BY <2>1, <2>3 DEF OnlyWriteoffsPublish
    <2>4. QED
      BY <2>1, <2>2, <2>3 DEF OnlyWriteoffsPublish, stock, I!Next, I!Receive, I!Sweep, I!SweepStart,
         I!SweepSkip, I!SweepSave, I!SweepFail, I!Tick
  <1>3. QED
    BY <1>1, <1>2, StockSteps, TypeCorrect, PTL DEF Spec

(* No worker inserts or removes an event.                                  *)
LEMMA WorkersInsertNothing ==
  ASSUME Basis, NEW w \in Workers, Work(w) \/ Crash(w)
  PROVE  \A e \in Events : status'[e] = "absent" <=> status[e] = "absent"
  <1>1. CASE O!Claim(w)
    BY <1>1 DEF O!Claim, O!Eligible
  <1>2. ASSUME NEW f \in Events, O!Settle(w, f)
        PROVE  \A e \in Events : status'[e] = "absent" <=> status[e] = "absent"
    <2>1. status[f] = "processing"
      BY <1>2 DEF O!Settle, O!ExclusiveClaim, Basis
    <2>2. QED
      BY <1>2, <2>1 DEF O!Settle, O!Outcome, Basis, TypeOK, O!TypeOK
  <1>3. CASE UNCHANGED status
    BY <1>3
  <1>4. QED
    BY <1>1, <1>2, <1>3 DEF Work, Poll, Dispatch, Pass, HandlerOk, HandlerErr, Crash, table,
       O!SettleLost, O!Call, O!HandlerOk, O!HandlerErr, O!Crash

(* A row that is written back was there: neither a late commit nor a late  *)
(* save brings a batch into being.                                         *)
LEMMA CommitKeepsPresence ==
  ASSUME Basis, NEW r \in Requests, I!CommitConsume(r) \/ I!CommitWriteoff(r)
  PROVE  \A b \in Batches : row'[b].freshness = "absent" <=> row[b].freshness = "absent"
  <1>1. /\ pc[r] \in {"updated", "published"}
        /\ row' = [row EXCEPT ![cmd[r].batch] = I!Stored(copy[r])]
    BY DEF I!CommitConsume, I!CommitWriteoff
  <1>2. cmd[r].batch \in Batches /\ copy[r] \in I!Row
    BY DEF Basis, TypeOK, I!TypeOK, I!Command
  <1>3. IP!Usable(row[cmd[r].batch]) /\ copy[r].freshness = row[cmd[r].batch].freshness
    <2>1. IP!CopyFits(r)
      BY <1>1 DEF Basis, IP!CopyInv, IP!LockInv, IP!InFlight, IP!Holding
    <2>2. row[cmd[r].batch] \in I!Row
      BY <1>2 DEF Basis, TypeOK, I!TypeOK
    <2>3. QED
      BY <2>1, <2>2 DEF IP!CopyFits, I!Row
  <1>4. I!Stored(copy[r]).freshness = copy[r].freshness
    BY <1>2 DEF I!Stored, I!Row
  <1>5. QED
    BY <1>1, <1>2, <1>3, <1>4 DEF Basis, TypeOK, I!TypeOK

LEMMA SaveKeepsPresence ==
  ASSUME Basis, NEW w \in Workers, NEW b \in Batches, I!SweepSave(w, b)
  PROVE  \A c \in Batches : row'[c].freshness = "absent" <=> row[c].freshness = "absent"
  <1>1. IP!Usable(row[b]) /\ snap[w][b] = row[b]
    BY DEF I!SweepSave, I!Todo, I!NoRow, IP!NoRow, Basis, IP!SnapInv
  <1>2. row[b] \in I!Row
    BY DEF Basis, TypeOK, I!TypeOK
  <1>3. I!Target(w, b) # "absent"
    BY <1>1 DEF I!Target, I!Transition, IP!Usable
  <1>4. I!Stored([snap[w][b] EXCEPT !.freshness = I!Target(w, b)]).freshness = I!Target(w, b)
    BY <1>1, <1>2 DEF I!Stored, I!Row
  <1>5. QED
    BY <1>1, <1>3, <1>4 DEF I!SweepSave, IP!Usable, Basis, TypeOK, I!TypeOK

(* The steps that put an event into the table.                             *)
LEMMA InsertsFollowChanges ==
  ASSUME Basis, EventWithChange,
         \/ \E b \in Batches : Receive(b)
         \/ \E r \in Requests : CommitConsume(r) \/ Publish(r)
  PROVE  EventWithChange'
  <1> DEFINE WithRow(b) == status[b] = "absent" <=> row[b].freshness = "absent"
             WithReply(r) ==
               /\ cmd[r].op = "consume" => (status[r] = "absent" <=> pc[r] # "done")
               /\ cmd[r].op = "writeoff" /\ status[r] # "absent" =>
                    pc[r] \in {"published", "done", "failed"}
  <1>1. (\A b \in Batches : WithRow(b)) /\ (\A r \in Requests : WithReply(r))
    BY DEF EventWithChange
  <1>2. SUFFICES (\A b \in Batches : WithRow(b)') /\ (\A r \in Requests : WithReply(r)')
    BY DEF EventWithChange
  <1>3. /\ \A b \in Batches : b \in Events
        /\ \A r \in Requests : r \in Events
        /\ \A b \in Batches, r \in Requests : b # r
    BY SystemAssumption DEF Events
  <1>4. /\ status \in [Events -> O!Status]
        /\ row \in [Batches -> I!Row]
        /\ pc \in [Requests -> {"new", "loaded", "updated", "published", "done", "failed"}]
    BY DEF Basis, TypeOK, I!TypeOK, O!TypeOK
  <1>5. ASSUME NEW b \in Batches, Receive(b)
        PROVE  (\A c \in Batches : WithRow(c)') /\ (\A r \in Requests : WithReply(r)')
    <2>1. /\ UNCHANGED <<cmd, pc>>
          /\ \A e \in Events : status'[e] = IF e = b THEN "pending" ELSE status[e]
          /\ \A c \in Batches \ {b} : row'[c] = row[c]
          /\ row'[b].freshness = "fresh"
      BY <1>3, <1>4, <1>5 DEF Receive, I!Receive, O!Insert
    <2>2. ASSUME NEW c \in Batches PROVE WithRow(c)'
      <3>1. CASE c = b
        BY <1>3, <2>1, <3>1
      <3>2. CASE c # b
        BY <1>1, <1>3, <2>1, <3>2
      <3>3. QED
        BY <3>1, <3>2
    <2>3. ASSUME NEW r \in Requests PROVE WithReply(r)'
      <3>1. status'[r] = status[r] /\ UNCHANGED <<cmd, pc>>
        BY <1>3, <2>1
      <3>2. QED
        BY <1>1, <3>1
    <2>4. QED
      BY <2>2, <2>3
  <1>6. ASSUME NEW r \in Requests, CommitConsume(r)
        PROVE  (\A b \in Batches : WithRow(b)') /\ (\A q \in Requests : WithReply(q)')
    <2>1. /\ UNCHANGED cmd /\ cmd[r].op = "consume"
          /\ \A e \in Events : status'[e] = IF e = r THEN "pending" ELSE status[e]
          /\ \A q \in Requests : pc'[q] = IF q = r THEN "done" ELSE pc[q]
      BY <1>3, <1>4, <1>6 DEF CommitConsume, I!CommitConsume, O!Insert
    <2>2. \A b \in Batches : row'[b].freshness = "absent" <=> row[b].freshness = "absent"
      BY <1>6, CommitKeepsPresence DEF CommitConsume
    <2>3. \A b \in Batches : status'[b] = status[b]
      BY <1>3, <2>1
    <2>4. \A b \in Batches : WithRow(b)'
      BY <1>1, <2>2, <2>3
    <2>5. ASSUME NEW q \in Requests PROVE WithReply(q)'
      <3>1. CASE q = r
        BY <1>3, <2>1, <3>1
      <3>2. CASE q # r
        BY <1>1, <1>3, <2>1, <3>2
      <3>3. QED
        BY <3>1, <3>2
    <2>6. QED
      BY <2>4, <2>5
  <1>7. ASSUME NEW r \in Requests, Publish(r)
        PROVE  (\A b \in Batches : WithRow(b)') /\ (\A q \in Requests : WithReply(q)')
    <2>1. /\ UNCHANGED <<cmd, row>> /\ cmd[r].op = "writeoff"
          /\ \A e \in Events : status'[e] = IF e = r THEN "pending" ELSE status[e]
          /\ \A q \in Requests : pc'[q] = IF q = r THEN "published" ELSE pc[q]
      BY <1>3, <1>4, <1>7 DEF Publish, I!Publish, O!Insert
    <2>2. \A b \in Batches : status'[b] = status[b]
      BY <1>3, <2>1
    <2>3. \A b \in Batches : WithRow(b)'
      BY <1>1, <2>1, <2>2
    <2>4. ASSUME NEW q \in Requests PROVE WithReply(q)'
      <3>1. CASE q = r
        BY <1>3, <2>1, <3>1
      <3>2. CASE q # r
        BY <1>1, <1>3, <2>1, <3>2
      <3>3. QED
        BY <3>1, <3>2
    <2>5. QED
      BY <2>3, <2>4
  <1>8. QED
    BY <1>5, <1>6, <1>7

(* The steps that do not.                                                  *)
LEMMA OthersKeepEvents ==
  ASSUME Basis, EventWithChange,
         \/ \E r \in Requests : Quiet(r)
         \/ \E w \in Workers : Work(w) \/ Crash(w)
         \/ Tick
         \/ UNCHANGED vars
  PROVE  EventWithChange'
  <1>1. \A e \in Events : status'[e] = "absent" <=> status[e] = "absent"
    BY WorkersInsertNothing DEF Quiet, Tick, vars, table
  <1>2. \A b \in Batches : row'[b].freshness = "absent" <=> row[b].freshness = "absent"
    <2>1. CASE UNCHANGED row
      BY <2>1
    <2>2. QED
      BY <2>1, CommitKeepsPresence, SaveKeepsPresence
         DEF Quiet, Work, Poll, Dispatch, Pass, HandlerOk, HandlerErr, Crash, Tick, vars, stock,
             I!Load, I!Refuse, I!UpdateTx, I!Conflict, I!PublishFails, I!Abort, I!SweepStart,
             I!SweepSkip, I!SweepFail, I!Tick
  <1>3. /\ UNCHANGED cmd
        /\ \A r \in Requests :
             /\ cmd[r].op = "consume" => (pc'[r] = "done" <=> pc[r] = "done")
             /\ pc[r] \in {"published", "done", "failed"} => pc'[r] \in {"published", "done", "failed"}
    <2>1. CASE UNCHANGED <<cmd, pc>>
      BY <2>1
    <2>2. ASSUME NEW q \in Requests, Quiet(q)
          PROVE  /\ UNCHANGED cmd
                 /\ \A r \in Requests \ {q} : pc'[r] = pc[r]
                 /\ pc'[q] = "done" => cmd[q].op = "writeoff"
                 /\ pc[q] # "done"
                 /\ pc[q] = "published" => pc'[q] \in {"done", "failed"}
                 /\ pc[q] # "failed"
      BY <2>2 DEF Quiet, I!Load, I!Refuse, I!UpdateTx, I!Conflict, I!PublishFails, I!CommitWriteoff,
         I!Abort, Basis, TypeOK, I!TypeOK, OnlyWriteoffsPublish
    <2>3. QED
      BY <2>1, <2>2
         DEF Work, Poll, Dispatch, Pass, HandlerOk, HandlerErr, Crash, Tick, vars, stock,
             I!SweepStart, I!SweepSkip, I!SweepSave, I!SweepFail, I!Tick
  <1>4. QED
    BY <1>1, <1>2, <1>3 DEF EventWithChange, Events

LEMMA NextEventWithChange == Basis /\ EventWithChange /\ [Next]_vars => EventWithChange'
  BY InsertsFollowChanges, OthersKeepEvents DEF Next, Request

LEMMA BasisHolds == Spec => []Basis
  <1>1. IP!IInv => IP!CopyInv /\ IP!LockInv /\ IP!SnapInv
    BY DEF IP!IInv
  <1>2. OP!ExclusiveClaim => O!ExclusiveClaim
    BY DEF OP!ExclusiveClaim, O!ExclusiveClaim
  <1>3. OP!OutboxAssumption
    BY PartsAssumption DEF O!OutboxAssumption, OP!OutboxAssumption, O!FaultKinds, OP!FaultKinds
  <1>4. IP!CopyInv /\ IP!LockInv /\ IP!SnapInv /\ O!ExclusiveClaim /\ TypeOK /\ OnlyWriteoffsPublish
          => Basis
    BY DEF Basis
  <1>5. QED
    BY <1>1, <1>2, <1>3, <1>4, PartsAssumption, TypeCorrect, PublishersWriteOff, ImplementsInventory,
       SameInventory, IP!Invariance, ImplementsOutbox, SameOutbox, OP!OneWorkerPerRow, PTL

(* The transactional outbox does what it is for: no event without its      *)
(* receipt or draw, no receipt or draw without its event.                  *)
THEOREM EventsMatchChanges == Spec => []EventWithChange
  <1>1. Init => EventWithChange
    BY DEF Init, I!Init, O!Init, EventWithChange, I!NoRow, Events
  <1>2. QED
    BY <1>1, NextEventWithChange, BasisHolds, PTL DEF Spec

(* A handler of main.go only ever sees receipts and draws that have been   *)
(* committed, whatever requests roll back and processes die.               *)
THEOREM HandlersSeeCommitted == Spec => []HandledHappened
  <1>1. Basis /\ EventWithChange => HandledHappened
    BY DEF Basis, O!ExclusiveClaim, EventWithChange, HandledHappened, Events
  <1>2. QED
    BY <1>1, BasisHolds, EventsMatchChanges, PTL

-----------------------------------------------------------------------------
(* No event of a draw or a write-off becomes 'done' before a pass for it   *)
(* has marked every batch that was active when the pass began, as the      *)
(* clock of that moment asks.                                              *)
DoneMeansMarked ==
  [][\A e \in Events : StartsPass(e) /\ status[e] # "done" /\ status'[e] = "done" =>
       \E w \in Workers :
         /\ hold[w][e] = "ok"
         /\ \A b \in scope[w] :
              /\ asOf[w] > Expiry[b] => row'[b].freshness = "expired"
              /\ asOf[w] + AgingThreshold > Expiry[b] => row'[b].freshness # "fresh"]_vars

LEMMA DoneIsWritten ==
  ASSUME Basis, [Next]_vars, NEW e \in Events, status[e] # "done", status'[e] = "done"
  PROVE  /\ UNCHANGED row
         /\ \E w \in Workers : hold[w][e] = "ok"
  <1> USE DEF Basis, TypeOK, O!TypeOK
  <1>1. ASSUME NEW f \in Events, O!Insert(f) PROVE FALSE
    BY <1>1 DEF O!Insert
  <1>2. ASSUME NEW w \in Workers, O!Claim(w) PROVE FALSE
    BY <1>2 DEF O!Claim
  <1>3. ASSUME NEW w \in Workers, NEW f \in Events, O!Settle(w, f), UNCHANGED stock
        PROVE  UNCHANGED row /\ hold[w][e] = "ok"
    BY <1>3 DEF O!Settle, O!Outcome, stock
  <1>4. CASE UNCHANGED status
    BY <1>4
  <1>5. QED
    BY <1>1, <1>2, <1>3, <1>4
       DEF Next, Receive, Request, CommitConsume, Publish, Quiet, Work, Poll, Dispatch, Pass,
           HandlerOk, HandlerErr, Crash, Tick, vars, table, Events, O!SettleLost, O!Call,
           O!HandlerOk, O!HandlerErr, O!Crash

(* 'done' is true of the shelves, not only of the call.                    *)
THEOREM DoneIsTrue == Spec => DoneMeansMarked
  <1> DEFINE Settled ==
        \A e \in Events : StartsPass(e) /\ status[e] # "done" /\ status'[e] = "done" =>
          \E w \in Workers :
            /\ hold[w][e] = "ok"
            /\ \A b \in scope[w] :
                 /\ asOf[w] > Expiry[b] => row'[b].freshness = "expired"
                 /\ asOf[w] + AgingThreshold > Expiry[b] => row'[b].freshness # "fresh"
  <1>1. Basis /\ SuccessMeansMarked /\ [Next]_vars => [Settled]_vars
    <2> SUFFICES ASSUME Basis, SuccessMeansMarked, [Next]_vars, NEW e \in Events, StartsPass(e),
                        status[e] # "done", status'[e] = "done"
                 PROVE  \E w \in Workers :
                          /\ hold[w][e] = "ok"
                          /\ \A b \in scope[w] :
                               /\ asOf[w] > Expiry[b] => row'[b].freshness = "expired"
                               /\ asOf[w] + AgingThreshold > Expiry[b] => row'[b].freshness # "fresh"
      OBVIOUS
    <2>1. UNCHANGED row /\ \E w \in Workers : hold[w][e] = "ok"
      BY DoneIsWritten
    <2>2. QED
      BY <2>1 DEF SuccessMeansMarked
  <1>2. QED
    BY <1>1, BasisHolds, SuccessIsTrue, PTL DEF Spec, DoneMeansMarked
-----------------------------------------------------------------------------
(* b is past its date, and no worker has r's event in hand on behalf of a  *)
(* pass that is older than that or has not read b.                         *)
Late(r, b) ==
  /\ now > Expiry[b] /\ row[b].freshness # "absent"
  /\ \A w \in Workers : hold[w][r] \in {"handling", "ok"} =>
       /\ asOf[w] > Expiry[b]
       /\ b \in I!Active => b \in scope[w]
  /\ status[r] = "done" => b \notin I!Active

(* What Inventory's theorems say of a step.                                *)
OnlyRefilled ==
  \A b \in Batches :
    /\ row[b].freshness # "absent"
    /\ (b \in IP!Offered' /\ b \notin IP!Offered) \/ row'[b].remaining > row[b].remaining
    => IP!Refills(b)' \ IP!Refills(b) # {}

RefillsStay == \A b \in Batches : IP!Refills(b) \subseteq IP!Refills(b)'

NoFresher == \A b \in Batches : IP!Rank[row[b].freshness] <= IP!Rank[row'[b].freshness]

(* An event that a worker's handler has now, it had before with the same   *)
(* pass, or it has been dispatched this moment.                            *)
LEMMA InHandBefore ==
  ASSUME Basis, [Next]_vars, NEW w \in Workers, NEW e \in Events, hold'[w][e] \in {"handling", "ok"}
  PROVE  \/ Dispatch(w, e)
         \/ hold[w][e] \in {"handling", "ok"} /\ asOf'[w] = asOf[w] /\ scope'[w] = scope[w]
  <1>1. /\ hold \in [Workers -> [Events -> O!Hold]] /\ asOf \in [Workers -> Nat]
        /\ scope \in [Workers -> SUBSET Batches]
    BY DEF Basis, TypeOK, I!TypeOK, O!TypeOK
  <1>2. ASSUME NEW v \in Workers, Poll(v)
        PROVE  hold[w][e] \in {"handling", "ok"} /\ asOf'[w] = asOf[w] /\ scope'[w] = scope[w]
    <2>1. CASE O!Claim(v)
      BY <1>1, <1>2, <2>1 DEF Poll, O!Claim, stock
    <2>2. ASSUME NEW f \in Events, O!Settle(v, f) \/ O!SettleLost(v, f)
          PROVE  hold[w][e] \in {"handling", "ok"}
      BY <1>1, <2>2 DEF O!Settle, O!SettleLost
    <2>3. UNCHANGED <<asOf, scope>>
      BY <1>2 DEF Poll, stock
    <2>4. QED
      BY <1>2, <2>1, <2>2, <2>3 DEF Poll
  <1>3. ASSUME NEW v \in Workers, NEW f \in Events, Dispatch(v, f), v # w \/ f # e
        PROVE  hold[w][e] \in {"handling", "ok"} /\ asOf'[w] = asOf[w] /\ scope'[w] = scope[w]
    <2>1. hold' = [hold EXCEPT ![v][f] = "handling"]
      BY <1>3 DEF Dispatch, O!Call
    <2>2. hold[w][e] \in {"handling", "ok"}
      BY <1>1, <1>3, <2>1
    <2>3. v # w
      BY <1>3, <2>2 DEF Dispatch, O!Call, O!Busy
    <2>4. asOf'[w] = asOf[w] /\ scope'[w] = scope[w]
      BY <1>1, <1>3, <2>3 DEF Dispatch, I!SweepStart, stock
    <2>5. QED
      BY <2>2, <2>4
  <1>4. ASSUME NEW v \in Workers, NEW f \in Events, HandlerOk(v, f)
        PROVE  hold[w][e] \in {"handling", "ok"} /\ asOf'[w] = asOf[w] /\ scope'[w] = scope[w]
    BY <1>1, <1>4 DEF HandlerOk, O!HandlerOk, stock
  <1>5. ASSUME NEW v \in Workers, Crash(v) \/ \E f \in Events : HandlerErr(v, f)
        PROVE  hold[w][e] \in {"handling", "ok"} /\ asOf'[w] = asOf[w] /\ scope'[w] = scope[w]
    <2>1. UNCHANGED <<asOf, scope>>
      BY <1>5 DEF Crash, HandlerErr, I!SweepFail, stock
    <2>2. CASE Crash(v)
      BY <1>1, <2>1, <2>2 DEF Crash, O!Crash
    <2>3. ASSUME NEW f \in Events, HandlerErr(v, f)
          PROVE  hold[w][e] \in {"handling", "ok"}
      BY <1>1, <2>3 DEF HandlerErr, O!HandlerErr
    <2>4. QED
      BY <1>5, <2>1, <2>2, <2>3
  <1>6. CASE \/ \E b \in Batches : Receive(b)
             \/ \E r \in Requests : Request(r)
             \/ \E v \in Workers : Pass(v)
             \/ Tick
             \/ UNCHANGED vars
    <2>1. UNCHANGED <<hold, asOf, scope>>
      BY <1>6 DEF Receive, Request, CommitConsume, Publish, Quiet, Pass, Tick, vars, stock, table,
         O!Insert, I!Receive, I!Load, I!Refuse, I!UpdateTx, I!Conflict, I!Publish, I!PublishFails,
         I!CommitConsume, I!CommitWriteoff, I!Abort, I!SweepSkip, I!SweepSave, I!Tick, I!passes
    <2>2. QED
      BY <2>1
  <1>7. QED
    BY <1>2, <1>3, <1>4, <1>5, <1>6 DEF Next, Work

(* No step but a refill of b lets an old pass stand for a late event.      *)
LEMMA LateSteps ==
  ASSUME Basis, Basis', SuccessMeansMarked, [Next]_vars, [OnlyRefilled]_(IP!vars), [NoFresher]_(IP!vars),
         NEW r \in Requests, NEW b \in Batches, Late(r, b), IP!Refills(b)' = IP!Refills(b)
  PROVE  Late(r, b)'
  <1>1. now' > Expiry[b]
    <2>1. now' = now \/ now' = now + 1
      BY StockSteps DEF stock, I!Next, I!Receive, I!Request, I!Load, I!Refuse, I!UpdateTx, I!Conflict,
         I!Publish, I!PublishFails, I!CommitConsume, I!CommitWriteoff, I!Abort, I!Sweep,
         I!SweepStart, I!SweepSkip, I!SweepSave, I!SweepFail, I!Tick
    <2>2. now \in Nat /\ Expiry[b] \in Nat
      BY PartsAssumption DEF I!InventoryAssumption, Basis, TypeOK, I!TypeOK
    <2>3. QED
      BY <2>1, <2>2 DEF Late
  <1>2. row[b] \in I!Row /\ row'[b] \in I!Row
    BY DEF Basis, TypeOK, I!TypeOK
  <1>3. row'[b].freshness # "absent"
    <2>1. CASE UNCHANGED IP!vars
      BY <2>1 DEF Late, IP!vars
    <2>2. CASE NoFresher
      BY <1>2, <2>2 DEF NoFresher, Late, IP!Rank, I!Row, I!Freshness
    <2>3. QED
      BY <2>1, <2>2
  <1>4. b \in I!Active' => b \in I!Active
    <2>1. CASE UNCHANGED IP!vars
      BY <2>1 DEF IP!vars, I!Active, I!Usable
    <2>2. CASE OnlyRefilled
      <3>1. b \in IP!Offered' => b \in IP!Offered
        BY <2>2 DEF OnlyRefilled, Late
      <3>2. QED
        BY <3>1 DEF IP!Offered, IP!WrittenOff, I!Active, I!Usable, Late
    <2>3. QED
      BY <2>1, <2>2
  <1>5. ASSUME NEW w \in Workers, hold'[w][r] \in {"handling", "ok"}
        PROVE  asOf'[w] > Expiry[b] /\ (b \in I!Active' => b \in scope'[w])
    <2>1. CASE Dispatch(w, r)
      <3>1. StartsPass(r)
        BY DEF StartsPass, Basis, TypeOK, I!TypeOK, I!Command
      <3>2. I!SweepStart(w) /\ scope' = [scope EXCEPT ![w] = I!Active]
        BY <2>1, <3>1 DEF Dispatch
      <3>3. asOf'[w] = now /\ scope'[w] = I!Active
        BY <3>2 DEF I!SweepStart, Basis, TypeOK, I!TypeOK
      <3>4. QED
        BY <1>4, <3>3 DEF Late
    <2>2. CASE hold[w][r] \in {"handling", "ok"} /\ asOf'[w] = asOf[w] /\ scope'[w] = scope[w]
      BY <1>4, <2>2 DEF Late
    <2>3. QED
      BY <1>5, <2>1, <2>2, InHandBefore DEF Events
  <1>6. ASSUME status'[r] = "done" PROVE b \notin I!Active'
    <2>1. CASE status[r] = "done"
      BY <1>4, <2>1 DEF Late
    <2>2. CASE status[r] # "done"
      <3>1. PICK w \in Workers : hold[w][r] = "ok"
        BY <1>6, <2>2, DoneIsWritten DEF Events
      <3>2. StartsPass(r)
        BY DEF StartsPass, Basis, TypeOK, I!TypeOK, I!Command
      <3>3. b \in scope[w] => row[b].freshness = "expired"
        BY <3>1, <3>2 DEF SuccessMeansMarked, Late, Events
      <3>4. b \notin I!Active
        BY <3>1, <3>3 DEF Late, I!Active, I!Usable
      <3>5. QED
        BY <1>4, <3>4
    <2>3. QED
      BY <2>1, <2>2
  <1>7. QED
    BY <1>1, <1>3, <1>5, <1>6 DEF Late

(* r's event is late for b, as long as b's refills are those in S.         *)
LateUnless(r, b, S) ==
  S \subseteq IP!Refills(b) /\ (IP!Refills(b) = S => Late(r, b))

(* The safety half of LateDrawMarks: once the event of a draw or a         *)
(* write-off is in the table after a batch's date, it cannot become 'done' *)
(* while that batch is still on offer, unless a command with a negative    *)
(* quantity has put it there after the pass had found it used up.          *)
THEOREM LateDoneIsMarked ==
  ASSUME NEW r \in Requests, NEW b \in Batches, NEW S
  PROVE  Spec => [](/\ status[r] = "pending" /\ now > Expiry[b]
                    /\ row[b].freshness # "absent" /\ IP!Refills(b) = S
                    => [](status[r] = "done" => b \notin I!Active \/ IP!Refills(b) # S))
  <1> DEFINE Begin == /\ status[r] = "pending" /\ now > Expiry[b]
                      /\ row[b].freshness # "absent" /\ IP!Refills(b) = S
             End == status[r] = "done" => b \notin I!Active \/ IP!Refills(b) # S
  <1>1. Basis /\ Begin => LateUnless(r, b, S)
    BY DEF Basis, O!ExclusiveClaim, Late, LateUnless, Events
  <1>2. LateUnless(r, b, S) => End
    BY DEF Late, LateUnless
  <1>3. /\ Basis /\ Basis' /\ SuccessMeansMarked /\ [Next]_vars
        /\ [OnlyRefilled]_(IP!vars) /\ [NoFresher]_(IP!vars) /\ [RefillsStay]_(IP!vars)
        /\ LateUnless(r, b, S)
        => LateUnless(r, b, S)'
    <2> SUFFICES ASSUME Basis, Basis', SuccessMeansMarked, [Next]_vars, [OnlyRefilled]_(IP!vars),
                        [NoFresher]_(IP!vars), [RefillsStay]_(IP!vars), LateUnless(r, b, S)
                 PROVE  LateUnless(r, b, S)'
      OBVIOUS
    <2>1. IP!Refills(b) \subseteq IP!Refills(b)'
      <3>1. CASE RefillsStay
        BY <3>1 DEF RefillsStay
      <3>2. CASE UNCHANGED IP!vars
        BY <3>2 DEF IP!vars, IP!Refills
      <3>3. QED
        BY <3>1, <3>2
    <2>2. S \subseteq IP!Refills(b)'
      BY <2>1 DEF LateUnless
    <2>3. ASSUME IP!Refills(b)' = S PROVE Late(r, b)'
      <3>1. IP!Refills(b)' = IP!Refills(b) /\ IP!Refills(b) = S
        BY <2>1, <2>3 DEF LateUnless
      <3>2. Late(r, b)
        BY <3>1 DEF LateUnless
      <3>3. QED
        BY <3>1, <3>2, LateSteps
    <2>4. QED
      BY <2>2, <2>3 DEF LateUnless
  <1>4. Spec => [][OnlyRefilled]_(IP!vars)
    <2>1. IP!Spec => IP!OnlyNegativesRefill
      BY PartsAssumption, IP!NothingReturns
    <2>2. QED
      BY <2>1, ImplementsInventory, SameInventory, PTL DEF IP!OnlyNegativesRefill, OnlyRefilled
  <1>5. Spec => [][NoFresher]_(IP!vars)
    <2>1. IP!Spec => IP!FreshnessNeverReverts
      BY PartsAssumption, IP!NeverFresher
    <2>2. QED
      BY <2>1, ImplementsInventory, SameInventory, PTL DEF IP!FreshnessNeverReverts, NoFresher
  <1>6. Spec => [][RefillsStay]_(IP!vars)
    <2>1. IP!Spec => IP!RefillsStand
      BY PartsAssumption, IP!RefillsAreFinal
    <2>2. QED
      BY <2>1, ImplementsInventory, SameInventory, PTL DEF IP!RefillsStand, RefillsStay
  <1>7. QED
    <2> HIDE DEF Begin, End
    <2>1. Spec => [](Begin => []End)
      BY <1>1, <1>2, <1>3, <1>4, <1>5, <1>6, BasisHolds, SuccessIsTrue, PTL DEF Spec
    <2>2. QED
      BY <2>1 DEF Begin, End
=============================================================================
