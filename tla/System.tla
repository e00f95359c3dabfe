------------------------------- MODULE System -------------------------------
(***************************************************************************)
(* Inventory and OutboxWorker put together the way main does it: requests  *)
(* insert events with their changes, the worker of each process dispatches *)
(* them, and a draw's or a write-off's event runs one freshness pass inside *)
(* the worker's handler call.  The pass's error is the handler's.          *)
(*                                                                         *)
(* Every step is a step of one component, or one of both at once.          *)
(***************************************************************************)
EXTENDS Integers, FiniteSets

CONSTANTS
  Batches, Requests, Workers,  \* each worker makes the passes of its process
  Received, Quantities, Expiry, AgingThreshold, CriticalThreshold,
  MaxAttempts, BatchLimit,
  MaxTime,        \* bound: the clock stops here
  StockFaults,    \* Faults of Inventory
  OutboxFaults    \* Faults of OutboxWorker.  A signal, which would end the
                  \* process a little later, is a crash here.

(* A batch is the subject of one batch_received event, a request of one    *)
(* batch_consumed or batch_written_off.                                    *)
Events == Requests \union Batches

ASSUME SystemAssumption ==
  /\ Requests \intersect Batches = {}
  /\ OutboxFaults \subseteq {"crash", "read", "write"}
  /\ "crash" \in OutboxFaults => "abort" \in StockFaults

VARIABLES
  row, received, cmd, pc, copy, snap, asOf, now, drawn, announced, wasted, outbox,
  status, attempts, hold, seen, ctx, runs, wins,
  scope   \* history: scope[w]: the batches w's last pass has read

stock == <<row, received, cmd, pc, copy, snap, asOf, now, drawn, announced, wasted, outbox>>
table == <<status, attempts, hold, seen, ctx, runs, wins>>
vars == <<stock, table, scope>>

I == INSTANCE Inventory WITH Sweepers <- Workers, Faults <- StockFaults
O == INSTANCE OutboxWorker WITH CreatedAt <- [e \in Events |-> 0], Faults <- OutboxFaults

(* Its parts' constants are such as theirs must be.                        *)
ASSUME PartsAssumption == I!InventoryAssumption /\ O!OutboxAssumption

Init == I!Init /\ O!Init /\ scope = [w \in Workers |-> {}]

-----------------------------------------------------------------------------
(* Changes that come with an event in their transaction, or Publish.       *)
Receive(b) == I!Receive(b) /\ O!Insert(b) /\ UNCHANGED scope
CommitConsume(r) == I!CommitConsume(r) /\ O!Insert(r) /\ UNCHANGED scope
Publish(r) == I!Publish(r) /\ O!Insert(r) /\ UNCHANGED scope

(* The steps of a request that others see in the inventory only.           *)
Quiet(r) ==
  /\ \/ I!Load(r) \/ I!Refuse(r) \/ I!UpdateTx(r) \/ I!Conflict(r)
     \/ I!PublishFails(r) \/ I!CommitWriteoff(r) \/ I!Abort(r)
  /\ UNCHANGED <<table, scope>>

Tick == I!Tick /\ UNCHANGED <<table, scope>>

-----------------------------------------------------------------------------
(* Mutant: the switch knows the event of a draw only.                      *)
StartsPassOnDraw(e) == e \in {r \in Requests : cmd[r].op = "consume"}

(* The switch of main.go; no code stores a batch_expired event.            *)
StartsPass(e) == e \in {r \in Requests : cmd[r].op \in {"consume", "writeoff"}}

(* The worker's own statements.                                            *)
Poll(w) ==
  /\ \/ O!Claim(w)
     \/ \E e \in Events : O!Settle(w, e) \/ O!SettleLost(w, e)
  /\ UNCHANGED <<stock, scope>>

Dispatch(w, e) ==
  /\ O!Call(w, e)
  /\ \/ /\ StartsPass(e)
        /\ I!SweepStart(w)
        /\ scope' = [scope EXCEPT ![w] = I!Active]
     \/ ~StartsPass(e) /\ UNCHANGED <<stock, scope>>

(* The pass goes on with one of its batches.                               *)
Pass(w) ==
  /\ \E b \in Batches : I!SweepSkip(w, b) \/ I!SweepSave(w, b)
  /\ UNCHANGED <<table, scope>>

(* Mutant: the handler starts the pass and does not wait for it.           *)
HandlerOkAtOnce(w, e) == O!HandlerOk(w, e) /\ UNCHANGED <<stock, scope>>

(* The pass is through, or the event is none that starts one.              *)
HandlerOk(w, e) == O!HandlerOk(w, e) /\ I!Todo(w) = {} /\ UNCHANGED <<stock, scope>>

(* The first error of the pass, or its FindActive has failed (no batch has *)
(* been looked at then).                                                   *)
HandlerErr(w, e) ==
  /\ O!HandlerErr(w, e)
  /\ \/ I!SweepFail(w)
     \/ /\ "abort" \in StockFaults /\ StartsPass(e) /\ scope[w] = {}
        /\ UNCHANGED stock
  /\ UNCHANGED scope

Crash(w) ==
  /\ O!Crash(w)
  /\ I!SweepFail(w) \/ (I!Todo(w) = {} /\ UNCHANGED stock)
  /\ UNCHANGED scope

Work(w) ==
  \/ Poll(w) \/ Pass(w)
  \/ \E e \in Events : Dispatch(w, e) \/ HandlerOk(w, e) \/ HandlerErr(w, e)

Request(r) == CommitConsume(r) \/ Publish(r) \/ Quiet(r)

Next ==
  \/ \E b \in Batches : Receive(b)
  \/ \E r \in Requests : Request(r)
  \/ \E w \in Workers : Work(w) \/ Crash(w)
  \/ Tick

Spec == Init /\ [][Next]_vars

(* A live process runs its loop and its handlers, a request that has begun *)
(* comes to its end, and time goes by.  No request has to begin.           *)
FairSpec ==
  /\ Spec /\ WF_vars(Tick)
  /\ \A w \in Workers : WF_vars(Work(w))
  /\ \A r \in Requests : WF_vars(pc[r] # "new" /\ Request(r))

-----------------------------------------------------------------------------
TypeOK ==
  /\ I!TypeOK /\ O!TypeOK
  /\ scope \in [Workers -> SUBSET Batches]

(* A pass is always on behalf of exactly one event, whose handler call has *)
(* not returned; only its worker's death or its error ends it early.       *)
PassInsideHandler ==
  \A w \in Workers : I!Todo(w) # {} =>
    \E e \in Requests : hold[w][e] = "handling" /\ \A f \in Events \ {e} : hold[w][f] # "handling"

(* A handler call that has reported success has done what its event asks   *)
(* for, though requests and other workers' passes changed the same rows    *)
(* meanwhile: every batch it has read that was past its date is marked     *)
(* expired, and none that was due for aging is still called fresh.         *)
SuccessMeansMarked ==
  \A w \in Workers, e \in Events : hold[w][e] = "ok" /\ StartsPass(e) =>
    \A b \in scope[w] :
      /\ asOf[w] > Expiry[b] => row[b].freshness = "expired"
      /\ asOf[w] + AgingThreshold > Expiry[b] => row[b].freshness # "fresh"

Lost(e) == status[e] = "processing" /\ ~O!Held(e)

(* Every event that is inserted is settled in the end, with passes that    *)
(* fail on conflicts and wait for the rows requests have locked; the only  *)
(* other end is to be lost with the process or statement that had it.      *)
EventsSettle ==
  \A e \in Events :
    status[e] = "pending" ~> (status[e] \in {"done", "failed"} \/ Lost(e))

(* A batch past its date is marked once a draw or a write-off of any batch *)
(* is in the table after that date, unless the event is lost, all its      *)
(* tries fail or the batch is used up.                                     *)
LateDrawMarks ==
  \A r \in Requests, b \in Batches :
    status[r] = "pending" /\ now > Expiry[b]
      ~> (b \notin I!Active \/ status[r] = "failed" \/ Lost(r))
=============================================================================
