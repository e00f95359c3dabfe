---------------------------- MODULE OutboxWorker ----------------------------
(***************************************************************************)
(* The outbox_events table and the goroutines that poll it                 *)
(* (internal/shared/postgres/outbox_worker.go).  Every api process runs    *)
(* one worker.  A worker claims a batch of pending rows in one UPDATE,     *)
(* calls the in-process handler for each claimed row, and writes the       *)
(* outcome back with one UPDATE per row.                                   *)
(*                                                                         *)
(* Each database statement is one step, and so are the call of the handler *)
(* and its return.  Three kinds of trouble can be switched on: the process *)
(* dies, main's context is cancelled by a signal, and a statement's result *)
(* is lost or the statement fails.                                         *)
(***************************************************************************)
EXTENDS Naturals, FiniteSets

CONSTANTS
  Events,       \* ids of the rows business transactions may insert
  Workers,      \* the polling goroutines, one per running process
  CreatedAt,    \* the created_at column of each row
  MaxAttempts,  \* the max_attempts column (one value for all rows, as DEFAULT gives)
  BatchLimit,   \* the LIMIT of the claiming statement
  Faults        \* the kinds of trouble that may happen

FaultKinds == {"crash", "cancel", "read", "write"}

ASSUME OutboxAssumption ==
  /\ CreatedAt \in [Events -> Nat]
  /\ MaxAttempts \in Nat \ {0}
  /\ BatchLimit \in Nat \ {0}
  /\ Faults \subseteq FaultKinds

VARIABLES
  status,    \* status[e]: the status column, "absent" before the row is committed
  attempts,  \* attempts[e]: the attempts column
  hold,      \* hold[w][e]: where w's loop stands with a row it has claimed
  seen,      \* seen[w][e]: the attempts value RETURNING gave to w
  ctx,       \* ctx[w]: main's context in w's process
  runs,      \* history: how often the handler was called for e
  wins       \* history: how often the handler returned nil for e

vars == <<status, attempts, hold, seen, ctx, runs, wins>>

Status == {"absent", "pending", "processing", "done", "failed"}
Hold == {"none", "queued", "handling", "ok", "err"}

Init ==
  /\ status = [e \in Events |-> "absent"]
  /\ attempts = [e \in Events |-> 0]
  /\ hold = [w \in Workers |-> [e \in Events |-> "none"]]
  /\ seen = [w \in Workers |-> [e \in Events |-> 0]]
  /\ ctx = [w \in Workers |-> "live"]
  /\ runs = [e \in Events |-> 0]
  /\ wins = [e \in Events |-> 0]

-----------------------------------------------------------------------------
(* A row becomes visible when the transaction that ran PublishTx commits.  *)
(* created_at is that transaction's start, so rows appear in any order.    *)
Insert(e) ==
  /\ status[e] = "absent"
  /\ status' = [status EXCEPT ![e] = "pending"]
  /\ UNCHANGED <<attempts, hold, seen, ctx, runs, wins>>

Idle(w) == \A e \in Events : hold[w][e] = "none"

Busy(w) == \E e \in Events : hold[w][e] \in {"handling", "ok", "err"}

(* Mutant: the claim takes rows that are being processed too.             *)
EligibleReclaims == {e \in Events : status[e] \in {"pending", "processing"}}

Eligible == {e \in Events : status[e] = "pending" /\ attempts[e] < MaxAttempts}

(* The rows the sub-select of the claiming statement may return.           *)
Claimable(S) ==
  /\ S # {}
  /\ \A e \in S, f \in Eligible \ S : CreatedAt[e] <= CreatedAt[f]
  /\ Cardinality(S) <= BatchLimit
  /\ Cardinality(S) < BatchLimit => S = Eligible

(* processOnce's claim.  The UPDATE commits for every row of S; the loop   *)
(* gets the rows it could read (rows.Err is never looked at).              *)
Claim(w) ==
  /\ ctx[w] = "live" /\ Idle(w)
  /\ \E S \in SUBSET Eligible : \E got \in SUBSET S :
       /\ Claimable(S)
       /\ got # S => "read" \in Faults
       /\ status' = [e \in Events |-> IF e \in S THEN "processing" ELSE status[e]]
       /\ attempts' = [e \in Events |-> IF e \in S THEN attempts[e] + 1 ELSE attempts[e]]
       /\ hold' = [hold EXCEPT ![w] = [e \in Events |-> IF e \in got THEN "queued" ELSE "none"]]
       /\ seen' = [seen EXCEPT ![w] = [e \in Events |-> IF e \in got THEN attempts[e] + 1 ELSE 0]]
  /\ UNCHANGED <<ctx, runs, wins>>

(* The loop calls the handler for the next row; RETURNING gives no order.  *)
Call(w, e) ==
  /\ hold[w][e] = "queued" /\ ~Busy(w)
  /\ hold' = [hold EXCEPT ![w][e] = "handling"]
  /\ runs' = [runs EXCEPT ![e] = @ + 1]
  /\ UNCHANGED <<status, attempts, seen, ctx, wins>>

HandlerOk(w, e) ==
  /\ hold[w][e] = "handling"
  /\ hold' = [hold EXCEPT ![w][e] = "ok"]
  /\ wins' = [wins EXCEPT ![e] = @ + 1]
  /\ UNCHANGED <<status, attempts, seen, ctx, runs>>

HandlerErr(w, e) ==
  /\ hold[w][e] = "handling"
  /\ hold' = [hold EXCEPT ![w][e] = "err"]
  /\ UNCHANGED <<status, attempts, seen, ctx, runs, wins>>

(* Mutant: > instead of >= in the test of the last attempt.                *)
OutcomeOffByOne(w, e) ==
  IF hold[w][e] = "ok" THEN "done"
  ELSE IF seen[w][e] > MaxAttempts THEN "failed" ELSE "pending"

(* The status the loop writes, decided on the copy of attempts it holds.   *)
Outcome(w, e) ==
  IF hold[w][e] = "ok" THEN "done"
  ELSE IF seen[w][e] >= MaxAttempts THEN "failed" ELSE "pending"

Settle(w, e) ==
  /\ hold[w][e] \in {"ok", "err"} /\ ctx[w] = "live"
  /\ status' = [status EXCEPT ![e] = Outcome(w, e)]
  /\ hold' = [hold EXCEPT ![w][e] = "none"]
  /\ seen' = [seen EXCEPT ![w][e] = 0]
  /\ UNCHANGED <<attempts, ctx, runs, wins>>

(* The error of that UPDATE is dropped (nolint:errcheck), and the UPDATE   *)
(* always fails once the context it is given has been cancelled.           *)
SettleLost(w, e) ==
  /\ hold[w][e] \in {"ok", "err"}
  /\ "write" \in Faults \/ ctx[w] = "cancelled"
  /\ hold' = [hold EXCEPT ![w][e] = "none"]
  /\ seen' = [seen EXCEPT ![w][e] = 0]
  /\ UNCHANGED <<status, attempts, ctx, runs, wins>>

-----------------------------------------------------------------------------
(* SIGINT or SIGTERM: signal.NotifyContext cancels the worker's context.   *)
Cancel(w) ==
  /\ "cancel" \in Faults /\ ctx[w] = "live"
  /\ ctx' = [ctx EXCEPT ![w] = "cancelled"]
  /\ UNCHANGED <<status, attempts, hold, seen, runs, wins>>

(* Run returns on ctx.Done once the loop is through; the process is        *)
(* started again and the new worker polls the same table.                  *)
Restart(w) ==
  /\ ctx[w] = "cancelled" /\ Idle(w)
  /\ ctx' = [ctx EXCEPT ![w] = "live"]
  /\ UNCHANGED <<status, attempts, hold, seen, runs, wins>>

(* The process dies (main does not wait for the worker either) and a new   *)
(* one takes its place: the claimed rows are known to nobody.              *)
Crash(w) ==
  /\ "crash" \in Faults /\ ~Idle(w)
  /\ hold' = [hold EXCEPT ![w] = [e \in Events |-> "none"]]
  /\ seen' = [seen EXCEPT ![w] = [e \in Events |-> 0]]
  /\ ctx' = [ctx EXCEPT ![w] = "live"]
  /\ UNCHANGED <<status, attempts, runs, wins>>

Progress(w) ==
  \/ Claim(w)
  \/ Restart(w)
  \/ \E e \in Events : Call(w, e) \/ HandlerOk(w, e) \/ HandlerErr(w, e)
                         \/ Settle(w, e) \/ SettleLost(w, e)

Next ==
  \/ \E e \in Events : Insert(e)
  \/ \E w \in Workers : Progress(w) \/ Cancel(w) \/ Crash(w)

Spec == Init /\ [][Next]_vars

(* A live process keeps running its loop and its handlers return.  Nothing *)
(* is assumed of inserts, signals and crashes.                             *)
FairSpec == Spec /\ \A w \in Workers : WF_vars(Progress(w))

-----------------------------------------------------------------------------
Held(e) == \E w \in Workers : hold[w][e] # "none"

TypeOK ==
  /\ status \in [Events -> Status]
  /\ attempts \in [Events -> 0..MaxAttempts]
  /\ hold \in [Workers -> [Events -> Hold]]
  /\ seen \in [Workers -> [Events -> 0..MaxAttempts]]
  /\ ctx \in [Workers -> {"live", "cancelled"}]
  /\ runs \in [Events -> Nat]
  /\ wins \in [Events -> Nat]

(* Two workers never have the same row in hand, and the row a worker has   *)
(* in hand is still marked 'processing' with the attempts value it was     *)
(* told: the late UPDATE by id alone (no status test) cannot overwrite     *)
(* another worker's claim.                                                 *)
ExclusiveClaim ==
  \A w \in Workers, e \in Events : hold[w][e] # "none" =>
    /\ status[e] = "processing"
    /\ seen[w][e] = attempts[e]
    /\ \A v \in Workers \ {w} : hold[v][e] = "none"

(* No row is left in 'pending' that the claiming statement would never     *)
(* pick again: the attempts test of the claim and the one that turns a row *)
(* to 'failed' leave no gap, whatever fails.                               *)
PendingIsClaimable ==
  \A e \in Events : status[e] = "pending" => attempts[e] < MaxAttempts

(* The handler is never called more than max_attempts times for a row, it  *)
(* never succeeds twice, 'done' means it did succeed, and 'failed' means   *)
(* all max_attempts calls were made and every one returned an error.       *)
AttemptAccounting ==
  \A e \in Events :
    /\ runs[e] <= MaxAttempts
    /\ wins[e] <= 1
    /\ status[e] = "done" => wins[e] = 1
    /\ status[e] = "failed" => runs[e] = MaxAttempts /\ wins[e] = 0

(* 'done' and 'failed' are final: no late write by a slow worker revives a *)
(* settled row.                                                            *)
SettledIsFinal ==
  [][\A e \in Events : status[e] \in {"done", "failed"} => status'[e] = status[e]]_vars

(* docs/ARCHITECTURE.md: the outbox "guarantees delivery at least once":   *)
(* a committed event is handled, or every allowed attempt was made.        *)
AtLeastOnce ==
  \A e \in Events : status[e] = "pending" ~> (wins[e] > 0 \/ runs[e] = MaxAttempts)

-----------------------------------------------------------------------------
(* What the table and its workers promise to a publisher, as EventDelivery *)
(* states it.  A claimed row nobody has in hand is a lost event.           *)
Succeeded(e) == \E w \in Workers : hold[w][e] = "ok"

StageOf(e) ==
  IF status[e] = "processing"
  THEN IF Succeeded(e) THEN "delivered" ELSE IF Held(e) THEN "trying" ELSE "lost"
  ELSE IF status[e] = "pending" THEN "waiting" ELSE status[e]

Delivery == INSTANCE EventDelivery WITH
              MaxTries <- MaxAttempts,
              stage <- [e \in Events |-> StageOf(e)],
              tries <- attempts

(* Every behaviour of the table and its workers is one of EventDelivery's: *)
(* one try at a time, at most max_attempts of them, and an event once lost *)
(* is never tried again.                                                   *)
DeliverySpec == Delivery!Spec
=============================================================================
