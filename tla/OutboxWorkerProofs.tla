------------------------- MODULE OutboxWorkerProofs -------------------------
(***************************************************************************)
(* Safety of the outbox for any set of rows and workers, any LIMIT and     *)
(* max_attempts, and under every kind of trouble OutboxWorker knows.       *)
(***************************************************************************)
EXTENDS OutboxWorker, TLAPS

(* What a row's status says of the calls made for it.                      *)
RowHistory(e) ==
  /\ runs[e] <= attempts[e] /\ wins[e] <= 1
  /\ status[e] = "absent" => attempts[e] = 0
  /\ status[e] # "processing" => runs[e] = attempts[e]
  /\ status[e] = "processing" => attempts[e] >= 1
  /\ status[e] \in {"absent", "pending", "failed"} => wins[e] = 0
  /\ status[e] = "done" => wins[e] = 1
  /\ status[e] = "failed" => attempts[e] = MaxAttempts

(* What the place of a row in a worker's loop says of them.                *)
LoopHistory(w, e) ==
  /\ hold[w][e] = "queued" => runs[e] + 1 = attempts[e]
  /\ hold[w][e] \in {"handling", "ok", "err"} => runs[e] = attempts[e]
  /\ hold[w][e] \in {"queued", "handling", "err"} => wins[e] = 0
  /\ hold[w][e] = "ok" => wins[e] = 1

History ==
  /\ \A e \in Events : RowHistory(e)
  /\ \A w \in Workers, e \in Events : LoopHistory(w, e)

(* The inductive invariant: AttemptAccounting alone is not inductive, since *)
(* it says nothing of rows that are being processed.                       *)
IInv == TypeOK /\ ExclusiveClaim /\ PendingIsClaimable /\ History

-----------------------------------------------------------------------------
(* At first no row exists and no worker holds one.                         *)
LEMMA InitIInv == Init => IInv
  BY OutboxAssumption DEF Init, IInv, TypeOK, ExclusiveClaim, PendingIsClaimable,
     History, RowHistory, LoopHistory, Status, Hold

(* A new row has no attempts and no history.                               *)
LEMMA InsertIInv ==
  ASSUME IInv, NEW e \in Events, Insert(e)
  PROVE  IInv'
  <1> USE OutboxAssumption
  <1>1. TypeOK'
    BY DEF IInv, TypeOK, Insert, Status
  <1>2. ExclusiveClaim'
    BY DEF IInv, TypeOK, ExclusiveClaim, Insert
  <1>3. PendingIsClaimable'
    BY DEF IInv, TypeOK, PendingIsClaimable, History, RowHistory, Insert
  <1>4. History'
    BY DEF IInv, TypeOK, History, RowHistory, LoopHistory, Insert
  <1>5. QED
    BY <1>1, <1>2, <1>3, <1>4 DEF IInv

(* A claim takes rows nobody holds and counts one attempt for each.        *)
LEMMA ClaimIInv ==
  ASSUME IInv, NEW w \in Workers, Claim(w)
  PROVE  IInv'
  <1> USE OutboxAssumption
  <1>1. PICK S \in SUBSET Eligible : \E got \in SUBSET S :
          /\ status' = [e \in Events |-> IF e \in S THEN "processing" ELSE status[e]]
          /\ attempts' = [e \in Events |-> IF e \in S THEN attempts[e] + 1 ELSE attempts[e]]
          /\ hold' = [hold EXCEPT ![w] = [e \in Events |-> IF e \in got THEN "queued" ELSE "none"]]
          /\ seen' = [seen EXCEPT ![w] = [e \in Events |-> IF e \in got THEN attempts[e] + 1 ELSE 0]]
    BY DEF Claim
  <1>2. PICK got \in SUBSET S :
          /\ hold' = [hold EXCEPT ![w] = [e \in Events |-> IF e \in got THEN "queued" ELSE "none"]]
          /\ seen' = [seen EXCEPT ![w] = [e \in Events |-> IF e \in got THEN attempts[e] + 1 ELSE 0]]
    BY <1>1
  <1>3. \A e \in S : /\ e \in Events /\ status[e] = "pending" /\ attempts[e] < MaxAttempts
                     /\ attempts[e] \in Nat
    BY DEF Eligible, IInv, TypeOK
  <1>4. \A e \in S, v \in Workers : hold[v][e] = "none"
    BY <1>3 DEF IInv, TypeOK, ExclusiveClaim
  <1>5. UNCHANGED <<ctx, runs, wins>>
    BY DEF Claim
  <1>6. \A e \in Events : /\ status'[e] = (IF e \in S THEN "processing" ELSE status[e])
                          /\ attempts'[e] = (IF e \in S THEN attempts[e] + 1 ELSE attempts[e])
    BY <1>1
  <1>7. \A v \in Workers, e \in Events :
          /\ hold'[v][e] = (IF v = w THEN (IF e \in got THEN "queued" ELSE "none") ELSE hold[v][e])
          /\ seen'[v][e] = (IF v = w THEN (IF e \in got THEN attempts[e] + 1 ELSE 0) ELSE seen[v][e])
    BY <1>2 DEF IInv, TypeOK
  <1>8. TypeOK'
    <2>1. \A e \in Events : attempts[e] \in 0..MaxAttempts
      BY DEF IInv, TypeOK
    <2>2. attempts' \in [Events -> 0..MaxAttempts]
      BY <1>1, <1>3, <2>1
    <2>3. seen' \in [Workers -> [Events -> 0..MaxAttempts]]
      <3>1. [e \in Events |-> IF e \in got THEN attempts[e] + 1 ELSE 0]
               \in [Events -> 0..MaxAttempts]
        BY <1>3
      <3>2. QED
        BY <3>1, <1>2 DEF IInv, TypeOK
    <2>4. status' \in [Events -> Status]
      BY <1>1 DEF IInv, TypeOK, Status
    <2>5. hold' \in [Workers -> [Events -> Hold]]
      BY <1>2 DEF IInv, TypeOK, Hold
    <2>6. QED
      BY <1>5, <2>2, <2>3, <2>4, <2>5 DEF IInv, TypeOK
  <1>9. ExclusiveClaim'
    <2> SUFFICES ASSUME NEW v \in Workers, NEW e \in Events, hold'[v][e] # "none"
                 PROVE  /\ status'[e] = "processing"
                        /\ seen'[v][e] = attempts'[e]
                        /\ \A u \in Workers \ {v} : hold'[u][e] = "none"
      BY DEF ExclusiveClaim
    <2>1. CASE v = w
      <3>1. e \in got
        BY <1>7, <2>1
      <3>2. QED
        BY <1>4, <1>6, <1>7, <2>1, <3>1
    <2>2. CASE v # w
      <3>1. e \notin S /\ hold[v][e] # "none"
        BY <1>4, <1>7, <2>2
      <3>2. QED
        BY <1>6, <1>7, <2>2, <3>1 DEF IInv, ExclusiveClaim
    <2>3. QED
      BY <2>1, <2>2
  <1>10. PendingIsClaimable'
    BY <1>6 DEF IInv, PendingIsClaimable
  <1>11. History'
    <2>1. \A e \in Events : RowHistory(e)'
      BY <1>3, <1>5, <1>6 DEF IInv, TypeOK, History, RowHistory
    <2>2. \A v \in Workers, e \in Events : LoopHistory(v, e)'
      BY <1>3, <1>4, <1>5, <1>6, <1>7 DEF IInv, TypeOK, History, RowHistory, LoopHistory
    <2>3. QED
      BY <2>1, <2>2 DEF History
  <1>12. QED
    BY <1>8, <1>9, <1>10, <1>11 DEF IInv

(* The handler is called for a row that is held, once per attempt.         *)
LEMMA CallIInv ==
  ASSUME IInv, NEW w \in Workers, NEW e \in Events, Call(w, e)
  PROVE  IInv'
  <1> USE OutboxAssumption
  <1>1. TypeOK'
    BY DEF IInv, TypeOK, Call, Hold
  <1>2. ExclusiveClaim'
    BY DEF IInv, TypeOK, ExclusiveClaim, Call
  <1>3. PendingIsClaimable'
    BY DEF IInv, TypeOK, ExclusiveClaim, PendingIsClaimable, Call
  <1>4. History'
    <2>1. \A f \in Events : RowHistory(f)'
      BY DEF IInv, TypeOK, ExclusiveClaim, History, RowHistory, LoopHistory, Call
    <2>2. \A v \in Workers, f \in Events : LoopHistory(v, f)'
      <3>1. /\ UNCHANGED <<status, attempts, wins>>
            /\ \A f \in Events : runs'[f] = IF f = e THEN runs[f] + 1 ELSE runs[f]
            /\ \A v \in Workers, f \in Events :
                 hold'[v][f] = IF v = w /\ f = e THEN "handling" ELSE hold[v][f]
        BY DEF IInv, TypeOK, Call
      <3>2. hold[w][e] = "queued" /\ \A v \in Workers \ {w} : hold[v][e] = "none"
        BY DEF IInv, ExclusiveClaim, Call
      <3>3. QED
        BY <3>1, <3>2 DEF IInv, TypeOK, History, LoopHistory
    <2>3. QED
      BY <2>1, <2>2 DEF History
  <1>5. QED
    BY <1>1, <1>2, <1>3, <1>4 DEF IInv

(* A handler succeeds for a row that has no success yet.                   *)
LEMMA HandlerOkIInv ==
  ASSUME IInv, NEW w \in Workers, NEW e \in Events, HandlerOk(w, e)
  PROVE  IInv'
  <1> USE OutboxAssumption
  <1>1. TypeOK'
    BY DEF IInv, TypeOK, HandlerOk, Hold
  <1>2. ExclusiveClaim'
    BY DEF IInv, TypeOK, ExclusiveClaim, HandlerOk
  <1>3. PendingIsClaimable'
    BY DEF IInv, TypeOK, ExclusiveClaim, PendingIsClaimable, HandlerOk
  <1>4. History'
    <2>1. \A f \in Events : RowHistory(f)'
      BY DEF IInv, TypeOK, ExclusiveClaim, History, RowHistory, LoopHistory, HandlerOk
    <2>2. \A v \in Workers, f \in Events : LoopHistory(v, f)'
      BY DEF IInv, TypeOK, ExclusiveClaim, History, RowHistory, LoopHistory, HandlerOk
    <2>3. QED
      BY <2>1, <2>2 DEF History
  <1>5. QED
    BY <1>1, <1>2, <1>3, <1>4 DEF IInv

(* A failed call changes the loop only.                                    *)
LEMMA HandlerErrIInv ==
  ASSUME IInv, NEW w \in Workers, NEW e \in Events, HandlerErr(w, e)
  PROVE  IInv'
  <1> USE OutboxAssumption
  <1>1. TypeOK'
    BY DEF IInv, TypeOK, HandlerErr, Hold
  <1>2. ExclusiveClaim'
    BY DEF IInv, TypeOK, ExclusiveClaim, HandlerErr
  <1>3. PendingIsClaimable'
    BY DEF IInv, TypeOK, ExclusiveClaim, PendingIsClaimable, HandlerErr
  <1>4. History'
    <2>1. \A f \in Events : RowHistory(f)'
      BY DEF IInv, TypeOK, ExclusiveClaim, History, RowHistory, LoopHistory, HandlerErr
    <2>2. \A v \in Workers, f \in Events : LoopHistory(v, f)'
      BY DEF IInv, TypeOK, ExclusiveClaim, History, RowHistory, LoopHistory, HandlerErr
    <2>3. QED
      BY <2>1, <2>2 DEF History
  <1>5. QED
    BY <1>1, <1>2, <1>3, <1>4 DEF IInv

(* The outcome is written by the only worker that holds the row.           *)
LEMMA SettleIInv ==
  ASSUME IInv, NEW w \in Workers, NEW e \in Events, Settle(w, e)
  PROVE  IInv'
  <1> USE OutboxAssumption
  <1>1. TypeOK'
    BY DEF IInv, TypeOK, Settle, Hold, Outcome, Status
  <1>2. ExclusiveClaim'
    BY DEF IInv, TypeOK, ExclusiveClaim, Settle, Outcome
  <1>3. PendingIsClaimable'
    BY DEF IInv, TypeOK, ExclusiveClaim, PendingIsClaimable, Settle, Outcome
  <1>4. History'
    <2>1. \A f \in Events : RowHistory(f)'
      <3>1. /\ hold[w][e] \in {"ok", "err"} /\ status[e] = "processing"
            /\ seen[w][e] = attempts[e] /\ RowHistory(e) /\ LoopHistory(w, e)
        BY DEF IInv, ExclusiveClaim, History, Settle
      <3>2. /\ UNCHANGED <<attempts, runs, wins>>
            /\ \A f \in Events : status'[f] = IF f = e THEN Outcome(w, e) ELSE status[f]
        BY DEF IInv, TypeOK, Settle
      <3>3. attempts[e] \in 0..MaxAttempts
        BY DEF IInv, TypeOK
      <3>4. RowHistory(e)'
        BY <3>1, <3>2, <3>3 DEF RowHistory, LoopHistory, Outcome
      <3>5. \A f \in Events \ {e} : RowHistory(f)'
        BY <3>2 DEF IInv, History, RowHistory
      <3>6. QED
        BY <3>4, <3>5
    <2>2. \A v \in Workers, f \in Events : LoopHistory(v, f)'
      BY DEF IInv, TypeOK, ExclusiveClaim, History, RowHistory, LoopHistory, Settle, Outcome
    <2>3. QED
      BY <2>1, <2>2 DEF History
  <1>5. QED
    BY <1>1, <1>2, <1>3, <1>4 DEF IInv

(* A lost outcome leaves the row in processing for ever, with no holder.   *)
LEMMA SettleLostIInv ==
  ASSUME IInv, NEW w \in Workers, NEW e \in Events, SettleLost(w, e)
  PROVE  IInv'
  <1> USE OutboxAssumption
  <1>1. TypeOK'
    BY DEF IInv, TypeOK, SettleLost, Hold
  <1>2. ExclusiveClaim'
    BY DEF IInv, TypeOK, ExclusiveClaim, SettleLost
  <1>3. PendingIsClaimable'
    BY DEF IInv, TypeOK, ExclusiveClaim, PendingIsClaimable, SettleLost
  <1>4. History'
    <2>1. \A f \in Events : RowHistory(f)'
      BY DEF IInv, TypeOK, ExclusiveClaim, History, RowHistory, LoopHistory, SettleLost
    <2>2. \A v \in Workers, f \in Events : LoopHistory(v, f)'
      BY DEF IInv, TypeOK, ExclusiveClaim, History, RowHistory, LoopHistory, SettleLost
    <2>3. QED
      BY <2>1, <2>2 DEF History
  <1>5. QED
    BY <1>1, <1>2, <1>3, <1>4 DEF IInv

(* A signal and a restart change ctx only.                                 *)
LEMMA SignalIInv ==
  ASSUME IInv, NEW w \in Workers, Cancel(w) \/ Restart(w)
  PROVE  IInv'
  <1>1. UNCHANGED <<status, attempts, hold, seen, runs, wins>>
    BY DEF Cancel, Restart
  <1>2. ctx' \in [Workers -> {"live", "cancelled"}]
    BY DEF Cancel, Restart, IInv, TypeOK
  <1>3. QED
    BY <1>1, <1>2 DEF IInv, TypeOK, ExclusiveClaim, PendingIsClaimable, History,
       RowHistory, LoopHistory

(* A crash empties one worker's hands and writes no row.                   *)
LEMMA CrashIInv ==
  ASSUME IInv, NEW w \in Workers, Crash(w)
  PROVE  IInv'
  <1> USE OutboxAssumption
  <1>1. UNCHANGED <<status, attempts, runs, wins>>
    BY DEF Crash
  <1>2. \A v \in Workers, e \in Events :
          /\ hold'[v][e] = IF v = w THEN "none" ELSE hold[v][e]
          /\ seen'[v][e] = IF v = w THEN 0 ELSE seen[v][e]
    BY DEF Crash, IInv, TypeOK
  <1>3. TypeOK'
    <2>1. [e \in Events |-> 0] \in [Events -> 0..MaxAttempts]
      OBVIOUS
    <2>2. seen' \in [Workers -> [Events -> 0..MaxAttempts]]
      BY <2>1 DEF Crash, IInv, TypeOK
    <2>3. hold' \in [Workers -> [Events -> Hold]]
      BY DEF Crash, IInv, TypeOK, Hold
    <2>4. ctx' \in [Workers -> {"live", "cancelled"}]
      BY DEF Crash, IInv, TypeOK
    <2>5. QED
      BY <1>1, <2>2, <2>3, <2>4 DEF IInv, TypeOK
  <1>4. ExclusiveClaim'
    BY <1>1, <1>2 DEF IInv, ExclusiveClaim
  <1>5. PendingIsClaimable'
    BY <1>1 DEF IInv, PendingIsClaimable
  <1>6. History'
    BY <1>1, <1>2 DEF IInv, History, RowHistory, LoopHistory
  <1>7. QED
    BY <1>3, <1>4, <1>5, <1>6 DEF IInv

(* No step breaks the invariant.                                           *)
LEMMA NextIInv == IInv /\ [Next]_vars => IInv'
  <1> SUFFICES ASSUME IInv, [Next]_vars PROVE IInv'
    OBVIOUS
  <1>1. CASE UNCHANGED vars
    BY <1>1 DEF IInv, TypeOK, ExclusiveClaim, PendingIsClaimable, History, RowHistory,
       LoopHistory, vars
  <1>2. CASE \E e \in Events : Insert(e)
    BY <1>2, InsertIInv
  <1>3. ASSUME NEW w \in Workers, Progress(w)
        PROVE  IInv'
    <2>1. CASE Claim(w)
      BY <2>1, ClaimIInv
    <2>2. CASE Restart(w)
      BY <2>2, SignalIInv
    <2>3. CASE \E e \in Events : \/ Call(w, e) \/ HandlerOk(w, e) \/ HandlerErr(w, e)
                                 \/ Settle(w, e) \/ SettleLost(w, e)
      BY <2>3, CallIInv, HandlerOkIInv, HandlerErrIInv, SettleIInv, SettleLostIInv
    <2>4. QED
      BY <1>3, <2>1, <2>2, <2>3 DEF Progress
  <1>4. CASE \E w \in Workers : Cancel(w) \/ Crash(w)
    BY <1>4, SignalIInv, CrashIInv
  <1>5. QED
    BY <1>1, <1>2, <1>3, <1>4 DEF Next

(* Rows, loops and the history of calls fit together in every reachable    *)
(* state.                                                                  *)
THEOREM Invariance == Spec => []IInv
  BY InitIInv, NextIInv, PTL DEF Spec

-----------------------------------------------------------------------------
(* Every column and every loop keeps its type (attempts never passes       *)
(* max_attempts).                                                          *)
THEOREM TypeCorrect == Spec => []TypeOK
  <1>1. IInv => TypeOK
    BY DEF IInv
  <1>2. QED
    BY <1>1, Invariance, PTL

(* However many workers poll the table, no row is ever in two hands, and   *)
(* the row a worker is about to write is still the one it claimed.         *)
THEOREM OneWorkerPerRow == Spec => []ExclusiveClaim
  <1>1. IInv => ExclusiveClaim
    BY DEF IInv
  <1>2. QED
    BY <1>1, Invariance, PTL

(* No row is stuck in 'pending' with its attempts used up.                 *)
THEOREM NoStuckPending == Spec => []PendingIsClaimable
  <1>1. IInv => PendingIsClaimable
    BY DEF IInv
  <1>2. QED
    BY <1>1, Invariance, PTL

(* Handlers are called at most max_attempts times and succeed at most      *)
(* once; 'done' and 'failed' tell the truth about the calls that were made. *)
THEOREM TrueOutcomes == Spec => []AttemptAccounting
  <1>1. IInv => AttemptAccounting
    BY OutboxAssumption DEF IInv, TypeOK, History, RowHistory, AttemptAccounting
  <1>2. QED
    BY <1>1, Invariance, PTL

(* No write by a slow worker revives a settled row.                        *)
THEOREM NoRevival == Spec => SettledIsFinal
  <1> DEFINE Final == \A e \in Events : status[e] \in {"done", "failed"} => status'[e] = status[e]
  <1>1. IInv /\ [Next]_vars => [Final]_vars
    <2> SUFFICES ASSUME IInv, Next PROVE Final
      BY DEF vars
    <2> USE DEF IInv, TypeOK, ExclusiveClaim
    <2>1. ASSUME NEW e \in Events, Insert(e) PROVE Final
      BY <2>1 DEF Insert
    <2>2. ASSUME NEW w \in Workers, Claim(w) PROVE Final
      BY <2>2 DEF Claim, Eligible
    <2>3. ASSUME NEW w \in Workers, NEW e \in Events, Settle(w, e) PROVE Final
      BY <2>3 DEF Settle
    <2>4. ASSUME NEW w \in Workers, NEW e \in Events,
                 Call(w, e) \/ HandlerOk(w, e) \/ HandlerErr(w, e) \/ SettleLost(w, e)
          PROVE  Final
      BY <2>4 DEF Call, HandlerOk, HandlerErr, SettleLost
    <2>5. ASSUME NEW w \in Workers, Cancel(w) \/ Restart(w) \/ Crash(w) PROVE Final
      BY <2>5 DEF Cancel, Restart, Crash
    <2>6. QED
      BY <2>1, <2>2, <2>3, <2>4, <2>5 DEF Next, Progress
  <1>2. QED
    BY <1>1, Invariance, PTL DEF Spec, SettledIsFinal

-----------------------------------------------------------------------------
(* How far a row is from the end of its attempt; 1 is for a row that was   *)
(* claimed and is in nobody's hands any more.                              *)
PlaceIn(h, s, e) ==
  IF \E w \in Workers : h[w][e] = "queued" THEN 4
  ELSE IF \E w \in Workers : h[w][e] = "handling" THEN 3
  ELSE IF \E w \in Workers : h[w][e] # "none" THEN 2
  ELSE IF s[e] = "processing" THEN 1 ELSE 0

(* The steps that may still be made for a row.                             *)
Budget(e) == 5 * (MaxAttempts - attempts[e]) + PlaceIn(hold, status, e)

Touched(e) ==
  \/ status'[e] # status[e] \/ attempts'[e] # attempts[e]
  \/ runs'[e] # runs[e] \/ wins'[e] # wins[e]
  \/ \E w \in Workers : hold'[w][e] # hold[w][e]

BudgetInBounds == \A e \in Events : Budget(e) \in 0..5 * MaxAttempts

(* Whatever a worker does to a row of the table, or a fault to its claim,  *)
(* uses up part of the row's budget, and nothing gives any of it back.     *)
StepsAreSpent ==
  [][\A e \in Events : status[e] # "absent" =>
       /\ Touched(e) => Budget(e)' < Budget(e)
       /\ ~Touched(e) => Budget(e)' = Budget(e)]_vars

(* A place when at most one worker has the row.                            *)
LEMMA PlaceOfHeld ==
  ASSUME NEW h, NEW s, NEW e, NEW w \in Workers,
         \A v \in Workers \ {w} : h[v][e] = "none"
  PROVE  PlaceIn(h, s, e) =
           IF h[w][e] = "queued" THEN 4 ELSE IF h[w][e] = "handling" THEN 3
           ELSE IF h[w][e] # "none" THEN 2 ELSE IF s[e] = "processing" THEN 1 ELSE 0
  BY DEF PlaceIn

(* A row with no worker at it.                                             *)
LEMMA PlaceOfFree ==
  ASSUME NEW h, NEW s, NEW e, \A v \in Workers : h[v][e] = "none"
  PROVE  PlaceIn(h, s, e) = IF s[e] = "processing" THEN 1 ELSE 0
  BY DEF PlaceIn

(* Five steps at most for each attempt, and none but claims otherwise.     *)
LEMMA BudgetType ==
  ASSUME IInv
  PROVE  BudgetInBounds
  <1> SUFFICES ASSUME NEW e \in Events PROVE Budget(e) \in 0..5 * MaxAttempts
    BY DEF BudgetInBounds
  <1>1. attempts[e] \in 0..MaxAttempts /\ MaxAttempts \in Nat
    BY OutboxAssumption DEF IInv, TypeOK
  <1>2. PlaceIn(hold, status, e) \in 0..4
    BY DEF PlaceIn
  <1>3. CASE status[e] # "processing"
    <2>1. PlaceIn(hold, status, e) = 0
      BY <1>3, PlaceOfFree DEF IInv, ExclusiveClaim
    <2>2. QED
      BY <1>1, <2>1 DEF Budget
  <1>4. CASE status[e] = "processing"
    <2>1. attempts[e] >= 1
      BY <1>4 DEF IInv, History, RowHistory
    <2>2. QED
      BY <1>1, <1>2, <2>1 DEF Budget
  <1>5. QED
    BY <1>3, <1>4

(* Steps that do nothing to a row leave its budget alone.                  *)
LEMMA UntouchedBudget ==
  ASSUME NEW e \in Events, ~Touched(e)
  PROVE  Budget(e)' = Budget(e)
  <1>1. status'[e] = status[e] /\ attempts'[e] = attempts[e] /\ \A w \in Workers : hold'[w][e] = hold[w][e]
    BY DEF Touched
  <1>2. PlaceIn(hold', status', e) = PlaceIn(hold, status, e)
    BY <1>1 DEF PlaceIn
  <1>3. QED
    BY <1>1, <1>2 DEF Budget

(* A claim spends an attempt, four steps of which are still to come.       *)
LEMMA ClaimSpends ==
  ASSUME IInv, NEW w \in Workers, Claim(w), NEW e \in Events, Touched(e)
  PROVE  Budget(e)' < Budget(e)
  <1>1. PICK S \in SUBSET Eligible : \E got \in SUBSET S :
          /\ status' = [f \in Events |-> IF f \in S THEN "processing" ELSE status[f]]
          /\ attempts' = [f \in Events |-> IF f \in S THEN attempts[f] + 1 ELSE attempts[f]]
          /\ hold' = [hold EXCEPT ![w] = [f \in Events |-> IF f \in got THEN "queued" ELSE "none"]]
    BY DEF Claim
  <1>2. Idle(w) /\ UNCHANGED <<runs, wins>>
    BY DEF Claim
  <1>3. e \in S
    BY <1>1, <1>2 DEF Touched, Idle, IInv, TypeOK
  <1>4. status[e] = "pending" /\ attempts'[e] = attempts[e] + 1
    BY <1>1, <1>3 DEF Eligible
  <1>5. PlaceIn(hold, status, e) = 0
    BY <1>4, PlaceOfFree DEF IInv, ExclusiveClaim
  <1>6. PlaceIn(hold', status', e) \in 0..4
    BY DEF PlaceIn
  <1>7. attempts[e] \in Nat /\ MaxAttempts \in Nat
    BY OutboxAssumption DEF IInv, TypeOK
  <1>8. QED
    BY <1>4, <1>5, <1>6, <1>7 DEF Budget

(* What the loop does with a row it has claimed brings the row nearer to   *)
(* the end of its attempt.                                                 *)
LEMMA LoopSpends ==
  ASSUME IInv, NEW w \in Workers, NEW x \in Events, NEW e \in Events, Touched(e),
         \/ Call(w, x) \/ HandlerOk(w, x) \/ HandlerErr(w, x)
         \/ Settle(w, x) \/ SettleLost(w, x)
  PROVE  Budget(e)' < Budget(e)
  <1>1. /\ e = x /\ hold[w][e] # "none" /\ attempts'[e] = attempts[e]
        /\ \A v \in Workers \ {w} : hold'[v][e] = hold[v][e]
    <2>1. /\ hold[w][x] # "none" /\ UNCHANGED attempts
          /\ \A v \in Workers, f \in Events : v # w \/ f # x => hold'[v][f] = hold[v][f]
      BY DEF Call, HandlerOk, HandlerErr, Settle, SettleLost, IInv, TypeOK
    <2>2. \A f \in Events : f # x =>
            status'[f] = status[f] /\ runs'[f] = runs[f] /\ wins'[f] = wins[f]
      BY DEF Call, HandlerOk, HandlerErr, Settle, SettleLost, IInv, TypeOK
    <2>3. e = x
      BY <2>1, <2>2 DEF Touched
    <2>4. QED
      BY <2>1, <2>3
  <1>2. \A v \in Workers \ {w} : hold[v][e] = "none" /\ hold'[v][e] = "none"
    BY <1>1 DEF IInv, ExclusiveClaim
  <1>3. \/ hold[w][e] = "queued" /\ hold'[w][e] = "handling"
        \/ hold[w][e] = "handling" /\ hold'[w][e] \in {"ok", "err"}
        \/ hold[w][e] \in {"ok", "err"} /\ hold'[w][e] = "none"
    BY <1>1 DEF Call, HandlerOk, HandlerErr, Settle, SettleLost, IInv, TypeOK
  <1>4. PlaceIn(hold, status, e) =
          IF hold[w][e] = "queued" THEN 4 ELSE IF hold[w][e] = "handling" THEN 3
          ELSE IF hold[w][e] # "none" THEN 2 ELSE IF status[e] = "processing" THEN 1 ELSE 0
    BY <1>2, PlaceOfHeld
  <1>5. PlaceIn(hold', status', e) =
          IF hold'[w][e] = "queued" THEN 4 ELSE IF hold'[w][e] = "handling" THEN 3
          ELSE IF hold'[w][e] # "none" THEN 2 ELSE IF status'[e] = "processing" THEN 1 ELSE 0
    BY <1>2, PlaceOfHeld
  <1>6. /\ PlaceIn(hold, status, e) \in 0..4 /\ PlaceIn(hold', status', e) \in 0..4
        /\ PlaceIn(hold', status', e) < PlaceIn(hold, status, e)
    BY <1>3, <1>4, <1>5
  <1>7. attempts[e] \in Nat /\ MaxAttempts \in Nat
    BY OutboxAssumption DEF IInv, TypeOK
  <1>8. QED
    BY <1>1, <1>6, <1>7 DEF Budget

(* The death of a worker takes the rest of the attempt from its rows.      *)
LEMMA CrashSpends ==
  ASSUME IInv, NEW w \in Workers, Crash(w), NEW e \in Events, Touched(e)
  PROVE  Budget(e)' < Budget(e)
  <1>1. /\ hold[w][e] # "none" /\ UNCHANGED <<status, attempts>>
        /\ hold'[w][e] = "none" /\ \A v \in Workers \ {w} : hold'[v][e] = hold[v][e]
    BY DEF Crash, Touched, IInv, TypeOK
  <1>2. status[e] = "processing" /\ \A v \in Workers \ {w} : hold[v][e] = "none"
    BY <1>1 DEF IInv, ExclusiveClaim
  <1>3. PlaceIn(hold, status, e) \in {2, 3, 4}
    <2>1. PlaceIn(hold, status, e) =
            IF hold[w][e] = "queued" THEN 4 ELSE IF hold[w][e] = "handling" THEN 3
            ELSE IF hold[w][e] # "none" THEN 2 ELSE IF status[e] = "processing" THEN 1 ELSE 0
      BY <1>2, PlaceOfHeld
    <2>2. QED
      BY <1>1, <2>1
  <1>4. PlaceIn(hold', status', e) = 1
    BY <1>1, <1>2, PlaceOfFree
  <1>5. attempts[e] \in Nat /\ MaxAttempts \in Nat
    BY OutboxAssumption DEF IInv, TypeOK
  <1>6. QED
    BY <1>1, <1>3, <1>4, <1>5 DEF Budget

(* No row keeps workers busy for ever: whatever fails, however often       *)
(* workers die, are stopped and started again, at most 5 * max_attempts    *)
(* steps are ever made for it after it was inserted.                       *)
THEOREM BoundedEffort == Spec => []BudgetInBounds /\ StepsAreSpent
  <1> DEFINE Spent == \A e \in Events : status[e] # "absent" =>
                        /\ Touched(e) => Budget(e)' < Budget(e)
                        /\ ~Touched(e) => Budget(e)' = Budget(e)
  <1>1. IInv => BudgetInBounds
    BY BudgetType
  <1>2. IInv /\ [Next]_vars => [Spent]_vars
    <2> SUFFICES ASSUME IInv, Next, NEW e \in Events, status[e] # "absent", Touched(e)
                 PROVE  Budget(e)' < Budget(e)
      BY UntouchedBudget
    <2>1. ASSUME NEW f \in Events, Insert(f) PROVE FALSE
      BY <2>1 DEF Insert, Touched, IInv, TypeOK
    <2>2. ASSUME NEW w \in Workers, Cancel(w) \/ Restart(w) PROVE FALSE
      BY <2>2 DEF Cancel, Restart, Touched
    <2>3. QED
      BY <2>1, <2>2, ClaimSpends, LoopSpends, CrashSpends DEF Next, Progress
  <1>3. QED
    BY <1>1, <1>2, Invariance, PTL DEF Spec, StepsAreSpent

(* Every row that is being processed is in some worker's hands.            *)
NoOrphans == \A e \in Events : status[e] = "processing" => Held(e)

(* It takes a death, a signal, a lost result or a failed write to lose an  *)
(* event: without any of these no row stays behind in 'processing'.        *)
THEOREM OnlyFaultsLose ==
  ASSUME Faults = {}
  PROVE  Spec => []NoOrphans
  <1> DEFINE Sound == NoOrphans /\ \A w \in Workers : ctx[w] = "live"
  <1>1. Init => Sound
    BY DEF Init, NoOrphans
  <1>2. IInv /\ Sound /\ [Next]_vars => Sound'
    <2> SUFFICES ASSUME IInv, Sound, [Next]_vars PROVE Sound'
      OBVIOUS
    <2> USE DEF NoOrphans, Held
    <2>1. ASSUME NEW e \in Events, Insert(e) PROVE Sound'
      BY <2>1 DEF Insert, IInv, TypeOK
    <2>2. ASSUME NEW w \in Workers, Claim(w) PROVE Sound'
      <3>1. PICK S \in SUBSET Eligible :
              /\ status' = [f \in Events |-> IF f \in S THEN "processing" ELSE status[f]]
              /\ hold' = [hold EXCEPT ![w] = [f \in Events |-> IF f \in S THEN "queued" ELSE "none"]]
        <4>1. PICK S \in SUBSET Eligible : \E got \in SUBSET S :
                /\ got # S => "read" \in Faults
                /\ status' = [f \in Events |-> IF f \in S THEN "processing" ELSE status[f]]
                /\ hold' = [hold EXCEPT ![w] = [f \in Events |-> IF f \in got THEN "queued" ELSE "none"]]
          BY <2>2 DEF Claim
        <4>2. PICK got \in SUBSET S :
                /\ got # S => "read" \in Faults
                /\ status' = [f \in Events |-> IF f \in S THEN "processing" ELSE status[f]]
                /\ hold' = [hold EXCEPT ![w] = [f \in Events |-> IF f \in got THEN "queued" ELSE "none"]]
          BY <4>1, Zenon
        <4>3. got = S
          BY <4>2
        <4>4. QED
          BY <4>2, <4>3, Zenon
      <3>2. /\ \A f \in Events : hold'[w][f] = IF f \in S THEN "queued" ELSE "none"
            /\ \A v \in Workers \ {w}, f \in Events : hold'[v][f] = hold[v][f]
            /\ \A f \in Events : status'[f] = IF f \in S THEN "processing" ELSE status[f]
        BY <3>1 DEF IInv, TypeOK
      <3>3. Idle(w) /\ UNCHANGED ctx
        BY <2>2 DEF Claim
      <3>4. ASSUME NEW f \in Events, status'[f] = "processing"
            PROVE  \E v \in Workers : hold'[v][f] # "none"
        <4>1. CASE f \in S
          BY <3>2, <4>1
        <4>2. CASE f \notin S
          <5>1. PICK v \in Workers : hold[v][f] # "none"
            BY <3>2, <3>4, <4>2
          <5>2. v # w
            BY <3>3, <5>1 DEF Idle
          <5>3. QED
            BY <3>2, <5>1, <5>2
        <4>3. QED
          BY <4>1, <4>2
      <3>5. QED
        BY <3>3, <3>4
    <2>3. ASSUME NEW w \in Workers, NEW x \in Events,
                 Call(w, x) \/ HandlerOk(w, x) \/ HandlerErr(w, x) \/ Settle(w, x)
          PROVE  Sound'
      <3>1. hold \in [Workers -> [Events -> Hold]] /\ status \in [Events -> Status]
        BY DEF IInv, TypeOK
      <3>2. /\ \E h \in Hold : hold' = [hold EXCEPT ![w][x] = h]
            /\ status' = [status EXCEPT ![x] = status'[x]]
            /\ UNCHANGED ctx
        <4>1. CASE Call(w, x) \/ HandlerOk(w, x) \/ HandlerErr(w, x)
          BY <3>1, <4>1 DEF Call, HandlerOk, HandlerErr, Hold
        <4>2. CASE Settle(w, x)
          BY <3>1, <4>2 DEF Settle, Hold
        <4>3. QED
          BY <2>3, <4>1, <4>2
      <3>3. /\ \A v \in Workers, f \in Events : f # x => hold'[v][f] = hold[v][f]
            /\ \A f \in Events : f # x => status'[f] = status[f]
        BY <3>1, <3>2
      <3>4. status'[x] = "processing" => hold'[w][x] # "none"
        <4>1. CASE Call(w, x) \/ HandlerOk(w, x) \/ HandlerErr(w, x)
          BY <3>1, <4>1 DEF Call, HandlerOk, HandlerErr
        <4>2. CASE Settle(w, x)
          BY <3>1, <4>2 DEF Settle, Outcome
        <4>3. QED
          BY <2>3, <4>1, <4>2
      <3>5. QED
        BY <3>2, <3>3, <3>4
    <2>4. ASSUME NEW w \in Workers, Restart(w) PROVE FALSE
      BY <2>4 DEF Restart
    <2>5. ASSUME NEW w \in Workers, Cancel(w) \/ Crash(w) PROVE FALSE
      BY <2>5 DEF Cancel, Crash
    <2>6. ASSUME NEW w \in Workers, NEW x \in Events, SettleLost(w, x) PROVE FALSE
      BY <2>6 DEF SettleLost
    <2>7. CASE UNCHANGED vars
      BY <2>7 DEF vars
    <2>8. QED
      BY <2>1, <2>2, <2>3, <2>4, <2>5, <2>6, <2>7 DEF Next, Progress
  <1>3. QED
    BY <1>1, <1>2, Invariance, PTL DEF Spec

-----------------------------------------------------------------------------
(* Implementation of EventDelivery.                                        *)
stage == [e \in Events |-> StageOf(e)]

(* Inserting a row submits its event.                                      *)
LEMMA InsertDelivers ==
  ASSUME IInv, NEW e \in Events, Insert(e)
  PROVE  Delivery!Submit(e)
  <1>1. /\ status[e] = "absent"
        /\ \A f \in Events : status'[f] = IF f = e THEN "pending" ELSE status[f]
        /\ UNCHANGED <<attempts, hold>>
    BY DEF Insert, IInv, TypeOK
  <1>2. stage[e] = "absent"
    BY <1>1 DEF stage, StageOf
  <1>3. \A f \in Events : StageOf(f)' = IF f = e THEN "waiting" ELSE StageOf(f)
    BY <1>1 DEF StageOf, Succeeded, Held
  <1>4. QED
    BY <1>1, <1>2, <1>3 DEF Delivery!Submit, Delivery!Move, stage

(* A claim takes the events of its rows, and loses those the loop does not *)
(* get to read.                                                            *)
LEMMA ClaimDelivers ==
  ASSUME IInv, NEW w \in Workers, Claim(w)
  PROVE  \E S \in SUBSET Events : \E Lost \in SUBSET S : Delivery!Take(S, Lost)
  <1>1. PICK S \in SUBSET Eligible, got \in SUBSET Eligible :
          /\ got \subseteq S
          /\ status' = [e \in Events |-> IF e \in S THEN "processing" ELSE status[e]]
          /\ attempts' = [e \in Events |-> IF e \in S THEN attempts[e] + 1 ELSE attempts[e]]
          /\ hold' = [hold EXCEPT ![w] = [e \in Events |-> IF e \in got THEN "queued" ELSE "none"]]
    BY DEF Claim
  <1>2. \A e \in S : /\ e \in Events /\ status[e] = "pending" /\ attempts[e] < MaxAttempts
                     /\ \A v \in Workers : hold[v][e] = "none"
    BY DEF Eligible, IInv, TypeOK, ExclusiveClaim
  <1>3. \A e \in Events : hold[w][e] = "none"
    BY DEF Claim, Idle
  <1>4. \A v \in Workers, e \in Events :
          hold'[v][e] = IF v = w THEN (IF e \in got THEN "queued" ELSE "none") ELSE hold[v][e]
    BY <1>1 DEF IInv, TypeOK
  <1>5. ASSUME NEW e \in Events
        PROVE  StageOf(e)' = IF e \notin S THEN StageOf(e)
                             ELSE IF e \in S \ got THEN "lost" ELSE "trying"
    <2>1. Succeeded(e)' <=> Succeeded(e)
      BY <1>3, <1>4 DEF Succeeded
    <2>2. CASE e \notin S
      <3>1. Held(e)' <=> Held(e)
        BY <1>1, <1>3, <1>4, <2>2 DEF Held
      <3>2. status'[e] = status[e]
        BY <1>1, <2>2
      <3>3. QED
        BY <2>1, <2>2, <3>1, <3>2 DEF StageOf
    <2>3. CASE e \in S
      <3>1. Held(e)' <=> e \in got
        BY <1>2, <1>4, <2>3 DEF Held
      <3>2. ~Succeeded(e)
        BY <1>2, <2>3 DEF Succeeded
      <3>3. status'[e] = "processing"
        BY <1>1, <2>3
      <3>4. QED
        BY <2>1, <2>3, <3>1, <3>2, <3>3 DEF StageOf
    <2>4. QED
      BY <2>2, <2>3
  <1>6. \A e \in S : StageOf(e) = "waiting"
    BY <1>2 DEF StageOf
  <1>7. Delivery!Take(S, S \ got)
    BY <1>1, <1>2, <1>5, <1>6 DEF Delivery!Take
  <1>8. S \in SUBSET Events /\ S \ got \in SUBSET S
    BY <1>2
  <1>9. QED
    BY <1>7, <1>8

(* A step of the loop that leaves status alone and moves one row between   *)
(* two places of the loop other than "ok" maps to a stutter.               *)
LEMMA CallDelivers ==
  ASSUME IInv, NEW w \in Workers, NEW e \in Events, Call(w, e) \/ HandlerErr(w, e)
  PROVE  UNCHANGED <<stage, attempts>>
  <1>1. UNCHANGED <<status, attempts>>
    BY DEF Call, HandlerErr
  <1>2. /\ hold[w][e] \in {"queued", "handling"}
        /\ hold'[w][e] \in {"handling", "err"}
        /\ \A v \in Workers, f \in Events : <<v, f>> # <<w, e>> => hold'[v][f] = hold[v][f]
    BY DEF Call, HandlerErr, IInv, TypeOK
  <1>3. \A f \in Events : (Succeeded(f)' <=> Succeeded(f)) /\ (Held(f)' <=> Held(f))
    BY <1>2 DEF Succeeded, Held
  <1>4. \A f \in Events : StageOf(f)' = StageOf(f)
    BY <1>1, <1>3 DEF StageOf
  <1>5. QED
    BY <1>1, <1>4 DEF stage

(* A handler that succeeds delivers the event.                             *)
LEMMA HandlerOkDelivers ==
  ASSUME IInv, NEW w \in Workers, NEW e \in Events, HandlerOk(w, e)
  PROVE  Delivery!Deliver(e)
  <1>1. UNCHANGED <<status, attempts>>
    BY DEF HandlerOk
  <1>2. /\ hold[w][e] = "handling" /\ hold'[w][e] = "ok"
        /\ \A v \in Workers, f \in Events : <<v, f>> # <<w, e>> => hold'[v][f] = hold[v][f]
    BY DEF HandlerOk, IInv, TypeOK
  <1>3. status[e] = "processing" /\ ~Succeeded(e) /\ Held(e)
    BY <1>2 DEF IInv, ExclusiveClaim, Succeeded, Held
  <1>4. \A f \in Events \ {e} : (Succeeded(f)' <=> Succeeded(f)) /\ (Held(f)' <=> Held(f))
    BY <1>2 DEF Succeeded, Held
  <1>5. Succeeded(e)'
    BY <1>2 DEF Succeeded
  <1>6. \A f \in Events : StageOf(f)' = IF f = e THEN "delivered" ELSE StageOf(f)
    BY <1>1, <1>3, <1>4, <1>5 DEF StageOf
  <1>7. StageOf(e) = "trying"
    BY <1>3 DEF StageOf
  <1>8. QED
    BY <1>1, <1>6, <1>7 DEF Delivery!Deliver, Delivery!Move

(* The write of an outcome acknowledges the event, gives it back or gives  *)
(* it up.                                                                  *)
LEMMA SettleDelivers ==
  ASSUME IInv, NEW w \in Workers, NEW e \in Events, Settle(w, e)
  PROVE  Delivery!Acknowledge(e) \/ Delivery!GiveBack(e) \/ Delivery!GiveUp(e)
  <1> USE OutboxAssumption
  <1>1. /\ hold[w][e] \in {"ok", "err"} /\ status[e] = "processing" /\ Held(e)
        /\ seen[w][e] = attempts[e] /\ attempts[e] \in 0..MaxAttempts
        /\ \A v \in Workers \ {w} : hold[v][e] = "none"
    BY DEF Settle, IInv, TypeOK, ExclusiveClaim, Held
  <1>2. /\ UNCHANGED attempts
        /\ \A f \in Events : status'[f] = IF f = e THEN Outcome(w, e) ELSE status[f]
        /\ \A v \in Workers, f \in Events : <<v, f>> # <<w, e>> => hold'[v][f] = hold[v][f]
    BY DEF Settle, IInv, TypeOK
  <1>3. \A f \in Events \ {e} : (Succeeded(f)' <=> Succeeded(f)) /\ (Held(f)' <=> Held(f))
    BY <1>2 DEF Succeeded, Held
  <1>4. ASSUME NEW st, Outcome(w, e) = st, st \in {"done", "failed", "pending"}
        PROVE  \A f \in Events : StageOf(f)' =
                 IF f = e THEN (IF st = "pending" THEN "waiting" ELSE st) ELSE StageOf(f)
    BY <1>2, <1>3, <1>4 DEF StageOf
  <1>5. CASE hold[w][e] = "ok"
    <2>1. Outcome(w, e) = "done" /\ StageOf(e) = "delivered"
      BY <1>1, <1>5 DEF Outcome, StageOf, Succeeded
    <2>2. QED
      BY <1>2, <1>4, <2>1 DEF Delivery!Acknowledge, Delivery!Move
  <1>6. CASE hold[w][e] = "err"
    <2>1. StageOf(e) = "trying"
      BY <1>1, <1>6 DEF StageOf, Succeeded
    <2>2. CASE attempts[e] = MaxAttempts
      <3>1. Outcome(w, e) = "failed"
        BY <1>1, <1>6, <2>2 DEF Outcome
      <3>2. QED
        BY <1>2, <1>4, <2>1, <2>2, <3>1 DEF Delivery!GiveUp, Delivery!Move
    <2>3. CASE attempts[e] < MaxAttempts
      <3>1. Outcome(w, e) = "pending"
        BY <1>1, <1>6, <2>3 DEF Outcome
      <3>2. QED
        BY <1>2, <1>4, <2>1, <2>3, <3>1 DEF Delivery!GiveBack, Delivery!Move
    <2>4. QED
      BY <1>1, <2>2, <2>3
  <1>7. QED
    BY <1>1, <1>5, <1>6

(* Rows dropped by one worker while 'processing' are lost.                 *)
LEMMA DropDelivers ==
  ASSUME IInv, NEW w \in Workers, NEW S \in SUBSET Events,
         \A e \in S : hold[w][e] # "none",
         \A v \in Workers, f \in Events :
           hold'[v][f] = IF v = w /\ f \in S THEN "none" ELSE hold[v][f],
         UNCHANGED <<status, attempts>>
  PROVE  Delivery!Lose(S)
  <1>1. \A e \in S : status[e] = "processing" /\ Held(e) /\ ~Held(e)' /\ ~Succeeded(e)'
    BY DEF IInv, ExclusiveClaim, Held, Succeeded
  <1>2. \A f \in Events \ S : (Succeeded(f)' <=> Succeeded(f)) /\ (Held(f)' <=> Held(f))
    BY DEF Held, Succeeded
  <1>3. \A f \in Events : StageOf(f)' = IF f \in S THEN "lost" ELSE StageOf(f)
    BY <1>1, <1>2 DEF StageOf
  <1>4. \A e \in S : StageOf(e) \in {"trying", "delivered"}
    BY <1>1 DEF StageOf
  <1>5. QED
    BY <1>3, <1>4 DEF Delivery!Lose, Delivery!Move

(* Every step of the table and its workers is a step of EventDelivery or a *)
(* stutter.                                                                *)
LEMMA NextDelivers == IInv /\ [Next]_vars => [Delivery!Next]_<<stage, attempts>>
  <1> SUFFICES ASSUME IInv, [Next]_vars PROVE [Delivery!Next]_<<stage, attempts>>
    OBVIOUS
  <1>1. CASE UNCHANGED vars
    BY <1>1 DEF vars, stage, StageOf, Succeeded, Held
  <1>2. ASSUME NEW e \in Events, Insert(e) PROVE Delivery!Next
    BY <1>2, InsertDelivers DEF Delivery!Next
  <1>3. ASSUME NEW w \in Workers, Claim(w) PROVE Delivery!Next
    BY <1>3, ClaimDelivers DEF Delivery!Next
  <1>4. ASSUME NEW w \in Workers, NEW e \in Events, Call(w, e) \/ HandlerErr(w, e)
        PROVE  UNCHANGED <<stage, attempts>>
    BY <1>4, CallDelivers
  <1>5. ASSUME NEW w \in Workers, NEW e \in Events, HandlerOk(w, e) PROVE Delivery!Next
    BY <1>5, HandlerOkDelivers DEF Delivery!Next
  <1>6. ASSUME NEW w \in Workers, NEW e \in Events, Settle(w, e) PROVE Delivery!Next
    BY <1>6, SettleDelivers DEF Delivery!Next
  <1>7. ASSUME NEW w \in Workers, NEW e \in Events, SettleLost(w, e) PROVE Delivery!Next
    <2>1. /\ \A f \in {e} : hold[w][f] # "none"
          /\ \A v \in Workers, f \in Events :
               hold'[v][f] = IF v = w /\ f \in {e} THEN "none" ELSE hold[v][f]
          /\ UNCHANGED <<status, attempts>>
      BY <1>7 DEF SettleLost, IInv, TypeOK
    <2>2. Delivery!Lose({e})
      BY <2>1, DropDelivers
    <2>3. QED
      BY <2>2 DEF Delivery!Next
  <1>8. ASSUME NEW w \in Workers, Crash(w) PROVE Delivery!Next
    <2> DEFINE S == {e \in Events : hold[w][e] # "none"}
    <2>1. /\ S \in SUBSET Events /\ \A f \in S : hold[w][f] # "none"
          /\ \A v \in Workers, f \in Events :
               hold'[v][f] = IF v = w /\ f \in S THEN "none" ELSE hold[v][f]
          /\ UNCHANGED <<status, attempts>>
      BY <1>8 DEF Crash, IInv, TypeOK
    <2>2. Delivery!Lose(S)
      <3> HIDE DEF S
      <3>1. QED
        BY <2>1, DropDelivers
    <2>3. QED
      BY <2>1, <2>2 DEF Delivery!Next
  <1>9. ASSUME NEW w \in Workers, Cancel(w) \/ Restart(w)
        PROVE  UNCHANGED <<stage, attempts>>
    BY <1>9 DEF Cancel, Restart, stage, StageOf, Succeeded, Held
  <1>10. QED
    BY <1>1, <1>2, <1>3, <1>4, <1>5, <1>6, <1>7, <1>8, <1>9 DEF Next, Progress

(* The table and its workers implement the promise of EventDelivery.       *)
THEOREM Implementation == Spec => DeliverySpec
  <1>1. Init => Delivery!Init
    BY DEF Init, Delivery!Init, StageOf
  <1>2. IInv /\ [Next]_vars => [Delivery!Next]_<<[e \in Events |-> StageOf(e)], attempts>>
    BY NextDelivers DEF stage
  <1>3. QED
    BY <1>1, <1>2, Invariance, PTL DEF Spec, DeliverySpec, Delivery!Spec
=============================================================================
