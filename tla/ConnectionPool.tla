--------------------------- MODULE ConnectionPool ---------------------------
(***************************************************************************)
(* The connections of one api process (internal/shared/infrastructure/     *)
(* postgres/db.go) and everything that takes them: the HTTP handlers and   *)
(* the rounds of the outbox worker.                                        *)
(*                                                                         *)
(* A job is a sequence of steps.  RunTx keeps a connection from its begin  *)
(* to its commit; a statement on the pool takes one and gives it back; and *)
(* some handlers make such statements while they are inside RunTx.  An     *)
(* UPDATE also waits for the row, with its connection in hand.             *)
(***************************************************************************)
EXTENDS Integers, Sequences, FiniteSets

CONSTANTS
  Jobs,            \* the requests and worker rounds of one run of the process
  Batches,         \* rows of inventory_batches that jobs update
  Orders,          \* rows of orders that jobs update
  MaxConns,
  ReservesInPool,  \* whether the service that reserves queries this pool
  None

Rows == Batches \union Orders

ASSUME PoolAssumption ==
  /\ MaxConns \in Nat \ {0}
  /\ IsFiniteSet(Jobs)
  /\ ReservesInPool \in BOOLEAN
  /\ None \notin Jobs

(* What each kind of job asks of the database, in order.  "query" is one   *)
(* statement on the pool, or several one after the other, and so are       *)
(* "publish", the worker's "claim" and "outcome" and its pass's "find" and *)
(* "save"; "update" is an UPDATE in the transaction.                       *)
Script == [
  receive  |-> <<"begin", "commit">>,
  consume  |-> <<"query", "begin", "update", "commit">>,
  writeoff |-> <<"begin", "query", "update", "publish", "commit">>,
  confirm  |-> IF ReservesInPool THEN <<"query", "begin", "query", "update", "commit">>
               ELSE <<"query", "begin", "update", "commit">>,
  place    |-> IF ReservesInPool THEN <<"begin", "commit", "query", "begin", "query", "commit">>
               ELSE <<"begin", "commit", "query", "begin", "commit">>,
  catalog  |-> <<"query">>,
  round    |-> <<"claim", "find", "save", "outcome">>]

Kinds == DOMAIN Script

(* The row a job may wait for; the order that place updates is known to    *)
(* nobody else.                                                            *)
Targets(k) ==
  CASE k = "confirm" -> Orders
    [] k \in {"consume", "writeoff", "round"} -> Batches
    [] OTHER -> {None}

WorkerSteps == {"claim", "find", "save", "outcome"}
OnPool == {"begin", "query", "publish"} \union WorkerSteps

VARIABLES
  fresh,   \* the jobs that have not started
  todo,    \* todo[j]: the steps job j still has to make
  row,     \* row[j]: the row j updates
  tx,      \* the jobs whose RunTx holds a connection
  stmt,    \* the jobs whose statement on the pool holds one
  holder,  \* holder[x]: the job whose transaction has locked row x
  main     \* how far main has come with its shutdown

vars == <<fresh, todo, row, tx, stmt, holder, main>>

Init ==
  /\ fresh = Jobs
  /\ todo = [j \in Jobs |-> << >>] /\ row = [j \in Jobs |-> None]
  /\ tx = {} /\ stmt = {}
  /\ holder = [x \in Rows |-> None]
  /\ main = "serving"

Running == {j \in Jobs : todo[j] # << >>}

Step(j) == Head(todo[j])

(* pool.Begin, pool.Query and pool.Exec start with Acquire, which has no   *)
(* time limit of its own.                                                  *)
Asks == {j \in Running \ stmt : Step(j) \in OnPool}

InUse == Cardinality(tx) + Cardinality(stmt)

(* j has given a statement away and hears nothing before a lock is free.   *)
WaitsForRow(j) ==
  /\ Step(j) = "update" \/ (Step(j) = "save" /\ j \in stmt)
  /\ holder[row[j]] \notin {None, j}

Waits(j) == j \in Asks \/ WaitsForRow(j)

GoTo(j, rest) ==
  /\ todo' = [todo EXCEPT ![j] = rest]
  /\ row' = IF rest = << >> THEN [row EXCEPT ![j] = None] ELSE row

Unlock(j) == holder' = [x \in Rows |-> IF holder[x] = j THEN None ELSE holder[x]]

-----------------------------------------------------------------------------
Start(j) ==
  /\ main = "serving" /\ j \in fresh
  /\ fresh' = fresh \ {j}
  /\ \E k \in Kinds : \E x \in Targets(k) :
       /\ todo' = [todo EXCEPT ![j] = Script[k]]
       /\ row' = [row EXCEPT ![j] = x]
  /\ UNCHANGED <<tx, stmt, holder, main>>

(* Mutant: the number of connections is not bounded.                       *)
GrantUnbounded(j) ==
  /\ j \in Asks /\ main # "closing"
  /\ IF Step(j) = "begin"
     THEN tx' = tx \union {j} /\ stmt' = stmt /\ GoTo(j, Tail(todo[j]))
     ELSE stmt' = stmt \union {j} /\ UNCHANGED <<tx, todo, row>>
  /\ UNCHANGED <<fresh, holder, main>>

(* A connection is free, or a new one may be opened: Acquire returns.      *)
Grant(j) ==
  /\ j \in Asks /\ InUse < MaxConns /\ main # "closing"
  /\ IF Step(j) = "begin"
     THEN tx' = tx \union {j} /\ stmt' = stmt /\ GoTo(j, Tail(todo[j]))
     ELSE stmt' = stmt \union {j} /\ UNCHANGED <<tx, todo, row>>
  /\ UNCHANGED <<fresh, holder, main>>

(* The statement on the pool ends; Save's has had to wait for the row.     *)
Answer(j) ==
  /\ j \in stmt /\ ~WaitsForRow(j)
  /\ stmt' = stmt \ {j}
  /\ GoTo(j, Tail(todo[j]))
  /\ UNCHANGED <<fresh, tx, holder, main>>

Update(j) ==
  /\ j \in Running /\ Step(j) = "update" /\ ~WaitsForRow(j)
  /\ holder' = [holder EXCEPT ![row[j]] = j]
  /\ GoTo(j, Tail(todo[j]))
  /\ UNCHANGED <<fresh, tx, stmt, main>>

Commit(j) ==
  /\ j \in Running /\ Step(j) = "commit"
  /\ tx' = tx \ {j}
  /\ Unlock(j)
  /\ GoTo(j, Tail(todo[j]))
  /\ UNCHANGED <<fresh, stmt, main>>

-----------------------------------------------------------------------------
(* Mutant: RunTx without its deferred Rollback.                            *)
StopLeaks(j, rest) ==
  /\ GoTo(j, rest)
  /\ stmt' = stmt \ {j} /\ tx' = tx
  /\ Unlock(j)
  /\ UNCHANGED <<fresh, main>>

(* A step returns an error: RunTx rolls back, the statement is closed.     *)
Stop(j, rest) ==
  /\ GoTo(j, rest)
  /\ stmt' = stmt \ {j} /\ tx' = tx \ {j}
  /\ Unlock(j)
  /\ UNCHANGED <<fresh, main>>

(* A failed pass still leads to the UPDATE of its event's outcome.         *)
AfterError(j) == IF Step(j) \in {"find", "save"} THEN <<"outcome">> ELSE << >>

(* A domain refusal, a conflict or a failed statement.  Publish returns    *)
(* nothing: its errors end like its success.                               *)
Fail(j) ==
  /\ j \in Running /\ ~Waits(j) /\ Step(j) # "publish"
  /\ Stop(j, AfterError(j))

Cancellable(j) == Step(j) # "publish" /\ (Step(j) \in WorkerSteps => main # "serving")

(* Mutant: the UPDATE inside a transaction cannot be cancelled.            *)
GiveUpOnPoolOnly(j) ==
  /\ j \in Asks /\ Cancellable(j)
  /\ Stop(j, << >>)

(* The client hangs up, or the signal has cancelled the worker's context,  *)
(* and the wait returns; but Publish waits under context.Background().     *)
GiveUp(j) ==
  /\ j \in Running /\ Waits(j) /\ Cancellable(j)
  /\ Stop(j, << >>)

(* Acquire reaches its turn on a closed pool.                              *)
Refused(j) ==
  /\ j \in Asks /\ InUse < MaxConns /\ main = "closing"
  /\ \/ /\ Step(j) = "publish"
        /\ GoTo(j, Tail(todo[j]))
        /\ UNCHANGED <<fresh, tx, stmt, holder, main>>
     \/ /\ Step(j) # "publish"
        /\ Stop(j, AfterError(j))

(* SIGINT or SIGTERM: Shutdown closes the listener and lets requests run   *)
(* for 15 seconds at most; then the deferred Close refuses new work and    *)
(* waits for every connection; then the process ends with all that is in   *)
(* it.                                                                     *)
Signal == main = "serving" /\ main' = "stopping" /\ UNCHANGED <<fresh, todo, row, tx, stmt, holder>>
Close == main = "stopping" /\ main' = "closing" /\ UNCHANGED <<fresh, todo, row, tx, stmt, holder>>
Exit ==
  /\ main = "closing" /\ InUse = 0
  /\ main' = "exited"
  /\ todo' = [j \in Jobs |-> << >>] /\ row' = [j \in Jobs |-> None]
  /\ UNCHANGED <<fresh, tx, stmt, holder>>

Work(j) == Grant(j) \/ Answer(j) \/ Update(j) \/ Commit(j) \/ Refused(j)

Next ==
  \/ \E j \in Jobs : Start(j) \/ Work(j) \/ Fail(j) \/ GiveUp(j)
  \/ Signal \/ Close \/ Exit

Spec == Init /\ [][Next]_vars

(* The pool, the database and the goroutines that need not wait go on, and *)
(* so does main with its shutdown.  That a client hangs up, a signal       *)
(* arrives or a step fails is not assumed.                                 *)
FairSpec ==
  Spec /\ (\A j \in Jobs : WF_vars(Work(j))) /\ WF_vars(Close) /\ WF_vars(Exit)

-----------------------------------------------------------------------------
TypeOK ==
  /\ fresh \subseteq Jobs
  /\ todo \in [Jobs -> Seq(OnPool \union {"update", "commit"})]
  /\ row \in [Jobs -> Rows \union {None}]
  /\ tx \subseteq Jobs /\ stmt \subseteq Jobs
  /\ InUse <= MaxConns
  /\ holder \in [Rows -> Jobs \union {None}]
  /\ main \in {"serving", "stopping", "closing", "exited"}

Blocked(j) == (j \in Asks /\ InUse = MaxConns) \/ WaitsForRow(j)

(* All jobs wait for each other: nothing but a client or a signal that     *)
(* ends somebody's wait lets anything move.                                *)
Jam == Running # {} /\ \A j \in Running : Blocked(j)

(* Neither row locks nor a mere shortage of connections makes a jam: there *)
(* is always a handler that waits for a second connection inside RunTx,    *)
(* and every connection is in the hands of a job that waits.  (One such    *)
(* handler is enough when the others wait for the row it has locked.)      *)
JamIsNested ==
  Jam => /\ Asks \intersect tx # {}
         /\ InUse = MaxConns
         /\ \A j \in tx \union stmt : j \in Running /\ Blocked(j)

(* With fewer jobs in flight than connections there is no jam.             *)
RoomForAll == Cardinality(Running) < MaxConns => ~Jam

(* Clients that wait can end every jam, but for one kind: before the       *)
(* signal a pass may hold a connection while it waits for the row of a     *)
(* write-off that waits in Publish.                                        *)
JamCanEnd ==
  Jam => \/ \E j \in Running : Cancellable(j)
         \/ /\ main = "serving"
            /\ \E j \in stmt : WaitsForRow(j) /\ Step(holder[row[j]]) = "publish"

(* If stock were reserved elsewhere than in this pool, every jam would     *)
(* have a write-off that waits for a second connection.                    *)
JamHasWriteoff ==
  ~ReservesInPool /\ Jam =>
    \E j \in Asks \intersect tx :
      todo[j] \in {<<"query", "update", "publish", "commit">>, <<"publish", "commit">>}

(* As long as fewer jobs are in flight than there are connections, every   *)
(* job comes to its end: it gets its connections and its row.              *)
JobsEnd ==
  [](Cardinality(Running) < MaxConns) => \A j \in Jobs : j \in Running ~> j \notin Running

(* A shutdown that has come to pool.Close ends the process, unless jobs    *)
(* are jammed on the connections Close waits for.                          *)
CloseReturns == main = "closing" ~> (main = "exited" \/ Jam)

(* After the signal no jam stays when clients that wait hang up sooner or  *)
(* later, though nobody can cancel a write-off's wait in Publish: such a   *)
(* write-off has had a second connection before, for its query.            *)
NoJamStays ==
  <>(main # "serving") /\ (\A j \in Jobs : WF_vars(GiveUp(j))) => []<>~Jam
=============================================================================
