------------------------ MODULE ConnectionPoolProofs ------------------------
(***************************************************************************)
(* Proofs about ConnectionPool, for every number of jobs, connections and  *)
(* rows.  What a job still has to do says whether it is inside RunTx, so   *)
(* the invariant ties the two together; the rest is counting.              *)
(***************************************************************************)
EXTENDS ConnectionPool, FiniteSetTheorems, TLAPS

(* What may be left of a script while RunTx is open, and while it is not.  *)
Inside ==
  {<<"commit">>, <<"update", "commit">>, <<"publish", "commit">>,
   <<"update", "publish", "commit">>,
   <<"query", "update", "publish", "commit">>,
   <<"query", "update", "commit">>, <<"query", "commit">>,
   <<"commit", "query", "begin", "commit">>,
   <<"commit", "query", "begin", "query", "commit">>}

Outside ==
  {<< >>, <<"query">>, <<"begin", "commit">>,
   <<"begin", "update", "commit">>,
   <<"query", "begin", "update", "commit">>,
   <<"begin", "query", "update", "publish", "commit">>,
   <<"begin", "query", "update", "commit">>,
   <<"query", "begin", "query", "update", "commit">>,
   <<"begin", "query", "commit">>,
   <<"query", "begin", "query", "commit">>,
   <<"query", "begin", "commit">>,
   <<"begin", "commit", "query", "begin", "commit">>,
   <<"begin", "commit", "query", "begin", "query", "commit">>,
   <<"outcome">>, <<"save", "outcome">>, <<"find", "save", "outcome">>,
   <<"claim", "find", "save", "outcome">>}

(* What is left once a job has no row to wait for any more.                *)
NoRow ==
  {<<"commit">>, <<"publish", "commit">>, <<"query", "commit">>,
   <<"commit", "query", "begin", "commit">>,
   <<"commit", "query", "begin", "query", "commit">>, << >>, <<"query">>,
   <<"begin", "commit">>, <<"begin", "query", "commit">>,
   <<"query", "begin", "query", "commit">>,
   <<"query", "begin", "commit">>,
   <<"begin", "commit", "query", "begin", "commit">>,
   <<"begin", "commit", "query", "begin", "query", "commit">>,
   <<"outcome">>}

Steps == OnPool \union {"update", "commit"}

(* The first step of each, and what is left after it.                      *)
LEMMA Parts ==
  /\ Head(<<"commit">>) = "commit" /\ Tail(<<"commit">>) = << >>
  /\ Head(<<"update", "commit">>) = "update" /\ Tail(<<"update", "commit">>) = <<"commit">>
  /\ Head(<<"publish", "commit">>) = "publish" /\ Tail(<<"publish", "commit">>) = <<"commit">>
  /\ Head(<<"update", "publish", "commit">>) = "update" /\ Tail(<<"update", "publish", "commit">>) = <<"publish", "commit">>
  /\ Head(<<"query", "update", "publish", "commit">>) = "query" /\ Tail(<<"query", "update", "publish", "commit">>) = <<"update", "publish", "commit">>
  /\ Head(<<"query", "update", "commit">>) = "query" /\ Tail(<<"query", "update", "commit">>) = <<"update", "commit">>
  /\ Head(<<"query", "commit">>) = "query" /\ Tail(<<"query", "commit">>) = <<"commit">>
  /\ Head(<<"commit", "query", "begin", "commit">>) = "commit" /\ Tail(<<"commit", "query", "begin", "commit">>) = <<"query", "begin", "commit">>
  /\ Head(<<"commit", "query", "begin", "query", "commit">>) = "commit" /\ Tail(<<"commit", "query", "begin", "query", "commit">>) = <<"query", "begin", "query", "commit">>
  /\ Head(<<"query">>) = "query" /\ Tail(<<"query">>) = << >>
  /\ Head(<<"begin", "commit">>) = "begin" /\ Tail(<<"begin", "commit">>) = <<"commit">>
  /\ Head(<<"begin", "update", "commit">>) = "begin" /\ Tail(<<"begin", "update", "commit">>) = <<"update", "commit">>
  /\ Head(<<"query", "begin", "update", "commit">>) = "query" /\ Tail(<<"query", "begin", "update", "commit">>) = <<"begin", "update", "commit">>
  /\ Head(<<"begin", "query", "update", "publish", "commit">>) = "begin" /\ Tail(<<"begin", "query", "update", "publish", "commit">>) = <<"query", "update", "publish", "commit">>
  /\ Head(<<"begin", "query", "update", "commit">>) = "begin" /\ Tail(<<"begin", "query", "update", "commit">>) = <<"query", "update", "commit">>
  /\ Head(<<"query", "begin", "query", "update", "commit">>) = "query" /\ Tail(<<"query", "begin", "query", "update", "commit">>) = <<"begin", "query", "update", "commit">>
  /\ Head(<<"begin", "query", "commit">>) = "begin" /\ Tail(<<"begin", "query", "commit">>) = <<"query", "commit">>
  /\ Head(<<"query", "begin", "query", "commit">>) = "query" /\ Tail(<<"query", "begin", "query", "commit">>) = <<"begin", "query", "commit">>
  /\ Head(<<"query", "begin", "commit">>) = "query" /\ Tail(<<"query", "begin", "commit">>) = <<"begin", "commit">>
  /\ Head(<<"begin", "commit", "query", "begin", "commit">>) = "begin" /\ Tail(<<"begin", "commit", "query", "begin", "commit">>) = <<"commit", "query", "begin", "commit">>
  /\ Head(<<"begin", "commit", "query", "begin", "query", "commit">>) = "begin" /\ Tail(<<"begin", "commit", "query", "begin", "query", "commit">>) = <<"commit", "query", "begin", "query", "commit">>
  /\ Head(<<"outcome">>) = "outcome" /\ Tail(<<"outcome">>) = << >>
  /\ Head(<<"save", "outcome">>) = "save" /\ Tail(<<"save", "outcome">>) = <<"outcome">>
  /\ Head(<<"find", "save", "outcome">>) = "find" /\ Tail(<<"find", "save", "outcome">>) = <<"save", "outcome">>
  /\ Head(<<"claim", "find", "save", "outcome">>) = "claim" /\ Tail(<<"claim", "find", "save", "outcome">>) = <<"find", "save", "outcome">>
BY SMTT(60)

LEMMA AreSeqs == Inside \union Outside \subseteq Seq(Steps)
BY SMTT(60) DEF Inside, Outside, Steps, OnPool, WorkerSteps

(* A step inside RunTx leads outside exactly by the commit.                *)
LEMMA InsideNext ==
  ASSUME NEW t \in Inside
  PROVE  /\ Head(t) \in {"query", "update", "publish", "commit"}
         /\ Head(t) # "commit" => Tail(t) \in Inside
         /\ Head(t) = "commit" => Tail(t) \in Outside
<1>1. CASE t = <<"commit">>
  BY <1>1, Parts, Zenon DEF Inside, Outside
<1>2. CASE t = <<"update", "commit">>
  BY <1>2, Parts, Zenon DEF Inside, Outside
<1>3. CASE t = <<"publish", "commit">>
  BY <1>3, Parts, Zenon DEF Inside, Outside
<1>4. CASE t = <<"update", "publish", "commit">>
  BY <1>4, Parts, Zenon DEF Inside, Outside
<1>5. CASE t = <<"query", "update", "publish", "commit">>
  BY <1>5, Parts, Zenon DEF Inside, Outside
<1>6. CASE t = <<"query", "update", "commit">>
  BY <1>6, Parts, Zenon DEF Inside, Outside
<1>7. CASE t = <<"query", "commit">>
  BY <1>7, Parts, Zenon DEF Inside, Outside
<1>8. CASE t = <<"commit", "query", "begin", "commit">>
  BY <1>8, Parts, Zenon DEF Inside, Outside
<1>9. CASE t = <<"commit", "query", "begin", "query", "commit">>
  BY <1>9, Parts, Zenon DEF Inside, Outside
<1> QED BY <1>1, <1>2, <1>3, <1>4, <1>5, <1>6, <1>7, <1>8, <1>9, Zenon DEF Inside

(* Outside RunTx only a begin leads into it.                               *)
LEMMA OutsideNext ==
  ASSUME NEW t \in Outside, t # << >>
  PROVE  /\ Head(t) \in {"begin", "query"} \union WorkerSteps
         /\ Head(t) # "begin" => Tail(t) \in Outside
         /\ Head(t) = "begin" => Tail(t) \in Inside
<1>1. CASE t = <<"query">>
  BY <1>1, Parts, Zenon DEF Inside, Outside, WorkerSteps
<1>2. CASE t = <<"begin", "commit">>
  BY <1>2, Parts, Zenon DEF Inside, Outside, WorkerSteps
<1>3. CASE t = <<"begin", "update", "commit">>
  BY <1>3, Parts, Zenon DEF Inside, Outside, WorkerSteps
<1>4. CASE t = <<"query", "begin", "update", "commit">>
  BY <1>4, Parts, Zenon DEF Inside, Outside, WorkerSteps
<1>5. CASE t = <<"begin", "query", "update", "publish", "commit">>
  BY <1>5, Parts, Zenon DEF Inside, Outside, WorkerSteps
<1>6. CASE t = <<"begin", "query", "update", "commit">>
  BY <1>6, Parts, Zenon DEF Inside, Outside, WorkerSteps
<1>7. CASE t = <<"query", "begin", "query", "update", "commit">>
  BY <1>7, Parts, Zenon DEF Inside, Outside, WorkerSteps
<1>8. CASE t = <<"begin", "query", "commit">>
  BY <1>8, Parts, Zenon DEF Inside, Outside, WorkerSteps
<1>9. CASE t = <<"query", "begin", "query", "commit">>
  BY <1>9, Parts, Zenon DEF Inside, Outside, WorkerSteps
<1>10. CASE t = <<"query", "begin", "commit">>
  BY <1>10, Parts, Zenon DEF Inside, Outside, WorkerSteps
<1>11. CASE t = <<"begin", "commit", "query", "begin", "commit">>
  BY <1>11, Parts, Zenon DEF Inside, Outside, WorkerSteps
<1>12. CASE t = <<"begin", "commit", "query", "begin", "query", "commit">>
  BY <1>12, Parts, Zenon DEF Inside, Outside, WorkerSteps
<1>13. CASE t = <<"outcome">>
  BY <1>13, Parts, Zenon DEF Inside, Outside, WorkerSteps
<1>14. CASE t = <<"save", "outcome">>
  BY <1>14, Parts, Zenon DEF Inside, Outside, WorkerSteps
<1>15. CASE t = <<"find", "save", "outcome">>
  BY <1>15, Parts, Zenon DEF Inside, Outside, WorkerSteps
<1>16. CASE t = <<"claim", "find", "save", "outcome">>
  BY <1>16, Parts, Zenon DEF Inside, Outside, WorkerSteps
<1> QED BY <1>1, <1>2, <1>3, <1>4, <1>5, <1>6, <1>7, <1>8, <1>9, <1>10, <1>11, <1>12, <1>13, <1>14, <1>15, <1>16, Zenon DEF Outside

LEMMA NoRowNext ==
  ASSUME NEW t \in NoRow, t # << >>
  PROVE  Head(t) \notin {"update", "save"} /\ Tail(t) \in NoRow
<1>1. CASE t = <<"commit">>
  BY <1>1, Parts, Zenon DEF NoRow
<1>2. CASE t = <<"publish", "commit">>
  BY <1>2, Parts, Zenon DEF NoRow
<1>3. CASE t = <<"query", "commit">>
  BY <1>3, Parts, Zenon DEF NoRow
<1>4. CASE t = <<"commit", "query", "begin", "commit">>
  BY <1>4, Parts, Zenon DEF NoRow
<1>5. CASE t = <<"commit", "query", "begin", "query", "commit">>
  BY <1>5, Parts, Zenon DEF NoRow
<1>6. CASE t = <<"query">>
  BY <1>6, Parts, Zenon DEF NoRow
<1>7. CASE t = <<"begin", "commit">>
  BY <1>7, Parts, Zenon DEF NoRow
<1>8. CASE t = <<"begin", "query", "commit">>
  BY <1>8, Parts, Zenon DEF NoRow
<1>9. CASE t = <<"query", "begin", "query", "commit">>
  BY <1>9, Parts, Zenon DEF NoRow
<1>10. CASE t = <<"query", "begin", "commit">>
  BY <1>10, Parts, Zenon DEF NoRow
<1>11. CASE t = <<"begin", "commit", "query", "begin", "commit">>
  BY <1>11, Parts, Zenon DEF NoRow
<1>12. CASE t = <<"begin", "commit", "query", "begin", "query", "commit">>
  BY <1>12, Parts, Zenon DEF NoRow
<1>13. CASE t = <<"outcome">>
  BY <1>13, Parts, Zenon DEF NoRow
<1> QED BY <1>1, <1>2, <1>3, <1>4, <1>5, <1>6, <1>7, <1>8, <1>9, <1>10, <1>11, <1>12, <1>13, Zenon DEF NoRow

LEMMA Scripts ==
  /\ Script.receive = <<"begin", "commit">>
  /\ Script.consume = <<"query", "begin", "update", "commit">>
  /\ Script.writeoff = <<"begin", "query", "update", "publish", "commit">>
  /\ Script.confirm \in {<<"query", "begin", "query", "update", "commit">>,
                          <<"query", "begin", "update", "commit">>}
  /\ Script.place \in {<<"begin", "commit", "query", "begin", "query", "commit">>,
                        <<"begin", "commit", "query", "begin", "commit">>}
  /\ Script.catalog = <<"query">>
  /\ Script.round = <<"claim", "find", "save", "outcome">>
BY DEF Script

LEMMA KindNames ==
  Kinds = {"receive", "consume", "writeoff", "confirm", "place", "catalog", "round"}
BY DEF Kinds, Script

LEMMA ScriptFacts ==
  ASSUME NEW k \in Kinds
  PROVE  /\ Script[k] \in Outside
         /\ Script[k] \in NoRow \/ Targets(k) \subseteq Rows
<1>1. CASE k \in {"receive", "place", "catalog"}
  BY <1>1, Scripts, Zenon DEF Outside, NoRow
<1>2. CASE k \in {"consume", "writeoff", "confirm", "round"}
  <2>1. Script[k] \in Outside
    BY <1>2, Scripts, Zenon DEF Outside
  <2>2. Targets(k) \subseteq Rows
    BY <1>2 DEF Targets, Rows
  <2> QED BY <2>1, <2>2
<1> QED BY <1>1, <1>2, KindNames

-----------------------------------------------------------------------------
(* The inductive invariant.                                                *)
ShapeInv ==
  /\ todo \in [Jobs -> Inside \union Outside]
  /\ row \in [Jobs -> Rows \union {None}]
  /\ holder \in [Rows -> Jobs \union {None}]
  /\ fresh \subseteq Jobs /\ tx \subseteq Jobs /\ stmt \subseteq Jobs
  /\ main \in {"serving", "stopping", "closing", "exited"}

(* RunTx holds a connection exactly between its begin and its end.         *)
TxInv == \A j \in Jobs : IF j \in tx THEN todo[j] \in Inside ELSE todo[j] \in Outside

StmtInv == \A j \in stmt : todo[j] # << >> /\ Step(j) \in OnPool \ {"begin"}

FreshInv == \A j \in fresh : todo[j] = << >>

RowInv == \A j \in Jobs : todo[j] \in NoRow \/ row[j] \in Rows

(* A lock belongs to a job inside RunTx, and it is that of its own row.    *)
LockInv == \A x \in Rows : holder[x] # None => holder[x] \in tx /\ row[holder[x]] = x

CountInv == InUse <= MaxConns

IInv == ShapeInv /\ TxInv /\ StmtInv /\ FreshInv /\ RowInv /\ LockInv /\ CountInv

LEMMA Counts ==
  ASSUME IInv
  PROVE  /\ IsFiniteSet(tx) /\ IsFiniteSet(stmt)
         /\ Cardinality(tx) \in Nat /\ Cardinality(stmt) \in Nat
BY PoolAssumption, FS_Subset, FS_CardinalityType DEF IInv, ShapeInv

LEMMA EmptyTodo == << >> \notin Inside /\ << >> \in Outside /\ << >> \in NoRow
<1>1. << >> \notin Inside
  BY SMT DEF Inside
<1> QED BY <1>1 DEF Outside, NoRow

(* Where a job stands and where its next step takes it.                    *)
LEMMA NextStep ==
  ASSUME IInv, NEW j \in Running
  PROVE  /\ j \in Jobs /\ j \notin fresh
         /\ Tail(todo[j]) \in NoRow \/ row[j] \in Rows
         /\ Step(j) \in {"update", "save"} => row[j] \in Rows
         /\ j \in tx =>
              /\ Step(j) \in {"query", "update", "publish", "commit"}
              /\ Step(j) # "commit" => Tail(todo[j]) \in Inside
              /\ Step(j) = "commit" => Tail(todo[j]) \in Outside
         /\ j \notin tx =>
              /\ Step(j) \in {"begin", "query"} \union WorkerSteps
              /\ Step(j) # "begin" => Tail(todo[j]) \in Outside
              /\ Step(j) = "begin" => Tail(todo[j]) \in Inside
<1>1. j \in Jobs /\ todo[j] # << >> /\ j \notin fresh
  BY DEF Running, IInv, FreshInv
<1>2. todo[j] \in NoRow => Step(j) \notin {"update", "save"} /\ Tail(todo[j]) \in NoRow
  BY <1>1, NoRowNext DEF Step
<1>3. todo[j] \in NoRow \/ row[j] \in Rows
  BY <1>1 DEF IInv, RowInv
<1>4. CASE j \in tx
  <2>1. todo[j] \in Inside
    BY <1>1, <1>4 DEF IInv, TxInv
  <2> QED
    BY <1>1, <1>2, <1>3, <1>4, <2>1, InsideNext, Zenon DEF Step
<1>5. CASE j \notin tx
  <2>1. todo[j] \in Outside
    BY <1>1, <1>5 DEF IInv, TxInv
  <2> QED
    BY <1>1, <1>2, <1>3, <1>5, <2>1, OutsideNext, Zenon DEF Step
<1> QED BY <1>4, <1>5

(* What GoTo leaves alone, and what it keeps of the invariant.             *)
LEMMA GoToFacts ==
  ASSUME IInv, NEW j \in Jobs, NEW rest \in Inside \union Outside, GoTo(j, rest),
         rest \in NoRow \/ row[j] \in Rows
  PROVE  /\ todo' \in [Jobs -> Inside \union Outside] /\ row' \in [Jobs -> Rows \union {None}]
         /\ todo'[j] = rest /\ (rest # << >> => row' = row)
         /\ \A i \in Jobs \ {j} : todo'[i] = todo[i] /\ row'[i] = row[i]
         /\ RowInv'
<1>1. todo' \in [Jobs -> Inside \union Outside] /\ row' \in [Jobs -> Rows \union {None}]
  BY DEF GoTo, IInv, ShapeInv
<1>2. todo'[j] = rest /\ (rest # << >> => row' = row)
  BY DEF GoTo, IInv, ShapeInv
<1>3. \A i \in Jobs \ {j} : todo'[i] = todo[i] /\ row'[i] = row[i]
  BY DEF GoTo, IInv, ShapeInv
<1>4. RowInv'
  <2>1. rest \in NoRow \/ row'[j] \in Rows
    BY <1>2, EmptyTodo
  <2> QED
    BY <1>2, <1>3, <2>1 DEF RowInv, IInv
<1> QED BY <1>1, <1>2, <1>3, <1>4

LEMMA InitIInv == Init => IInv
<1> SUFFICES ASSUME Init PROVE IInv
  OBVIOUS
<1>1. ShapeInv /\ TxInv /\ StmtInv /\ FreshInv /\ RowInv /\ LockInv
  BY EmptyTodo DEF Init, ShapeInv, TxInv, StmtInv, FreshInv, RowInv, LockInv
<1>2. CountInv
  BY FS_EmptySet, PoolAssumption DEF Init, CountInv, InUse
<1> QED BY <1>1, <1>2 DEF IInv

LEMMA StartIInv ==
  ASSUME IInv, NEW j \in Jobs, Start(j)
  PROVE  IInv'
<1>1. PICK k \in Kinds : \E x \in Targets(k) :
        todo' = [todo EXCEPT ![j] = Script[k]] /\ row' = [row EXCEPT ![j] = x]
  BY DEF Start
<1>2. PICK x \in Targets(k) :
        todo' = [todo EXCEPT ![j] = Script[k]] /\ row' = [row EXCEPT ![j] = x]
  BY <1>1
<1>3. Script[k] \in Outside /\ (Script[k] \in NoRow \/ x \in Rows) /\ x \in Rows \union {None}
  BY ScriptFacts DEF Targets, Rows
<1>4. j \notin tx /\ j \notin stmt
  BY EmptyTodo DEF Start, IInv, FreshInv, TxInv, StmtInv
<1>5. ShapeInv'
  BY <1>2, <1>3 DEF Start, IInv, ShapeInv
<1>6. TxInv' /\ RowInv'
  BY <1>2, <1>3, <1>4 DEF Start, IInv, ShapeInv, TxInv, RowInv
<1>7. StmtInv' /\ FreshInv'
  BY <1>2, <1>4 DEF Start, IInv, ShapeInv, StmtInv, FreshInv, Step
<1>8. LockInv' /\ CountInv'
  BY <1>2, <1>4 DEF Start, IInv, ShapeInv, LockInv, CountInv, InUse
<1> QED BY <1>5, <1>6, <1>7, <1>8 DEF IInv

LEMMA GrantIInv ==
  ASSUME IInv, NEW j \in Jobs, Grant(j)
  PROVE  IInv'
<1>1. j \in Running /\ j \notin stmt /\ Step(j) \in OnPool
  BY DEF Grant, Asks
<1> USE NextStep, <1>1
<1>2. CASE Step(j) = "begin"
  <2>1. tx' = tx \union {j} /\ stmt' = stmt /\ GoTo(j, Tail(todo[j])) /\ UNCHANGED <<fresh, holder, main>>
    BY <1>2 DEF Grant
  <2>2. j \notin tx /\ Tail(todo[j]) \in Inside /\ Tail(todo[j]) # << >>
    BY <1>2, EmptyTodo
  <2>3. /\ todo' \in [Jobs -> Inside \union Outside] /\ row' = row
        /\ todo'[j] \in Inside /\ \A i \in Jobs \ {j} : todo'[i] = todo[i]
        /\ RowInv'
    BY <2>1, <2>2, GoToFacts
  <2>4. ShapeInv' /\ TxInv'
    BY <2>1, <2>3 DEF IInv, ShapeInv, TxInv
  <2>5. StmtInv' /\ FreshInv' /\ LockInv'
    BY <2>1, <2>3 DEF IInv, ShapeInv, StmtInv, FreshInv, LockInv, Step
  <2>6. CountInv'
    <3>1. Cardinality(tx \union {j}) = Cardinality(tx) + 1
      BY <2>2, Counts, FS_AddElement
    <3> QED BY <2>1, <3>1, Counts, PoolAssumption DEF Grant, InUse, CountInv
  <2> QED BY <2>3, <2>4, <2>5, <2>6 DEF IInv
<1>3. CASE Step(j) # "begin"
  <2>1. stmt' = stmt \union {j} /\ UNCHANGED <<fresh, todo, row, tx, holder, main>>
    BY <1>3 DEF Grant
  <2>2. ShapeInv' /\ TxInv' /\ FreshInv' /\ RowInv' /\ LockInv'
    BY <2>1 DEF IInv, ShapeInv, TxInv, FreshInv, RowInv, LockInv
  <2>3. StmtInv'
    BY <2>1, <1>3 DEF IInv, StmtInv, Running, Step
  <2>4. CountInv'
    <3>1. Cardinality(stmt \union {j}) = Cardinality(stmt) + 1
      BY <1>1, Counts, FS_AddElement
    <3> QED BY <2>1, <3>1, Counts, PoolAssumption DEF Grant, InUse, CountInv
  <2> QED BY <2>2, <2>3, <2>4 DEF IInv
<1> QED BY <1>2, <1>3

LEMMA AnswerIInv ==
  ASSUME IInv, NEW j \in Jobs, Answer(j)
  PROVE  IInv'
<1>1. j \in stmt /\ j \in Running /\ Step(j) \in OnPool \ {"begin"}
  BY DEF Answer, IInv, StmtInv, Running
<1>2. /\ j \in tx => Tail(todo[j]) \in Inside /\ Tail(todo[j]) # << >>
      /\ j \notin tx => Tail(todo[j]) \in Outside
      /\ Tail(todo[j]) \in NoRow \/ row[j] \in Rows
  BY <1>1, NextStep, EmptyTodo DEF OnPool, WorkerSteps
<1>3. stmt' = stmt \ {j} /\ GoTo(j, Tail(todo[j])) /\ UNCHANGED <<fresh, tx, holder, main>>
  BY DEF Answer
<1>4. /\ todo' \in [Jobs -> Inside \union Outside] /\ row' \in [Jobs -> Rows \union {None}]
      /\ todo'[j] = Tail(todo[j]) /\ (j \in tx => row'[j] = row[j])
      /\ \A i \in Jobs \ {j} : todo'[i] = todo[i] /\ row'[i] = row[i]
      /\ RowInv'
  BY <1>2, <1>3, GoToFacts
<1>5. ShapeInv' /\ TxInv'
  BY <1>2, <1>3, <1>4 DEF IInv, ShapeInv, TxInv
<1>6. StmtInv' /\ FreshInv'
  BY <1>1, <1>3, <1>4, NextStep DEF IInv, ShapeInv, StmtInv, FreshInv, Step
<1>7. LockInv'
  BY <1>3, <1>4 DEF IInv, ShapeInv, LockInv
<1>8. CountInv'
  <2>1. Cardinality(stmt \ {j}) = Cardinality(stmt) - 1
    BY <1>1, Counts, FS_RemoveElement
  <2> QED BY <1>3, <2>1, Counts, PoolAssumption DEF InUse, CountInv, IInv
<1> QED BY <1>4, <1>5, <1>6, <1>7, <1>8 DEF IInv

LEMMA UpdateIInv ==
  ASSUME IInv, NEW j \in Jobs, Update(j)
  PROVE  IInv'
<1>1. j \in Running /\ Step(j) = "update" /\ ~WaitsForRow(j)
  BY DEF Update
<1>2. j \in tx /\ row[j] \in Rows /\ Tail(todo[j]) \in Inside /\ Tail(todo[j]) # << >>
  BY <1>1, NextStep, EmptyTodo DEF WorkerSteps
<1>3. /\ holder' = [holder EXCEPT ![row[j]] = j] /\ GoTo(j, Tail(todo[j]))
      /\ UNCHANGED <<fresh, tx, stmt, main>>
  BY DEF Update
<1>4. /\ todo' \in [Jobs -> Inside \union Outside] /\ row' = row
      /\ todo'[j] = Tail(todo[j]) /\ \A i \in Jobs \ {j} : todo'[i] = todo[i]
      /\ RowInv'
  BY <1>2, <1>3, GoToFacts
<1>5. ShapeInv' /\ TxInv'
  BY <1>2, <1>3, <1>4 DEF IInv, ShapeInv, TxInv
<1>6. j \notin stmt
  BY <1>1 DEF IInv, StmtInv, OnPool, WorkerSteps
<1>7. StmtInv' /\ FreshInv'
  BY <1>1, <1>3, <1>4, <1>6, NextStep DEF IInv, ShapeInv, StmtInv, FreshInv, Step
<1>8. LockInv' /\ CountInv'
  BY <1>2, <1>3, <1>4 DEF IInv, ShapeInv, LockInv, CountInv, InUse
<1> QED BY <1>4, <1>5, <1>7, <1>8 DEF IInv

(* Commit, and Stop with nothing but the outcome left: the job leaves      *)
(* RunTx and gives back all it holds.                                      *)
LEMMA LeaveIInv ==
  ASSUME IInv, NEW j \in Running, NEW rest \in Outside, GoTo(j, rest),
         rest \in NoRow \/ row[j] \in Rows,
         tx' = tx \ {j}, stmt' = stmt \ {j}, Unlock(j), UNCHANGED <<fresh, main>>
  PROVE  IInv'
<1>1. j \in Jobs /\ j \notin fresh
  BY NextStep
<1>2. /\ todo' \in [Jobs -> Inside \union Outside] /\ row' \in [Jobs -> Rows \union {None}]
      /\ todo'[j] = rest /\ \A i \in Jobs \ {j} : todo'[i] = todo[i] /\ row'[i] = row[i]
      /\ RowInv'
  BY <1>1, GoToFacts
<1>3. ShapeInv' /\ TxInv'
  BY <1>2 DEF IInv, ShapeInv, TxInv, Unlock
<1>4. StmtInv' /\ FreshInv'
  BY <1>1, <1>2 DEF IInv, ShapeInv, StmtInv, FreshInv, Step
<1>5. LockInv'
  BY <1>2, PoolAssumption DEF IInv, ShapeInv, LockInv, Unlock
<1>6. CountInv'
  <2>1. Cardinality(tx \ {j}) <= Cardinality(tx) /\ Cardinality(tx \ {j}) \in Nat
    <3>1. tx \ {j} \in SUBSET tx
      OBVIOUS
    <3> QED BY <3>1, Counts, FS_Subset, FS_CardinalityType
  <2>2. Cardinality(stmt \ {j}) <= Cardinality(stmt) /\ Cardinality(stmt \ {j}) \in Nat
    <3>1. stmt \ {j} \in SUBSET stmt
      OBVIOUS
    <3> QED BY <3>1, Counts, FS_Subset, FS_CardinalityType
  <2> QED BY <2>1, <2>2, Counts, PoolAssumption DEF IInv, CountInv, InUse
<1> QED BY <1>2, <1>3, <1>4, <1>5, <1>6 DEF IInv

LEMMA CommitIInv ==
  ASSUME IInv, NEW j \in Jobs, Commit(j)
  PROVE  IInv'
<1>1. j \in Running /\ Step(j) = "commit"
  BY DEF Commit
<1>2. j \in tx /\ Tail(todo[j]) \in Outside /\ (Tail(todo[j]) \in NoRow \/ row[j] \in Rows)
  BY <1>1, NextStep DEF WorkerSteps
<1>3. j \notin stmt
  BY <1>1 DEF IInv, StmtInv, OnPool, WorkerSteps
<1>4. tx' = tx \ {j} /\ stmt' = stmt \ {j}
  BY <1>3 DEF Commit
<1> QED BY <1>1, <1>2, <1>4, LeaveIInv DEF Commit

LEMMA StopIInv ==
  ASSUME IInv, NEW j \in Running, NEW rest \in {<< >>, <<"outcome">>}, Stop(j, rest)
  PROVE  IInv'
<1>1. rest \in Outside /\ rest \in NoRow
  BY DEF Outside, NoRow
<1> QED BY <1>1, LeaveIInv DEF Stop

LEMMA RefusedIInv ==
  ASSUME IInv, NEW j \in Jobs, Refused(j)
  PROVE  IInv'
<1>1. j \in Running /\ j \notin stmt
  BY DEF Refused, Asks
<1>2. CASE Step(j) = "publish"
  <2>1. GoTo(j, Tail(todo[j])) /\ UNCHANGED <<fresh, tx, stmt, holder, main>>
    BY <1>2 DEF Refused
  <2>2. /\ j \in tx /\ Tail(todo[j]) \in Inside /\ Tail(todo[j]) # << >>
        /\ Tail(todo[j]) \in NoRow \/ row[j] \in Rows
    BY <1>1, <1>2, NextStep, EmptyTodo DEF WorkerSteps
  <2>3. /\ todo' \in [Jobs -> Inside \union Outside] /\ row' = row
        /\ todo'[j] = Tail(todo[j]) /\ \A i \in Jobs \ {j} : todo'[i] = todo[i]
        /\ RowInv'
    BY <2>1, <2>2, GoToFacts
  <2>4. ShapeInv' /\ TxInv'
    BY <2>1, <2>2, <2>3 DEF IInv, ShapeInv, TxInv
  <2>5. StmtInv' /\ FreshInv' /\ LockInv' /\ CountInv'
    BY <1>1, <2>1, <2>3, NextStep DEF IInv, ShapeInv, StmtInv, FreshInv, LockInv, CountInv, InUse, Step
  <2> QED BY <2>3, <2>4, <2>5 DEF IInv
<1>3. CASE Step(j) # "publish"
  BY <1>1, <1>3, StopIInv DEF Refused, AfterError
<1> QED BY <1>2, <1>3

LEMMA ExitIInv == ASSUME IInv, Exit PROVE IInv'
<1>1. tx = {} /\ stmt = {}
  BY Counts, FS_EmptySet DEF Exit, InUse
<1>2. \A x \in Rows : holder[x] = None
  BY <1>1 DEF IInv, LockInv
<1>3. ShapeInv' /\ TxInv' /\ RowInv' /\ FreshInv'
  BY <1>1, EmptyTodo DEF Exit, IInv, ShapeInv, TxInv, RowInv, FreshInv
<1>4. StmtInv' /\ LockInv' /\ CountInv'
  BY <1>1, <1>2 DEF Exit, IInv, ShapeInv, StmtInv, LockInv, CountInv, InUse
<1> QED BY <1>3, <1>4 DEF IInv

LEMMA NextIInv == IInv /\ [Next]_vars => IInv'
<1> SUFFICES ASSUME IInv, [Next]_vars PROVE IInv'
  OBVIOUS
<1>1. ASSUME NEW j \in Jobs, Start(j) \/ Work(j) PROVE IInv'
  BY <1>1, StartIInv, GrantIInv, AnswerIInv, UpdateIInv, CommitIInv, RefusedIInv DEF Work
<1>2. ASSUME NEW j \in Jobs, Fail(j) \/ GiveUp(j) PROVE IInv'
  BY <1>2, StopIInv DEF Fail, GiveUp, AfterError
<1>3. CASE Signal \/ Close
  BY <1>3 DEF Signal, Close, IInv, ShapeInv, TxInv, StmtInv, FreshInv, RowInv, LockInv, CountInv, InUse, Step
<1>4. CASE Exit
  BY <1>4, ExitIInv
<1>5. CASE UNCHANGED vars
  BY <1>5 DEF vars, IInv, ShapeInv, TxInv, StmtInv, FreshInv, RowInv, LockInv, CountInv, InUse, Step
<1> QED BY <1>1, <1>2, <1>3, <1>4, <1>5 DEF Next

(* The invariant holds in every state of every run of the process.         *)
THEOREM Invariance == Spec => []IInv
<1> QED BY InitIInv, NextIInv, PTL DEF Spec

(* Every reachable state is well typed, and never are more connections in  *)
(* use than MaxConns.                                                      *)
THEOREM TypeCorrect == Spec => []TypeOK
<1>1. IInv => TypeOK
  BY AreSeqs DEF IInv, ShapeInv, CountInv, TypeOK, Steps
<1> QED BY <1>1, Invariance, PTL

-----------------------------------------------------------------------------
(* When everybody waits somebody waits inside RunTx, or else no            *)
(* connection would be in use.                                             *)
LEMMA JamFacts ==
  ASSUME IInv, Jam
  PROVE  /\ tx \subseteq Running /\ stmt \subseteq Running
         /\ tx \intersect stmt = {}
         /\ Asks \intersect tx # {}
<1>1. tx \subseteq Running /\ stmt \subseteq Running
  BY EmptyTodo DEF IInv, ShapeInv, TxInv, StmtInv, Running
<1>2. \A j \in stmt : Step(j) = "save" /\ j \notin tx
  <2> SUFFICES ASSUME NEW j \in stmt PROVE Step(j) = "save" /\ j \notin tx
    OBVIOUS
  <2>1. j \in Running /\ WaitsForRow(j)
    BY <1>1 DEF Jam, Blocked, Asks
  <2>2. Step(j) = "save"
    BY <2>1 DEF WaitsForRow, IInv, StmtInv, OnPool, WorkerSteps
  <2> QED BY <2>1, <2>2, NextStep
<1>3. ASSUME NEW j \in Running, WaitsForRow(j)
      PROVE  \E h \in tx : h \in Asks
  <2>1. row[j] \in Rows /\ holder[row[j]] \notin {None, j}
    BY <1>3, NextStep DEF WaitsForRow
  <2> DEFINE h == holder[row[j]]
  <2>2. h \in tx /\ row[h] = row[j] /\ h \in Running
    BY <1>1, <2>1 DEF IInv, LockInv
  <2>3. ~WaitsForRow(h)
    BY <2>2 DEF WaitsForRow
  <2> QED BY <2>2, <2>3 DEF Jam, Blocked
<1>4. Asks \intersect tx # {}
  <2>1. SUFFICES ASSUME \A j \in Running : ~WaitsForRow(j) PROVE Asks \intersect tx # {}
    BY <1>3
  <2>2. Running # {} /\ \A j \in Running : j \in Asks /\ InUse = MaxConns
    BY <2>1 DEF Jam, Blocked
  <2>3. stmt = {}
    BY <1>1, <2>2 DEF Asks
  <2>4. CASE tx = {}
    <3>1. InUse = 0
      BY <2>3, <2>4, FS_EmptySet DEF InUse
    <3> QED BY <2>2, <3>1, PoolAssumption
  <2>5. CASE tx # {}
    BY <1>1, <2>2, <2>5
  <2> QED BY <2>4, <2>5
<1> QED BY <1>1, <1>2, <1>4

(* A jam always has a handler that waits for a second connection inside    *)
(* RunTx, and jobs that wait hold all connections.                         *)
THEOREM JamsAreNested == Spec => []JamIsNested
<1>1. IInv => JamIsNested
  <2> SUFFICES ASSUME IInv, Jam
               PROVE  /\ Asks \intersect tx # {} /\ InUse = MaxConns
                      /\ \A j \in tx \union stmt : j \in Running /\ Blocked(j)
    BY DEF JamIsNested
  <2>1. PICK a \in Asks : a \in tx
    BY JamFacts
  <2>2. ~WaitsForRow(a)
    BY <2>1 DEF Asks, OnPool, WorkerSteps, WaitsForRow
  <2>3. InUse = MaxConns
    BY <2>1, <2>2 DEF Jam, Blocked, Asks
  <2> QED BY <2>1, <2>3, JamFacts DEF Jam
<1> QED BY <1>1, Invariance, PTL

(* There is no jam while fewer jobs are in flight than there are           *)
(* connections: in a jam no job holds two.                                 *)
THEOREM RoomMeansNoJam == Spec => []RoomForAll
<1>1. IInv => RoomForAll
  <2> SUFFICES ASSUME IInv, Jam PROVE ~(Cardinality(Running) < MaxConns)
    BY DEF RoomForAll
  <2>1. IsFiniteSet(Running)
    BY PoolAssumption, FS_Subset DEF Running
  <2>2. Cardinality(Running) \in Nat
    BY <2>1, FS_CardinalityType
  <2>3. /\ IsFiniteSet(tx \union stmt)
        /\ Cardinality(tx \union stmt) = Cardinality(tx) + Cardinality(stmt)
    <3>1. Cardinality(tx \intersect stmt) = 0
      BY JamFacts, FS_EmptySet
    <3>2. Cardinality(tx \union stmt)
            = Cardinality(tx) + Cardinality(stmt) - Cardinality(tx \intersect stmt)
      BY Counts, FS_Union
    <3> QED BY <3>1, <3>2, Counts, FS_Union
  <2>4. Cardinality(tx \union stmt) <= Cardinality(Running)
    BY <2>1, JamFacts, FS_Subset
  <2>5. InUse = MaxConns
    <3>1. PICK a \in Asks : a \in tx
      BY JamFacts
    <3>2. ~WaitsForRow(a)
      BY <3>1 DEF Asks, OnPool, WorkerSteps, WaitsForRow
    <3> QED BY <3>1, <3>2 DEF Jam, Blocked, Asks
  <2> QED BY <2>2, <2>3, <2>4, <2>5, Counts, PoolAssumption DEF InUse
<1> QED BY <1>1, Invariance, PTL

-----------------------------------------------------------------------------
(* A write-off that has made its query.                                    *)
PastQuery == {<<"update", "publish", "commit">>, <<"publish", "commit">>}

Past == {j \in tx : todo[j] \in PastQuery}

(* The last of them to make its query has had a second connection then.    *)
RoomInv == Cardinality(Past) < MaxConns

LEMMA PastQueryNext ==
  ASSUME NEW t \in Inside \union Outside, t # << >>, Tail(t) \in PastQuery, Head(t) # "query"
  PROVE  t \in PastQuery
<1> DEFINE Others ==
      {<< >>, <<"commit">>, <<"update", "commit">>, <<"query", "update", "commit">>,
       <<"query", "update", "publish", "commit">>, <<"query", "commit">>,
       <<"query", "begin", "commit">>, <<"query", "begin", "query", "commit">>,
       <<"begin", "commit">>, <<"begin", "update", "commit">>, <<"begin", "query", "commit">>,
       <<"begin", "query", "update", "commit">>, <<"commit", "query", "begin", "commit">>,
       <<"commit", "query", "begin", "query", "commit">>,
       <<"outcome">>, <<"save", "outcome">>, <<"find", "save", "outcome">>}
<1>1. \A u \in Others : u \notin PastQuery
  BY SMTT(60) DEF PastQuery
<1>2. CASE t \in PastQuery \/ t = <<"query", "update", "publish", "commit">>
  BY <1>2, Parts
<1>3. CASE t \in Inside /\ t \notin PastQuery /\ t # <<"query", "update", "publish", "commit">>
  <2>1. Tail(t) \in Others
    BY <1>3, Parts, ZenonT(60) DEF Inside, PastQuery
  <2> QED BY <1>1, <2>1
<1>4. CASE t \in Outside
  <2>1. Tail(t) \in Others
    BY <1>4, Parts, ZenonT(60) DEF Outside
  <2> QED BY <1>1, <2>1
<1> QED BY <1>2, <1>3, <1>4

LEMMA PastQueryFacts ==
  /\ << >> \notin PastQuery /\ <<"outcome">> \notin PastQuery
  /\ \A t \in PastQuery : Head(t) \in {"update", "publish"}
  /\ \A t \in Inside : Head(t) = "publish" => t \in PastQuery
<1>1. << >> \notin PastQuery /\ <<"outcome">> \notin PastQuery
  BY SMT DEF PastQuery
<1>2. \A t \in PastQuery : Head(t) \in {"update", "publish"}
  BY Parts, Zenon DEF PastQuery
<1>3. \A t \in Inside : Head(t) = "publish" => t \in PastQuery
  BY Parts, SMTT(60) DEF Inside, PastQuery
<1> QED BY <1>1, <1>2, <1>3

(* Only the answer to a query made inside RunTx adds to Past.              *)
LEMMA PastSteps ==
  ASSUME IInv, [Next]_vars
  PROVE  Past' \subseteq Past \/ \E j \in stmt : Past' \subseteq tx
<1>1. ASSUME NEW j \in Jobs, Start(j) PROVE Past' \subseteq Past
  BY <1>1, EmptyTodo DEF Start, Past, IInv, ShapeInv, FreshInv, TxInv
<1>2. ASSUME NEW j \in Jobs, Grant(j) PROVE Past' \subseteq Past
  <2>1. j \in Running /\ todo[j] \in Inside \union Outside /\ todo[j] # << >>
    BY <1>2 DEF Grant, Asks, Running, IInv, ShapeInv
  <2>2. CASE Step(j) = "begin"
    <3>1. tx' = tx \union {j} /\ todo' = [todo EXCEPT ![j] = Tail(todo[j])]
      BY <1>2, <2>2 DEF Grant, GoTo
    <3>2. Tail(todo[j]) \notin PastQuery
      BY <2>1, <2>2, PastQueryNext, PastQueryFacts DEF Step
    <3> QED BY <3>1, <3>2 DEF Past, IInv, ShapeInv
  <2>3. CASE Step(j) # "begin"
    BY <1>2, <2>3 DEF Grant, Past
  <2> QED BY <2>2, <2>3
<1>3. ASSUME NEW j \in Jobs, Answer(j) PROVE \E i \in stmt : Past' \subseteq tx
  BY <1>3 DEF Answer, Past
<1>4. ASSUME NEW j \in Jobs, Update(j) PROVE Past' \subseteq Past
  <2>1. todo[j] \in Inside \union Outside /\ todo[j] # << >> /\ Step(j) = "update"
    BY <1>4 DEF Update, Running, IInv, ShapeInv
  <2>2. Tail(todo[j]) \in PastQuery => todo[j] \in PastQuery
    BY <2>1, PastQueryNext DEF Step
  <2> QED BY <1>4, <2>2 DEF Update, GoTo, Past, IInv, ShapeInv
<1>5. ASSUME NEW j \in Jobs, tx' \subseteq tx \ {j}, \A i \in Jobs \ {j} : todo'[i] = todo[i]
      PROVE  Past' \subseteq Past
  BY <1>5 DEF Past, IInv, ShapeInv
<1>6. ASSUME NEW j \in Jobs, NEW rest, Stop(j, rest) PROVE Past' \subseteq Past
  BY <1>5, <1>6 DEF Stop, GoTo, IInv, ShapeInv
<1>7. ASSUME NEW j \in Jobs, Commit(j) PROVE Past' \subseteq Past
  BY <1>5, <1>7 DEF Commit, GoTo, IInv, ShapeInv
<1>8. ASSUME NEW j \in Jobs, Refused(j) PROVE Past' \subseteq Past
  <2>1. CASE Step(j) = "publish" /\ GoTo(j, Tail(todo[j])) /\ UNCHANGED <<fresh, tx, stmt, holder, main>>
    <3>1. todo[j] \in Inside \union Outside /\ todo[j] # << >>
      BY <1>8 DEF Refused, Asks, Running, IInv, ShapeInv
    <3>2. Tail(todo[j]) \in PastQuery => todo[j] \in PastQuery
      BY <2>1, <3>1, PastQueryNext DEF Step
    <3> QED BY <2>1, <3>2 DEF GoTo, Past, IInv, ShapeInv
  <2>2. CASE Stop(j, AfterError(j))
    BY <1>6, <2>2
  <2> QED BY <1>8, <2>1, <2>2 DEF Refused
<1>9. ASSUME NEW j \in Jobs, Fail(j) \/ GiveUp(j) PROVE Past' \subseteq Past
  BY <1>6, <1>9 DEF Fail, GiveUp
<1>10. CASE Exit
  BY <1>10, PastQueryFacts DEF Exit, Past, IInv, ShapeInv
<1>11. CASE Signal \/ Close \/ UNCHANGED vars
  BY <1>11 DEF Signal, Close, vars, Past
<1> QED BY <1>1, <1>2, <1>3, <1>4, <1>7, <1>8, <1>9, <1>10, <1>11 DEF Next, Work

LEMMA KeepsRoom == IInv /\ IInv' /\ RoomInv /\ [Next]_vars => RoomInv'
<1> SUFFICES ASSUME IInv, IInv', RoomInv, [Next]_vars PROVE RoomInv'
  OBVIOUS
<1>1. /\ IsFiniteSet(tx) /\ IsFiniteSet(stmt) /\ IsFiniteSet(Past)
      /\ Cardinality(tx) \in Nat /\ Cardinality(stmt) \in Nat /\ Cardinality(Past) \in Nat
  BY Counts, FS_Subset, FS_CardinalityType DEF Past
<1>2. CASE Past' \subseteq Past
  <2>1. IsFiniteSet(Past') /\ Cardinality(Past') <= Cardinality(Past)
    BY <1>1, <1>2, FS_Subset
  <2>2. Cardinality(Past') \in Nat
    BY <2>1, FS_CardinalityType
  <2> QED BY <1>1, <2>1, <2>2, PoolAssumption DEF RoomInv
<1>3. ASSUME NEW j \in stmt, Past' \subseteq tx PROVE RoomInv'
  <2>1. IsFiniteSet(Past') /\ Cardinality(Past') <= Cardinality(tx)
    BY <1>1, <1>3, FS_Subset
  <2>2. Cardinality(Past') \in Nat
    BY <2>1, FS_CardinalityType
  <2>3. Cardinality(stmt) # 0
    BY <1>1, <1>3, FS_EmptySet
  <2>4. Cardinality(tx) + Cardinality(stmt) <= MaxConns
    BY DEF IInv, CountInv, InUse
  <2> QED BY <1>1, <2>1, <2>2, <2>3, <2>4, PoolAssumption DEF RoomInv
<1> QED BY <1>2, <1>3, PastSteps

(* Never do all connections belong to write-offs that have made their      *)
(* query.                                                                  *)
LEMMA RoomStays == Spec => []RoomInv
<1>1. Init => RoomInv
  <2> SUFFICES ASSUME Init PROVE RoomInv
    OBVIOUS
  <2>1. Past = {}
    BY DEF Init, Past
  <2> QED BY <2>1, FS_EmptySet, PoolAssumption DEF RoomInv
<1> QED BY <1>1, KeepsRoom, Invariance, PTL DEF Spec

(* A client can end every jam, but one of a pass that waits for the row of *)
(* a write-off in Publish; after the signal there is no exception.         *)
THEOREM JamsCanEnd == Spec => []JamCanEnd
<1>1. IInv /\ RoomInv => JamCanEnd
  <2> SUFFICES ASSUME IInv, RoomInv, Jam, \A j \in Running : ~Cancellable(j)
               PROVE  /\ main = "serving"
                      /\ \E j \in stmt : WaitsForRow(j) /\ Step(holder[row[j]]) = "publish"
    BY DEF JamCanEnd
  <2>1. \A j \in Running : Step(j) = "publish" \/ (Step(j) \in WorkerSteps /\ main = "serving")
    BY DEF Cancellable
  <2>2. \A j \in tx : Step(j) = "publish" /\ todo[j] \in Inside
    BY <2>1, JamFacts, NextStep DEF WorkerSteps, IInv, ShapeInv, TxInv
  <2>3. tx = Past
    BY <2>2, PastQueryFacts DEF Past, Step
  <2>4. InUse = MaxConns
    <3>1. PICK a \in Asks : a \in tx
      BY JamFacts
    <3>2. ~WaitsForRow(a)
      BY <3>1 DEF Asks, OnPool, WorkerSteps, WaitsForRow
    <3> QED BY <3>1, <3>2 DEF Jam, Blocked, Asks
  <2>5. stmt # {}
    BY <2>3, <2>4, Counts, FS_EmptySet, PoolAssumption DEF RoomInv, InUse
  <2>6. PICK j \in stmt : TRUE
    BY <2>5
  <2>7. j \in Running /\ WaitsForRow(j)
    BY <2>6, JamFacts DEF Jam, Blocked, Asks
  <2>8. Step(j) = "save" /\ row[j] \in Rows
    BY <2>6, <2>7, NextStep DEF WaitsForRow, IInv, StmtInv, OnPool, WorkerSteps
  <2>9. holder[row[j]] \in tx
    BY <2>7, <2>8 DEF WaitsForRow, IInv, LockInv
  <2> QED BY <2>1, <2>2, <2>7, <2>8, <2>9
<1> QED BY <1>1, Invariance, RoomStays, PTL

-----------------------------------------------------------------------------
(* What may be left of a job if stock is reserved elsewhere.               *)
Plain ==
  {<< >>, <<"commit">>, <<"begin", "commit">>, <<"query", "begin", "commit">>,
   <<"commit", "query", "begin", "commit">>, <<"begin", "commit", "query", "begin", "commit">>,
   <<"update", "commit">>, <<"begin", "update", "commit">>,
   <<"query", "begin", "update", "commit">>,
   <<"publish", "commit">>, <<"update", "publish", "commit">>,
   <<"query", "update", "publish", "commit">>,
   <<"begin", "query", "update", "publish", "commit">>,
   <<"query">>, <<"outcome">>, <<"save", "outcome">>, <<"find", "save", "outcome">>,
   <<"claim", "find", "save", "outcome">>}

PlainInv == \A j \in Jobs : todo[j] \in Plain

LEMMA PlainNext ==
  ASSUME NEW t \in Plain, t # << >>
  PROVE  Tail(t) \in Plain
<1>1. CASE t = <<"commit">>
  BY <1>1, Parts, Zenon DEF Plain
<1>2. CASE t = <<"begin", "commit">>
  BY <1>2, Parts, Zenon DEF Plain
<1>3. CASE t = <<"query", "begin", "commit">>
  BY <1>3, Parts, Zenon DEF Plain
<1>4. CASE t = <<"commit", "query", "begin", "commit">>
  BY <1>4, Parts, Zenon DEF Plain
<1>5. CASE t = <<"begin", "commit", "query", "begin", "commit">>
  BY <1>5, Parts, Zenon DEF Plain
<1>6. CASE t = <<"update", "commit">>
  BY <1>6, Parts, Zenon DEF Plain
<1>7. CASE t = <<"begin", "update", "commit">>
  BY <1>7, Parts, Zenon DEF Plain
<1>8. CASE t = <<"query", "begin", "update", "commit">>
  BY <1>8, Parts, Zenon DEF Plain
<1>9. CASE t = <<"publish", "commit">>
  BY <1>9, Parts, Zenon DEF Plain
<1>10. CASE t = <<"update", "publish", "commit">>
  BY <1>10, Parts, Zenon DEF Plain
<1>11. CASE t = <<"query", "update", "publish", "commit">>
  BY <1>11, Parts, Zenon DEF Plain
<1>12. CASE t = <<"begin", "query", "update", "publish", "commit">>
  BY <1>12, Parts, Zenon DEF Plain
<1>13. CASE t = <<"query">>
  BY <1>13, Parts, Zenon DEF Plain
<1>14. CASE t = <<"outcome">>
  BY <1>14, Parts, Zenon DEF Plain
<1>15. CASE t = <<"save", "outcome">>
  BY <1>15, Parts, Zenon DEF Plain
<1>16. CASE t = <<"find", "save", "outcome">>
  BY <1>16, Parts, Zenon DEF Plain
<1>17. CASE t = <<"claim", "find", "save", "outcome">>
  BY <1>17, Parts, Zenon DEF Plain
<1> QED BY <1>1, <1>2, <1>3, <1>4, <1>5, <1>6, <1>7, <1>8, <1>9, <1>10, <1>11, <1>12, <1>13, <1>14, <1>15, <1>16, <1>17, Zenon DEF Plain

LEMMA PlainScripts == ~ReservesInPool => \A k \in Kinds : Script[k] \in Plain
<1> SUFFICES ASSUME ~ReservesInPool, NEW k \in Kinds PROVE Script[k] \in Plain
  OBVIOUS
<1>1. /\ Script.confirm = <<"query", "begin", "update", "commit">>
      /\ Script.place = <<"begin", "commit", "query", "begin", "commit">>
  BY DEF Script
<1> QED BY <1>1, Scripts, KindNames, Zenon DEF Plain

(* What a step makes of a job's script.                                    *)
LEMMA TodoSteps ==
  ASSUME IInv, [Next]_vars, NEW j \in Jobs
  PROVE  \/ todo'[j] \in {todo[j], << >>, <<"outcome">>}
         \/ todo[j] # << >> /\ todo'[j] = Tail(todo[j])
         \/ \E k \in Kinds : todo'[j] = Script[k]
<1> USE DEF IInv, ShapeInv
<1>1. ASSUME NEW i \in Jobs, Start(i) PROVE todo'[j] = todo[j] \/ \E k \in Kinds : todo'[j] = Script[k]
  BY <1>1 DEF Start
<1>2. ASSUME NEW i \in Jobs, Grant(i) \/ Update(i) \/ Commit(i)
      PROVE  todo'[j] = todo[j] \/ (todo[j] # << >> /\ todo'[j] = Tail(todo[j]))
  BY <1>2 DEF Grant, Update, Commit, GoTo, Asks, Running
<1>3. ASSUME NEW i \in Jobs, Answer(i)
      PROVE  todo'[j] = todo[j] \/ (todo[j] # << >> /\ todo'[j] = Tail(todo[j]))
  BY <1>3 DEF Answer, GoTo, StmtInv
<1>4. ASSUME NEW i \in Jobs, Stop(i, AfterError(i)) \/ Stop(i, << >>)
      PROVE  todo'[j] \in {todo[j], << >>, <<"outcome">>}
  BY <1>4 DEF Stop, AfterError, GoTo
<1>5. ASSUME NEW i \in Jobs, Refused(i)
      PROVE  \/ todo'[j] \in {todo[j], << >>, <<"outcome">>}
             \/ todo[j] # << >> /\ todo'[j] = Tail(todo[j])
  BY <1>4, <1>5 DEF Refused, GoTo, Asks, Running
<1>6. ASSUME NEW i \in Jobs, Fail(i) \/ GiveUp(i)
      PROVE  todo'[j] \in {todo[j], << >>, <<"outcome">>}
  BY <1>4, <1>6 DEF Fail, GiveUp
<1>7. CASE Exit \/ Signal \/ Close \/ UNCHANGED vars
  BY <1>7 DEF Exit, Signal, Close, vars
<1> QED BY <1>1, <1>2, <1>3, <1>5, <1>6, <1>7 DEF Next, Work

LEMMA PlainStays == ~ReservesInPool => (Spec => []PlainInv)
<1> SUFFICES ASSUME ~ReservesInPool PROVE Spec => []PlainInv
  OBVIOUS
<1>1. Init => PlainInv
  BY DEF Init, PlainInv, Plain
<1>2. IInv /\ PlainInv /\ [Next]_vars => PlainInv'
  <2> SUFFICES ASSUME IInv, PlainInv, [Next]_vars, NEW j \in Jobs PROVE todo'[j] \in Plain
    BY DEF PlainInv
  <2>1. todo[j] \in Plain /\ << >> \in Plain /\ <<"outcome">> \in Plain
    BY DEF PlainInv, Plain
  <2> QED BY <2>1, TodoSteps, PlainNext, PlainScripts
<1> QED BY <1>1, <1>2, Invariance, PTL DEF Spec

(* Without the reservation's queries a write-off is in every jam.          *)
THEOREM JamsHaveWriteoffs == Spec => []JamHasWriteoff
<1>1. CASE ReservesInPool
  <2>1. JamHasWriteoff
    BY <1>1 DEF JamHasWriteoff
  <2> QED BY <2>1, PTL
<1>2. CASE ~ReservesInPool
  <2>1. IInv /\ PlainInv => JamHasWriteoff
    <3> SUFFICES ASSUME IInv, PlainInv, Jam
                 PROVE  \E j \in Asks \intersect tx :
                          todo[j] \in {<<"query", "update", "publish", "commit">>, <<"publish", "commit">>}
      BY DEF JamHasWriteoff
    <3>1. PICK j \in Asks \intersect tx : TRUE
      BY JamFacts
    <3>2. /\ j \in Jobs /\ todo[j] \in Plain /\ todo[j] # << >>
          /\ Head(todo[j]) \in OnPool \intersect {"query", "update", "publish", "commit"}
          /\ todo[j] \in Inside
      BY <3>1, NextStep, EmptyTodo DEF PlainInv, IInv, ShapeInv, TxInv, Asks, Running, Step
    <3>3. Head(todo[j]) \in {"query", "publish"}
      BY <3>2 DEF OnPool, WorkerSteps
    <3>4. \A t \in Plain \intersect Inside : Head(t) \in {"query", "publish"} =>
            t \in {<<"query", "update", "publish", "commit">>, <<"publish", "commit">>}
      BY Parts, SMTT(60) DEF Plain, Inside
    <3> QED BY <3>1, <3>2, <3>3, <3>4
  <2> QED BY <1>2, <2>1, PlainStays, Invariance, PTL
<1> QED BY <1>1, <1>2
=============================================================================
