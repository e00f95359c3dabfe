--------------------------- MODULE InventoryProofs ---------------------------
(***************************************************************************)
(* Safety of the inventory for any batches, requests, passes, dates and    *)
(* thresholds, with every fault Inventory knows.  All of it rests on the   *)
(* test of the version: a copy whose version is still the row's agrees     *)
(* with the row in everything the handler has not changed itself.  From it *)
(* also follows how often handlers can conflict at all, and, at the end,   *)
(* what can bring a batch back to the catalog, which reads the same rows.  *)
(***************************************************************************)
EXTENDS Catalog, FiniteSetTheorems, TLAPS

InFlight(r) == pc[r] \in {"loaded", "updated", "published"}

Holding(r) == pc[r] \in {"updated", "published"}

(* r's copy is what its command makes of the row.                          *)
CopyFits(r) ==
  /\ Usable(row[cmd[r].batch])
  /\ cmd[r].qty <= row[cmd[r].batch].remaining
  /\ copy[r] = [row[cmd[r].batch] EXCEPT !.remaining = @ - cmd[r].qty]

CopyInv ==
  \A r \in Requests : InFlight(r) =>
    /\ copy[r].version <= row[cmd[r].batch].version
    /\ copy[r].version = row[cmd[r].batch].version => CopyFits(r)

(* Holders of the row lock have the current version and are alone.         *)
LockInv ==
  \A r \in Requests : Holding(r) =>
    /\ copy[r].version = row[cmd[r].batch].version
    /\ \A q \in Requests \ {r} : Holding(q) => cmd[q].batch # cmd[r].batch

SnapInv ==
  \A s \in Sweepers, b \in Batches : snap[s][b] # NoRow =>
    /\ Usable(snap[s][b])
    /\ snap[s][b].version <= row[b].version
    /\ snap[s][b].version = row[b].version => snap[s][b] = row[b]

ClockInv == \A s \in Sweepers : asOf[s] <= now

AbsentInv ==
  \A b \in Batches : row[b].freshness = "absent" => row[b] = NoRow /\ received[b] = 0

IInv ==
  /\ TypeOK /\ CopyInv /\ LockInv /\ SnapInv /\ ClockInv /\ AbsentInv
  /\ Ledger /\ FreshnessIsEarned

-----------------------------------------------------------------------------
(* Before the first batch is received all totals are zero.                 *)
LEMMA InitIInv == Init => IInv
  <1> SUFFICES ASSUME Init PROVE IInv
    OBVIOUS
  <1> USE InventoryAssumption DEF Init, NoRow
  <1>1. TypeOK
    BY DEF TypeOK, Row, Freshness, EventNames
  <1>2. CopyInv /\ LockInv /\ SnapInv
    BY DEF CopyInv, LockInv, SnapInv, InFlight, Holding
  <1>3. ClockInv /\ AbsentInv /\ Ledger /\ FreshnessIsEarned
    BY DEF ClockInv, AbsentInv, Ledger, FreshnessIsEarned
  <1>4. QED
    BY <1>1, <1>2, <1>3 DEF IInv

(* A received batch has all of its quantity left.                          *)
LEMMA ReceiveIInv ==
  ASSUME IInv, NEW b \in Batches, Receive(b)
  PROVE  IInv'
  <1> USE InventoryAssumption
  <1>1. PICK q \in Received :
          /\ row' = [row EXCEPT ![b] = [remaining |-> q, freshness |-> "fresh", version |-> 1]]
          /\ received' = [received EXCEPT ![b] = q]
    BY DEF Receive
  <1>2. /\ row[b] = NoRow /\ received[b] = 0 /\ q \in Nat
        /\ UNCHANGED <<cmd, pc, copy, snap, asOf, now, drawn, announced, wasted>>
    BY DEF IInv, AbsentInv, Receive, passes
  <1>3. \A c \in Batches : row'[c] =
          IF c = b THEN [remaining |-> q, freshness |-> "fresh", version |-> 1] ELSE row[c]
    BY <1>1 DEF IInv, TypeOK
  <1>4. \A r \in Requests : InFlight(r) => cmd[r].batch \in Batches \ {b}
    <2> SUFFICES ASSUME NEW r \in Requests, InFlight(r) PROVE cmd[r].batch # b
      BY DEF IInv, TypeOK, Command
    <2>1. copy[r].version <= row[cmd[r].batch].version /\ copy[r].version \in Nat
      BY DEF IInv, CopyInv, TypeOK, Row
    <2>2. copy[r].version = row[cmd[r].batch].version => CopyFits(r)
      BY DEF IInv, CopyInv
    <2>3. QED
      BY <1>2, <2>1, <2>2 DEF CopyFits, Usable, NoRow
  <1>5. \A s \in Sweepers : snap[s][b] = NoRow
    <2> SUFFICES ASSUME NEW s \in Sweepers, snap[s][b] # NoRow PROVE FALSE
      OBVIOUS
    <2>1. snap[s][b].version <= row[b].version /\ snap[s][b].version \in Nat
      BY DEF IInv, SnapInv, TypeOK, Row
    <2>2. snap[s][b].version = row[b].version => snap[s][b] = row[b]
      BY DEF IInv, SnapInv
    <2>3. QED
      BY <1>2, <2>1, <2>2 DEF NoRow
  <1>6. TypeOK'
    <2>1. [remaining |-> q, freshness |-> "fresh", version |-> 1] \in Row
      BY <1>2 DEF Row, Freshness
    <2>2. row' \in [Batches -> Row] /\ received' \in [Batches -> Nat]
      BY <1>1, <1>2, <2>1 DEF IInv, TypeOK
    <2>3. outbox' \in [Batches -> SUBSET EventNames]
      BY DEF IInv, TypeOK, Receive, EventNames
    <2>4. QED
      BY <1>2, <2>2, <2>3 DEF IInv, TypeOK
  <1>7. CopyInv' /\ LockInv'
    <2>1. \A r \in Requests : (InFlight(r)' <=> InFlight(r)) /\ (Holding(r)' <=> Holding(r))
      BY <1>2 DEF InFlight, Holding
    <2>2. \A r \in Requests : InFlight(r) => row'[cmd[r].batch] = row[cmd[r].batch]
      BY <1>3, <1>4
    <2>3. \A r \in Requests : Holding(r) => InFlight(r)
      BY DEF Holding, InFlight
    <2>4. QED
      BY <1>2, <2>1, <2>2, <2>3 DEF IInv, CopyInv, LockInv, CopyFits
  <1>8. SnapInv'
    BY <1>2, <1>3, <1>5 DEF IInv, SnapInv
  <1>9. ClockInv' /\ AbsentInv' /\ FreshnessIsEarned'
    BY <1>1, <1>2, <1>3 DEF IInv, TypeOK, ClockInv, AbsentInv, FreshnessIsEarned
  <1>10. Ledger'
    <2>1. 0 + drawn[b] + wasted[b] = 0 /\ drawn[b] \in Int /\ wasted[b] \in Int
      BY <1>2 DEF IInv, TypeOK, Ledger, NoRow
    <2>2. q + drawn[b] + wasted[b] = q
      BY <1>2, <2>1
    <2>3. \A c \in Batches : received'[c] = IF c = b THEN q ELSE received[c]
      BY <1>1 DEF IInv, TypeOK
    <2>4. QED
      BY <1>2, <1>3, <2>2, <2>3 DEF IInv, Ledger
  <1>11. QED
    BY <1>6, <1>7, <1>8, <1>9, <1>10 DEF IInv

-----------------------------------------------------------------------------
(* Steps of a request that write no row.                                   *)
LEMMA LoadIInv ==
  ASSUME IInv, NEW r \in Requests, Load(r)
  PROVE  IInv'
  <1> USE InventoryAssumption
  <1> DEFINE b == cmd[r].batch
             x == row[b]
             y == [x EXCEPT !.remaining = @ - cmd[r].qty]
  <1>1. /\ pc[r] = "new" /\ Accepts(x, cmd[r].qty)
        /\ copy' = [copy EXCEPT ![r] = y] /\ pc' = [pc EXCEPT ![r] = "loaded"]
        /\ UNCHANGED <<row, received, cmd, snap, asOf, now, drawn, announced, wasted, outbox>>
    BY DEF Load, passes, history
  <1>2. b \in Batches /\ x \in Row /\ cmd[r].qty \in Int
    BY DEF IInv, TypeOK, Command
  <1>3. y \in Row /\ y.version = x.version
    BY <1>1, <1>2 DEF Row, Accepts
  <1>4. TypeOK'
    BY <1>1, <1>3 DEF IInv, TypeOK
  <1>5. \A q \in Requests : /\ copy'[q] = IF q = r THEN y ELSE copy[q]
                            /\ pc'[q] = IF q = r THEN "loaded" ELSE pc[q]
    BY <1>1 DEF IInv, TypeOK
  <1>6. CopyInv'
    <2> SUFFICES ASSUME NEW q \in Requests, InFlight(q)'
                 PROVE  /\ copy'[q].version <= row[cmd[q].batch].version
                        /\ copy'[q].version = row[cmd[q].batch].version => CopyFits(q)'
      BY <1>1 DEF CopyInv
    <2>1. CASE q = r
      <3>1. copy'[r] = y
        BY <1>5
      <3>2. x.version <= x.version
        BY <1>2 DEF Row
      <3>3. CopyFits(r)'
        BY <1>1, <3>1 DEF CopyFits, Accepts, Usable
      <3>4. QED
        BY <1>3, <2>1, <3>1, <3>2, <3>3
    <2>2. CASE q # r
      <3>1. InFlight(q) /\ copy'[q] = copy[q]
        BY <1>5, <2>2 DEF InFlight
      <3>2. QED
        BY <1>1, <3>1 DEF IInv, CopyInv, CopyFits
    <2>3. QED
      BY <2>1, <2>2
  <1>7. LockInv'
    BY <1>1, <1>5 DEF IInv, LockInv, Holding
  <1>8. SnapInv' /\ ClockInv' /\ AbsentInv' /\ Ledger' /\ FreshnessIsEarned'
    BY <1>1 DEF IInv, SnapInv, ClockInv, AbsentInv, Ledger, FreshnessIsEarned
  <1>9. QED
    BY <1>4, <1>6, <1>7, <1>8 DEF IInv

(* The version test and the row lock make the copy the row that will be    *)
(* replaced.                                                               *)
LEMMA UpdateTxIInv ==
  ASSUME IInv, NEW r \in Requests, UpdateTx(r)
  PROVE  IInv'
  <1>1. /\ pc[r] = "loaded" /\ pc' = [pc EXCEPT ![r] = "updated"]
        /\ ~Locked(cmd[r].batch) /\ copy[r].version = row[cmd[r].batch].version
        /\ UNCHANGED <<row, received, cmd, copy, snap, asOf, now, drawn, announced, wasted, outbox>>
    BY DEF UpdateTx, passes, history
  <1>2. TypeOK'
    BY <1>1 DEF IInv, TypeOK
  <1>3. \A q \in Requests : pc'[q] = IF q = r THEN "updated" ELSE pc[q]
    BY <1>1 DEF IInv, TypeOK
  <1>4. CopyInv'
    BY <1>1, <1>3 DEF IInv, CopyInv, CopyFits, InFlight
  <1>5. LockInv'
    BY <1>1, <1>3 DEF IInv, LockInv, Holding, Locked
  <1>6. SnapInv' /\ ClockInv' /\ AbsentInv' /\ Ledger' /\ FreshnessIsEarned'
    BY <1>1 DEF IInv, SnapInv, ClockInv, AbsentInv, Ledger, FreshnessIsEarned
  <1>7. QED
    BY <1>2, <1>4, <1>5, <1>6 DEF IInv

(* The other steps of a request: it fails, or a write-off's event goes out. *)
LEMMA QuietIInv ==
  ASSUME IInv, NEW r \in Requests, Refuse(r) \/ Conflict(r) \/ Publish(r) \/ PublishFails(r) \/ Abort(r)
  PROVE  IInv'
  <1> USE InventoryAssumption
  <1>1. UNCHANGED <<row, received, cmd, copy, snap, asOf, now, drawn, wasted>>
    BY DEF Refuse, Conflict, Publish, PublishFails, Abort, passes, history
  <1>2. \/ pc' = [pc EXCEPT ![r] = "failed"]
        \/ pc[r] = "updated" /\ pc' = [pc EXCEPT ![r] = "published"]
    BY DEF Refuse, Conflict, Publish, PublishFails, Abort
  <1>3. TypeOK'
    <2>1. cmd[r].batch \in Batches /\ cmd[r].qty \in Int
      BY DEF IInv, TypeOK, Command
    <2>2. announced' \in [Batches -> Int] /\ outbox' \in [Batches -> SUBSET EventNames]
      BY <2>1 DEF IInv, TypeOK, EventNames, Refuse, Conflict, Publish, PublishFails, Abort, history
    <2>3. pc' \in [Requests -> {"new", "loaded", "updated", "published", "done", "failed"}]
      BY <1>2 DEF IInv, TypeOK
    <2>4. QED
      BY <1>1, <2>2, <2>3 DEF IInv, TypeOK
  <1>4. \A q \in Requests : (InFlight(q)' => InFlight(q)) /\ (Holding(q)' => Holding(q))
    BY <1>2 DEF IInv, TypeOK, InFlight, Holding
  <1>5. CopyInv' /\ LockInv'
    BY <1>1, <1>4 DEF IInv, CopyInv, LockInv, CopyFits
  <1>6. SnapInv' /\ ClockInv' /\ AbsentInv' /\ Ledger' /\ FreshnessIsEarned'
    BY <1>1 DEF IInv, SnapInv, ClockInv, AbsentInv, Ledger, FreshnessIsEarned
  <1>7. QED
    BY <1>3, <1>5, <1>6 DEF IInv

-----------------------------------------------------------------------------
(* A new version of a row makes every copy of the old one useless.         *)
LEMMA NewVersion ==
  ASSUME IInv, NEW b \in Batches, NEW y \in Row,
         Usable(row[b]), y.version = row[b].version + 1, y.freshness # "absent",
         row' = [row EXCEPT ![b] = y], UNCHANGED <<cmd, copy, asOf, now, received>>,
         \A q \in Requests : InFlight(q)' => InFlight(q),
         \A q \in Requests : Holding(q)' => Holding(q) /\ cmd[q].batch # b,
         \A s \in Sweepers, c \in Batches : snap'[s][c] \in {snap[s][c], NoRow}
  PROVE  CopyInv' /\ LockInv' /\ SnapInv' /\ ClockInv' /\ AbsentInv'
  <1>1. \A c \in Batches : row'[c] = IF c = b THEN y ELSE row[c]
    BY DEF IInv, TypeOK
  <1>2. row[b].version \in Nat
    BY DEF IInv, TypeOK, Row
  <1>3. CopyInv'
    <2> SUFFICES ASSUME NEW q \in Requests, InFlight(q)'
                 PROVE  /\ copy[q].version <= row'[cmd[q].batch].version
                        /\ copy[q].version = row'[cmd[q].batch].version => CopyFits(q)'
      BY DEF CopyInv
    <2>1. /\ cmd[q].batch \in Batches /\ copy[q].version \in Nat
          /\ copy[q].version <= row[cmd[q].batch].version
          /\ copy[q].version = row[cmd[q].batch].version => CopyFits(q)
      BY DEF IInv, TypeOK, CopyInv, Command, Row
    <2>2. CASE cmd[q].batch = b
      BY <1>1, <1>2, <2>1, <2>2
    <2>3. CASE cmd[q].batch # b
      BY <1>1, <2>1, <2>3 DEF CopyFits
    <2>4. QED
      BY <2>2, <2>3
  <1>4. LockInv'
    <2>1. \A q \in Requests : Holding(q)' => row'[cmd[q].batch] = row[cmd[q].batch]
      BY <1>1 DEF IInv, TypeOK, Command
    <2>2. QED
      BY <2>1 DEF IInv, LockInv
  <1>5. SnapInv'
    <2> SUFFICES ASSUME NEW s \in Sweepers, NEW c \in Batches, snap'[s][c] # NoRow
                 PROVE  /\ Usable(snap'[s][c])
                        /\ snap'[s][c].version <= row'[c].version
                        /\ snap'[s][c].version = row'[c].version => snap'[s][c] = row'[c]
      BY DEF SnapInv
    <2>1. /\ snap'[s][c] = snap[s][c] /\ snap[s][c].version \in Nat
          /\ Usable(snap[s][c]) /\ snap[s][c].version <= row[c].version
          /\ snap[s][c].version = row[c].version => snap[s][c] = row[c]
      BY DEF IInv, SnapInv, TypeOK, Row
    <2>2. QED
      BY <1>1, <1>2, <2>1
  <1>6. ClockInv'
    BY DEF IInv, ClockInv
  <1>7. AbsentInv'
    BY <1>1 DEF IInv, AbsentInv
  <1>8. QED
    BY <1>3, <1>4, <1>5, <1>6, <1>7

(* At the commit of r the row is still the one r has read.                 *)
LEMMA CommitWrites ==
  ASSUME IInv, NEW r \in Requests, Holding(r),
         row' = [row EXCEPT ![cmd[r].batch] = Stored(copy[r])],
         pc' = [pc EXCEPT ![r] = "done"],
         UNCHANGED <<received, cmd, copy, snap, asOf, now>>
  PROVE  /\ CopyFits(r) /\ Stored(copy[r]) \in Row
         /\ Stored(copy[r]).remaining = row[cmd[r].batch].remaining - cmd[r].qty
         /\ Stored(copy[r]).freshness = row[cmd[r].batch].freshness
         /\ CopyInv' /\ LockInv' /\ SnapInv' /\ ClockInv' /\ AbsentInv'
  <1> DEFINE b == cmd[r].batch
             y == Stored(copy[r])
  <1>1. b \in Batches /\ row[b] \in Row /\ copy[r] \in Row /\ cmd[r].qty \in Int
    BY InventoryAssumption DEF IInv, TypeOK, Command
  <1>2. CopyFits(r) /\ copy[r].version = row[b].version
    BY DEF IInv, CopyInv, LockInv, Holding, InFlight
  <1>3. y \in Row /\ y.version = row[b].version + 1
    BY <1>1, <1>2 DEF Stored, Row
  <1>4. y.remaining = row[b].remaining - cmd[r].qty /\ y.freshness = row[b].freshness
    BY <1>1, <1>2 DEF Stored, Row, CopyFits
  <1>5. Usable(row[b]) /\ y.freshness # "absent"
    BY <1>2, <1>4 DEF CopyFits, Usable
  <1>6. \A q \in Requests : /\ InFlight(q)' => InFlight(q)
                            /\ Holding(q)' => Holding(q) /\ cmd[q].batch # b
    <2>1. \A q \in Requests : pc'[q] = IF q = r THEN "done" ELSE pc[q]
      BY DEF IInv, TypeOK
    <2>2. QED
      BY <2>1 DEF IInv, LockInv, Holding, InFlight
  <1>7. CopyInv' /\ LockInv' /\ SnapInv' /\ ClockInv' /\ AbsentInv'
    <2> HIDE DEF b, y
    <2>1. row' = [row EXCEPT ![b] = y]
      BY DEF b, y
    <2>2. QED
      BY <1>1, <1>3, <1>5, <1>6, <2>1, NewVersion
  <1>8. QED
    BY <1>2, <1>3, <1>4, <1>7

(* A consume moves its quantity from the row to its event.                 *)
LEMMA CommitConsumeIInv ==
  ASSUME IInv, NEW r \in Requests, CommitConsume(r)
  PROVE  IInv'
  <1> USE InventoryAssumption
  <1> DEFINE b == cmd[r].batch
             y == Stored(copy[r])
  <1>1. /\ row' = [row EXCEPT ![b] = y] /\ drawn' = [drawn EXCEPT ![b] = @ + cmd[r].qty]
        /\ outbox' = [outbox EXCEPT ![b] = @ \union {"batch_consumed"}]
        /\ pc' = [pc EXCEPT ![r] = "done"] /\ Holding(r)
        /\ UNCHANGED <<received, cmd, copy, snap, asOf, now, announced, wasted>>
    BY DEF CommitConsume, Holding, passes
  <1>2. /\ CopyFits(r) /\ y \in Row
        /\ y.remaining = row[b].remaining - cmd[r].qty /\ y.freshness = row[b].freshness
        /\ CopyInv' /\ LockInv' /\ SnapInv' /\ ClockInv' /\ AbsentInv'
    BY <1>1, CommitWrites
  <1>3. b \in Batches /\ cmd[r].qty \in Int
    BY DEF IInv, TypeOK, Command
  <1> HIDE DEF b, y
  <1>4. TypeOK'
    BY <1>1, <1>2, <1>3 DEF IInv, TypeOK, EventNames
  <1>5. \A c \in Batches : row'[c] = IF c = b THEN y ELSE row[c]
    BY <1>1 DEF IInv, TypeOK
  <1>6. Ledger'
    <2>1. \A c \in Batches : drawn'[c] = IF c = b THEN drawn[c] + cmd[r].qty ELSE drawn[c]
      BY <1>1 DEF IInv, TypeOK
    <2>2. row[b].remaining \in Int /\ drawn[b] \in Int /\ wasted[b] \in Int
      BY <1>3 DEF IInv, TypeOK, Row
    <2>3. y.remaining + (drawn[b] + cmd[r].qty) + wasted[b] = row[b].remaining + drawn[b] + wasted[b]
      BY <1>2, <1>3, <2>2
    <2>4. QED
      BY <1>1, <1>3, <1>5, <2>1, <2>3 DEF IInv, Ledger
  <1>7. FreshnessIsEarned'
    BY <1>1, <1>2, <1>5 DEF IInv, FreshnessIsEarned
  <1>8. QED
    BY <1>2, <1>4, <1>6, <1>7 DEF IInv

(* A write-off moves its quantity from the row to the waste.               *)
LEMMA CommitWriteoffIInv ==
  ASSUME IInv, NEW r \in Requests, CommitWriteoff(r)
  PROVE  IInv'
  <1> USE InventoryAssumption
  <1> DEFINE b == cmd[r].batch
             y == Stored(copy[r])
  <1>1. /\ row' = [row EXCEPT ![b] = y] /\ wasted' = [wasted EXCEPT ![b] = @ + cmd[r].qty]
        /\ pc' = [pc EXCEPT ![r] = "done"] /\ Holding(r)
        /\ UNCHANGED <<received, cmd, copy, snap, asOf, now, announced, drawn, outbox>>
    BY DEF CommitWriteoff, Holding, passes
  <1>2. /\ CopyFits(r) /\ y \in Row
        /\ y.remaining = row[b].remaining - cmd[r].qty /\ y.freshness = row[b].freshness
        /\ CopyInv' /\ LockInv' /\ SnapInv' /\ ClockInv' /\ AbsentInv'
    BY <1>1, CommitWrites
  <1>3. b \in Batches /\ cmd[r].qty \in Int
    BY DEF IInv, TypeOK, Command
  <1> HIDE DEF b, y
  <1>4. TypeOK'
    BY <1>1, <1>2, <1>3 DEF IInv, TypeOK
  <1>5. \A c \in Batches : row'[c] = IF c = b THEN y ELSE row[c]
    BY <1>1 DEF IInv, TypeOK
  <1>6. Ledger'
    <2>1. \A c \in Batches : wasted'[c] = IF c = b THEN wasted[c] + cmd[r].qty ELSE wasted[c]
      BY <1>1 DEF IInv, TypeOK
    <2>2. row[b].remaining \in Int /\ drawn[b] \in Int /\ wasted[b] \in Int
      BY <1>3 DEF IInv, TypeOK, Row
    <2>3. y.remaining + drawn[b] + (wasted[b] + cmd[r].qty) = row[b].remaining + drawn[b] + wasted[b]
      BY <1>2, <1>3, <2>2
    <2>4. QED
      BY <1>1, <1>3, <1>5, <2>1, <2>3 DEF IInv, Ledger
  <1>7. FreshnessIsEarned'
    BY <1>1, <1>2, <1>5 DEF IInv, FreshnessIsEarned
  <1>8. QED
    BY <1>2, <1>4, <1>6, <1>7 DEF IInv

-----------------------------------------------------------------------------
(* Steps of a pass that write no row.                                      *)
LEMMA SweepReadsIInv ==
  ASSUME IInv, NEW s \in Sweepers,
         SweepStart(s) \/ SweepFail(s) \/ \E b \in Batches : SweepSkip(s, b)
  PROVE  IInv'
  <1> USE InventoryAssumption
  <1>1. UNCHANGED <<row, received, cmd, pc, copy, now, drawn, announced, wasted, outbox>>
    BY DEF SweepStart, SweepFail, SweepSkip, history
  <1>2. NoRow \in Row
    BY DEF NoRow, Row, Freshness
  <1>3. \A t \in Sweepers, c \in Batches :
          \/ snap'[t][c] \in {snap[t][c], NoRow}
          \/ snap'[t][c] = row[c] /\ Usable(row[c])
    <2>1. snap \in [Sweepers -> [Batches -> Row]]
      BY DEF IInv, TypeOK
    <2>2. CASE SweepStart(s)
      BY <2>1, <2>2 DEF SweepStart, Active
    <2>3. CASE SweepFail(s)
      BY <2>1, <2>3 DEF SweepFail
    <2>4. ASSUME NEW b \in Batches, SweepSkip(s, b)
          PROVE  \A t \in Sweepers, c \in Batches : snap'[t][c] \in {snap[t][c], NoRow}
      BY <2>1, <2>4 DEF SweepSkip
    <2>5. QED
      BY <2>2, <2>3, <2>4
  <1>4. snap' \in [Sweepers -> [Batches -> Row]]
    <2>1. snap \in [Sweepers -> [Batches -> Row]] /\ row \in [Batches -> Row]
      BY DEF IInv, TypeOK
    <2>2. CASE SweepStart(s)
      <3>1. [b \in Batches |-> IF b \in Active THEN row[b] ELSE NoRow] \in [Batches -> Row]
        BY <1>2, <2>1
      <3>2. QED
        BY <2>1, <2>2, <3>1 DEF SweepStart
    <2>3. CASE SweepFail(s)
      BY <1>2, <2>1, <2>3 DEF SweepFail
    <2>4. CASE \E b \in Batches : SweepSkip(s, b)
      BY <1>2, <2>1, <2>4 DEF SweepSkip
    <2>5. QED
      BY <2>2, <2>3, <2>4
  <1>5. asOf' \in [Sweepers -> Nat] /\ ClockInv'
    BY <1>1 DEF IInv, TypeOK, ClockInv, SweepStart, SweepFail, SweepSkip
  <1>6. SnapInv'
    <2>1. \A c \in Batches : row[c].version \in Nat
      BY DEF IInv, TypeOK, Row
    <2>2. QED
      BY <1>1, <1>3, <2>1 DEF IInv, SnapInv
  <1>7. TypeOK'
    BY <1>1, <1>4, <1>5 DEF IInv, TypeOK
  <1>8. CopyInv' /\ LockInv' /\ AbsentInv' /\ Ledger' /\ FreshnessIsEarned'
    BY <1>1 DEF IInv, CopyInv, LockInv, CopyFits, InFlight, Holding, AbsentInv, Ledger,
       FreshnessIsEarned
  <1>9. QED
    BY <1>5, <1>6, <1>7, <1>8 DEF IInv

(* A pass only ever marks a batch as older, and not before its time.       *)
LEMMA TransitionAges ==
  ASSUME NEW x \in Row, NEW b \in Batches, NEW t \in Nat, Usable(x),
         Transition(x, b, t) # x.freshness
  PROVE  /\ Transition(x, b, t) \in {"aging", "critical", "expired"}
         /\ Rank[x.freshness] < Rank[Transition(x, b, t)]
         /\ Transition(x, b, t) = "aging" => t + AgingThreshold > Expiry[b]
         /\ Transition(x, b, t) = "critical" => t + CriticalThreshold > Expiry[b]
         /\ Transition(x, b, t) = "expired" => t > Expiry[b]
  <1>1. x.freshness \in {"fresh", "aging", "critical"}
    BY DEF Usable, Row, Freshness
  <1>2. QED
    BY <1>1, InventoryAssumption DEF Transition, Rank

(* The row a save leaves has the type of a row.                            *)
LEMMA StoredType == \A x \in Row : Stored(x) \in Row
  BY DEF Row, Stored

(* A pass saves a copy of the current row with a later mark.               *)
LEMMA SweepSaveWrites ==
  ASSUME IInv, NEW s \in Sweepers, NEW b \in Batches, SweepSave(s, b)
  PROVE  \E f \in {"aging", "critical", "expired"} :
           /\ Usable(row[b]) /\ Rank[row[b].freshness] < Rank[f]
           /\ f = "aging" => now + AgingThreshold > Expiry[b]
           /\ f = "critical" => now + CriticalThreshold > Expiry[b]
           /\ f = "expired" => now > Expiry[b]
           /\ row' = [row EXCEPT ![b] = Stored([row[b] EXCEPT !.freshness = f])]
  <1>1. snap[s][b] = row[b] /\ Usable(row[b]) /\ row[b] \in Row
    BY DEF IInv, SnapInv, TypeOK, SweepSave, Todo
  <1>2. asOf[s] \in Nat /\ now \in Nat /\ asOf[s] <= now
    BY DEF IInv, TypeOK, ClockInv
  <1>3. Target(s, b) = Transition(row[b], b, asOf[s]) /\ Target(s, b) # row[b].freshness
    BY <1>1 DEF Target, SweepSave
  <1>4. /\ Target(s, b) \in {"aging", "critical", "expired"}
        /\ Rank[row[b].freshness] < Rank[Target(s, b)]
        /\ Target(s, b) = "aging" => asOf[s] + AgingThreshold > Expiry[b]
        /\ Target(s, b) = "critical" => asOf[s] + CriticalThreshold > Expiry[b]
        /\ Target(s, b) = "expired" => asOf[s] > Expiry[b]
    BY <1>1, <1>2, <1>3, TransitionAges
  <1>5. row' = [row EXCEPT ![b] = Stored([row[b] EXCEPT !.freshness = Target(s, b)])]
    BY <1>1 DEF SweepSave
  <1>6. Expiry[b] \in Nat /\ AgingThreshold \in Nat /\ CriticalThreshold \in Nat
    BY InventoryAssumption
  <1>7. /\ Target(s, b) = "aging" => now + AgingThreshold > Expiry[b]
        /\ Target(s, b) = "critical" => now + CriticalThreshold > Expiry[b]
        /\ Target(s, b) = "expired" => now > Expiry[b]
    BY <1>2, <1>4, <1>6
  <1> USE <1>4
  <1> WITNESS Target(s, b) \in {"aging", "critical", "expired"}
  <1>8. QED
    BY <1>1, <1>4, <1>5, <1>7

(* A pass changes the mark of a row and nothing else that counts.          *)
LEMMA SweepSaveIInv ==
  ASSUME IInv, NEW s \in Sweepers, NEW b \in Batches, SweepSave(s, b)
  PROVE  IInv'
  <1> USE InventoryAssumption
  <1>1. PICK f \in {"aging", "critical", "expired"} :
          /\ Usable(row[b])
          /\ f = "aging" => now + AgingThreshold > Expiry[b]
          /\ f = "critical" => now + CriticalThreshold > Expiry[b]
          /\ f = "expired" => now > Expiry[b]
          /\ row' = [row EXCEPT ![b] = Stored([row[b] EXCEPT !.freshness = f])]
    BY SweepSaveWrites
  <1> DEFINE y == Stored([row[b] EXCEPT !.freshness = f])
  <1>2. row[b] \in Row /\ y \in Row /\ y.version = row[b].version + 1
        /\ y.freshness = f /\ y.remaining = row[b].remaining
    <2>1. row[b] \in Row
      BY DEF IInv, TypeOK
    <2>2. [row[b] EXCEPT !.freshness = f] \in Row
      BY <2>1 DEF Row, Freshness
    <2>3. y \in Row
      BY <2>2, StoredType
    <2>4. y.version = row[b].version + 1 /\ y.freshness = f /\ y.remaining = row[b].remaining
      BY <2>1 DEF Stored, Row
    <2>5. QED
      BY <2>1, <2>3, <2>4
  <1>3. /\ UNCHANGED <<received, cmd, pc, copy, asOf, now, drawn, announced, wasted, outbox>>
        /\ snap' = [snap EXCEPT ![s][b] = NoRow] /\ ~Locked(b)
    BY DEF SweepSave, history
  <1> HIDE DEF y
  <1>4. row' = [row EXCEPT ![b] = y]
    BY <1>1 DEF y
  <1>5. \A c \in Batches : row'[c] = IF c = b THEN y ELSE row[c]
    BY <1>4 DEF IInv, TypeOK
  <1>6. CopyInv' /\ LockInv' /\ SnapInv' /\ ClockInv' /\ AbsentInv'
    <2>1. \A q \in Requests : /\ InFlight(q)' => InFlight(q)
                              /\ Holding(q)' => Holding(q) /\ cmd[q].batch # b
      BY <1>3 DEF InFlight, Holding, Locked
    <2>2. \A t \in Sweepers, c \in Batches : snap'[t][c] \in {snap[t][c], NoRow}
      BY <1>3 DEF IInv, TypeOK
    <2>3. y.freshness # "absent"
      BY <1>2
    <2>4. QED
      BY <1>1, <1>2, <1>3, <1>4, <2>1, <2>2, <2>3, NewVersion
  <1>7. TypeOK'
    <2>1. NoRow \in Row
      BY DEF NoRow, Row, Freshness
    <2>2. snap' \in [Sweepers -> [Batches -> Row]]
      BY <1>3, <2>1 DEF IInv, TypeOK
    <2>3. QED
      BY <1>2, <1>3, <1>4, <2>2 DEF IInv, TypeOK
  <1>8. Ledger'
    BY <1>2, <1>3, <1>5 DEF IInv, Ledger
  <1>9. FreshnessIsEarned'
    BY <1>1, <1>2, <1>3, <1>5 DEF IInv, FreshnessIsEarned
  <1>10. QED
    BY <1>6, <1>7, <1>8, <1>9 DEF IInv

(* What is past its date stays past its date.                              *)
LEMMA TickIInv ==
  ASSUME IInv, Tick
  PROVE  IInv'
  <1> USE InventoryAssumption
  <1>1. /\ now' = now + 1
        /\ UNCHANGED <<row, received, cmd, pc, copy, snap, asOf, drawn, announced, wasted, outbox>>
    BY DEF Tick, passes, history
  <1>2. now \in Nat /\ asOf \in [Sweepers -> Nat]
    BY DEF IInv, TypeOK
  <1>3. TypeOK' /\ ClockInv'
    BY <1>1, <1>2 DEF IInv, TypeOK, ClockInv
  <1>4. FreshnessIsEarned'
    BY <1>1, <1>2 DEF IInv, FreshnessIsEarned
  <1>5. CopyInv' /\ LockInv' /\ SnapInv' /\ AbsentInv' /\ Ledger'
    BY <1>1 DEF IInv, CopyInv, LockInv, CopyFits, InFlight, Holding, SnapInv, AbsentInv, Ledger
  <1>6. QED
    BY <1>3, <1>4, <1>5 DEF IInv

(* No step breaks the invariant.                                           *)
LEMMA NextIInv == IInv /\ [Next]_vars => IInv'
  <1> SUFFICES ASSUME IInv, [Next]_vars PROVE IInv'
    OBVIOUS
  <1>1. CASE UNCHANGED vars
    BY <1>1 DEF vars, IInv, TypeOK, CopyInv, LockInv, CopyFits, InFlight, Holding, SnapInv,
       ClockInv, AbsentInv, Ledger, FreshnessIsEarned
  <1>2. ASSUME NEW b \in Batches, Receive(b) PROVE IInv'
    BY <1>2, ReceiveIInv
  <1>3. ASSUME NEW r \in Requests, Request(r) PROVE IInv'
    BY <1>3, LoadIInv, UpdateTxIInv, QuietIInv, CommitConsumeIInv, CommitWriteoffIInv DEF Request
  <1>4. ASSUME NEW s \in Sweepers, Sweep(s) PROVE IInv'
    BY <1>4, SweepReadsIInv, SweepSaveIInv DEF Sweep
  <1>5. CASE Tick
    BY <1>5, TickIInv
  <1>6. QED
    BY <1>1, <1>2, <1>3, <1>4, <1>5 DEF Next

(* Rows, copies and totals fit together in every reachable state: a copy   *)
(* whose version is current is the current row, changed as its command     *)
(* says.                                                                   *)
THEOREM Invariance == Spec => []IInv
  BY InitIInv, NextIInv, PTL DEF Spec

-----------------------------------------------------------------------------
(* Every column keeps its type; remaining_qty in particular never becomes  *)
(* negative, whatever quantities the commands carry.                       *)
THEOREM TypeCorrect == Spec => []TypeOK
  <1>1. IInv => TypeOK
    BY DEF IInv
  <1>2. QED
    BY <1>1, Invariance, PTL

(* No update of stock is ever lost: the row agrees with the batch_consumed *)
(* events in the outbox and the committed write-offs.                      *)
THEOREM NothingLost == Spec => []Ledger
  <1>1. IInv => Ledger
    BY DEF IInv
  <1>2. QED
    BY <1>1, Invariance, PTL

(* No batch is marked before its date calls for it.                        *)
THEOREM MarkedInTime == Spec => []FreshnessIsEarned
  <1>1. IInv => FreshnessIsEarned
    BY DEF IInv
  <1>2. QED
    BY <1>1, Invariance, PTL

-----------------------------------------------------------------------------
(* The four kinds of steps, as far as rows and totals are concerned.       *)
Inserted(b, q) ==
  /\ row[b] = NoRow
  /\ row' = [row EXCEPT ![b] = [remaining |-> q, freshness |-> "fresh", version |-> 1]]
  /\ UNCHANGED <<drawn, wasted>>

Taken(b, q) ==
  /\ Usable(row[b]) /\ q <= row[b].remaining
  /\ \E y \in Row : /\ row' = [row EXCEPT ![b] = y]
                    /\ y.remaining = row[b].remaining - q
                    /\ y.freshness = row[b].freshness
  /\ \/ drawn' = [drawn EXCEPT ![b] = @ + q] /\ UNCHANGED wasted
     \/ wasted' = [wasted EXCEPT ![b] = @ + q] /\ UNCHANGED drawn
  /\ \E r \in Requests : /\ cmd[r].batch = b /\ cmd[r].qty = q /\ UNCHANGED cmd
                         /\ pc[r] # "done" /\ pc' = [pc EXCEPT ![r] = "done"]

Marked(b, f) ==
  /\ Usable(row[b]) /\ Rank[row[b].freshness] < Rank[f]
  /\ row' = [row EXCEPT ![b] = Stored([row[b] EXCEPT !.freshness = f])]
  /\ UNCHANGED <<drawn, wasted>>

RowStep ==
  \/ UNCHANGED <<row, drawn, wasted>>
  \/ \E b \in Batches, q \in Received : Inserted(b, q)
  \/ \E b \in Batches, q \in Quantities : Taken(b, q)
  \/ \E b \in Batches, f \in {"aging", "critical", "expired"} : Marked(b, f)

(* Every step leaves the rows alone or changes one of them in one of three *)
(* ways: it is received, drawn from, or marked older.                      *)
LEMMA RowSteps == IInv /\ [Next]_vars => RowStep
  <1> SUFFICES ASSUME IInv, [Next]_vars PROVE RowStep
    OBVIOUS
  <1>1. CASE UNCHANGED vars
    BY <1>1 DEF vars, RowStep
  <1>2. ASSUME NEW b \in Batches, Receive(b) PROVE RowStep
    <2>1. PICK q \in Received : row' = [row EXCEPT ![b] =
                 [remaining |-> q, freshness |-> "fresh", version |-> 1]]
      BY <1>2 DEF Receive
    <2>2. row[b] = NoRow /\ UNCHANGED <<drawn, wasted>>
      BY <1>2 DEF Receive, IInv, AbsentInv
    <2>3. Inserted(b, q)
      BY <2>1, <2>2 DEF Inserted
    <2>4. QED
      BY <2>3 DEF RowStep
  <1>3. ASSUME NEW r \in Requests, CommitConsume(r) \/ CommitWriteoff(r) PROVE RowStep
    <2>1. /\ Holding(r) /\ row' = [row EXCEPT ![cmd[r].batch] = Stored(copy[r])]
          /\ pc' = [pc EXCEPT ![r] = "done"]
          /\ UNCHANGED <<received, cmd, copy, snap, asOf, now>>
      BY <1>3 DEF CommitConsume, CommitWriteoff, Holding, passes
    <2>2. /\ CopyFits(r) /\ Stored(copy[r]) \in Row
          /\ Stored(copy[r]).remaining = row[cmd[r].batch].remaining - cmd[r].qty
          /\ Stored(copy[r]).freshness = row[cmd[r].batch].freshness
      BY <2>1, CommitWrites
    <2>3. cmd[r].batch \in Batches /\ cmd[r].qty \in Quantities
      BY DEF IInv, TypeOK, Command
    <2>4. \/ drawn' = [drawn EXCEPT ![cmd[r].batch] = @ + cmd[r].qty] /\ UNCHANGED wasted
          \/ wasted' = [wasted EXCEPT ![cmd[r].batch] = @ + cmd[r].qty] /\ UNCHANGED drawn
      BY <1>3 DEF CommitConsume, CommitWriteoff
    <2>5. Taken(cmd[r].batch, cmd[r].qty)
      <3> DEFINE b == cmd[r].batch
                 q == cmd[r].qty
      <3>1. Usable(row[b]) /\ q <= row[b].remaining
        BY <2>2 DEF CopyFits
      <3>2. \E y \in Row : /\ row' = [row EXCEPT ![b] = y]
                          /\ y.remaining = row[b].remaining - q /\ y.freshness = row[b].freshness
        BY <2>1, <2>2
      <3>3. pc[r] # "done"
        BY <2>1 DEF Holding
      <3>4. QED
        BY <2>1, <2>4, <3>1, <3>2, <3>3 DEF Taken
    <2>6. QED
      BY <2>3, <2>5 DEF RowStep
  <1>4. ASSUME NEW s \in Sweepers, NEW b \in Batches, SweepSave(s, b) PROVE RowStep
    <2>1. UNCHANGED <<drawn, wasted>>
      BY <1>4 DEF SweepSave, history
    <2>2. \E f \in {"aging", "critical", "expired"} : Marked(b, f)
      BY <1>4, <2>1, SweepSaveWrites DEF Marked
    <2>3. QED
      BY <2>2 DEF RowStep
  <1>5. ASSUME NEW r \in Requests,
               \/ Load(r) \/ Refuse(r) \/ UpdateTx(r) \/ Conflict(r) \/ Publish(r) \/ PublishFails(r) \/ Abort(r)
        PROVE  UNCHANGED <<row, drawn, wasted>>
    BY <1>5 DEF Load, Refuse, UpdateTx, Conflict, Publish, PublishFails, Abort, history
  <1>6. ASSUME NEW s \in Sweepers,
               SweepStart(s) \/ SweepFail(s) \/ \E b \in Batches : SweepSkip(s, b)
        PROVE  UNCHANGED <<row, drawn, wasted>>
    BY <1>6 DEF SweepStart, SweepFail, SweepSkip, history
  <1>7. CASE Tick
    BY <1>7 DEF Tick, history, RowStep
  <1>8. QED
    BY <1>1, <1>2, <1>3, <1>4, <1>5, <1>6, <1>7 DEF Next, Request, Sweep, RowStep

(* A stale handler cannot make a batch fresher.                            *)
THEOREM NeverFresher == Spec => FreshnessNeverReverts
  <1> DEFINE Older == \A b \in Batches : Rank[row[b].freshness] <= Rank[row'[b].freshness]
  <1>1. IInv /\ [Next]_vars => [Older]_vars
    <2> SUFFICES ASSUME IInv, RowStep PROVE Older
      BY RowSteps
    <2>1. row \in [Batches -> Row] /\ \A b \in Batches : Rank[row[b].freshness] \in 0..4
      BY DEF IInv, TypeOK, Row, Freshness, Rank
    <2>2. CASE UNCHANGED <<row, drawn, wasted>>
      BY <2>1, <2>2
    <2>3. ASSUME NEW b \in Batches, NEW q \in Received, Inserted(b, q) PROVE Older
      BY <2>1, <2>3 DEF Inserted, NoRow, Rank
    <2>4. ASSUME NEW b \in Batches, NEW q \in Quantities, Taken(b, q) PROVE Older
      BY <2>1, <2>4 DEF Taken
    <2>5. ASSUME NEW b \in Batches, NEW f \in {"aging", "critical", "expired"}, Marked(b, f)
          PROVE  Older
      <3>1. row[b] \in Row /\ Stored([row[b] EXCEPT !.freshness = f]).freshness = f
        BY <2>1 DEF Stored, Row
      <3>2. Rank[f] \in 0..4
        BY DEF Rank
      <3>3. QED
        BY <2>1, <2>5, <3>1, <3>2 DEF Marked
    <2>6. QED
      BY <2>2, <2>3, <2>4, <2>5 DEF RowStep
  <1>2. QED
    BY <1>1, Invariance, PTL DEF Spec, FreshnessNeverReverts

(* Nothing is taken from an expired batch, whenever the check was made.    *)
THEOREM ExpiredIsFinal == Spec => NoDrawAfterExpired
  <1> DEFINE Frozen == \A b \in Batches : row[b].freshness = "expired" => row'[b] = row[b]
  <1>1. IInv /\ [Next]_vars => [Frozen]_vars
    <2> SUFFICES ASSUME IInv, RowStep PROVE Frozen
      BY RowSteps
    <2>1. row \in [Batches -> Row]
      BY DEF IInv, TypeOK
    <2>2. ASSUME NEW b \in Batches, NEW q \in Received, Inserted(b, q) PROVE Frozen
      BY <2>1, <2>2 DEF Inserted, NoRow
    <2>3. ASSUME NEW b \in Batches, NEW q \in Quantities, Taken(b, q) PROVE Frozen
      BY <2>1, <2>3 DEF Taken, Usable
    <2>4. ASSUME NEW b \in Batches, NEW f \in {"aging", "critical", "expired"}, Marked(b, f)
          PROVE  Frozen
      BY <2>1, <2>4 DEF Marked, Usable
    <2>5. QED
      BY <2>2, <2>3, <2>4 DEF RowStep
  <1>2. QED
    BY <1>1, Invariance, PTL DEF Spec, NoDrawAfterExpired

(* A request that is done stays done, and what it asked for never changes. *)
LEMMA DoneStays ==
  IInv /\ [Next]_vars =>
    UNCHANGED cmd /\ \A r \in Requests : pc[r] = "done" => pc'[r] = "done"
  <1> DEFINE Stays == \A r \in Requests : pc[r] = "done" => pc'[r] = "done"
  <1> SUFFICES ASSUME IInv, [Next]_vars PROVE UNCHANGED cmd /\ Stays
    OBVIOUS
  <1>1. ASSUME NEW r \in Requests, Request(r) PROVE UNCHANGED cmd /\ Stays
    <2>1. /\ pc[r] \in {"new", "loaded", "updated", "published"}
          /\ \E to \in {"loaded", "updated", "published", "done", "failed"} : pc' = [pc EXCEPT ![r] = to]
      BY <1>1 DEF Request, Load, Refuse, UpdateTx, Conflict, Publish, PublishFails, CommitConsume,
         CommitWriteoff, Abort
    <2>2. UNCHANGED cmd
      BY <1>1 DEF Request, Load, Refuse, UpdateTx, Conflict, Publish, PublishFails, CommitConsume,
         CommitWriteoff, Abort
    <2>3. Stays
      BY <2>1 DEF IInv, TypeOK
    <2>4. QED
      BY <2>2, <2>3
  <1>2. ASSUME NEW s \in Sweepers, Sweep(s) PROVE UNCHANGED <<cmd, pc>>
    BY <1>2 DEF Sweep, SweepStart, SweepFail, SweepSkip, SweepSave
  <1>3. ASSUME NEW b \in Batches, Receive(b) PROVE UNCHANGED <<cmd, pc>>
    BY <1>3 DEF Receive
  <1>4. CASE Tick \/ UNCHANGED vars
    BY <1>4 DEF Tick, vars
  <1>5. QED
    BY <1>1, <1>2, <1>3, <1>4 DEF Next

(* What a negative command has added to a batch is never struck out.       *)
LEMMA RefillsGrow == IInv /\ [Next]_vars => \A b \in Batches : Refills(b) \subseteq Refills(b)'
  BY DoneStays DEF Refills

(* Stock is never below zero, and above what was received only by the      *)
(* commit of a command with a negative quantity.                           *)
StockBounds ==
  \A b \in Batches : /\ row[b].remaining >= 0
                     /\ row[b].remaining <= received[b] \/ Refills(b) # {}

TotalsGrow == \A b \in Batches : (drawn[b] >= 0 /\ wasted[b] >= 0) \/ Refills(b) # {}

(* For quantities of any sign: only a committed command with a negative    *)
(* one takes stock above what was received, no race, rollback or pass.     *)
THEOREM WithinBounds == Spec => []StockBounds
  <1>1. Init => TotalsGrow
    <2> SUFFICES ASSUME Init, NEW b \in Batches PROVE drawn[b] >= 0 /\ wasted[b] >= 0
      BY DEF TotalsGrow
    <2>1. drawn[b] = 0 /\ wasted[b] = 0
      BY DEF Init
    <2>2. QED
      BY <2>1
  <1>2. IInv /\ TotalsGrow /\ [Next]_vars => TotalsGrow'
    <2> SUFFICES ASSUME IInv, TotalsGrow, [Next]_vars, NEW b \in Batches
                 PROVE  (drawn'[b] >= 0 /\ wasted'[b] >= 0) \/ Refills(b)' # {}
      BY DEF TotalsGrow
    <2>1. RowStep /\ Refills(b) \subseteq Refills(b)'
      BY RowSteps, RefillsGrow
    <2>2. /\ drawn \in [Batches -> Int] /\ wasted \in [Batches -> Int]
          /\ (drawn[b] >= 0 /\ wasted[b] >= 0) \/ Refills(b) # {}
      BY DEF IInv, TypeOK, TotalsGrow
    <2>3. ASSUME NEW c \in Batches, NEW q \in Quantities, Taken(c, q)
          PROVE  (drawn'[b] >= 0 /\ wasted'[b] >= 0) \/ Refills(b)' # {}
      <3>1. q \in Int
        BY InventoryAssumption
      <3>2. c = b /\ q < 0 => Refills(b)' # {}
        BY <2>3 DEF Taken, Refills, IInv, TypeOK
      <3>3. c # b \/ q >= 0 => drawn'[b] >= drawn[b] /\ wasted'[b] >= wasted[b]
        BY <2>2, <2>3, <3>1 DEF Taken
      <3>4. drawn'[b] \in Int /\ wasted'[b] \in Int
        BY <2>2, <2>3, <3>1 DEF Taken
      <3>5. QED
        BY <2>1, <2>2, <3>1, <3>2, <3>3, <3>4
    <2>4. CASE UNCHANGED <<drawn, wasted>>
      BY <2>1, <2>2, <2>4
    <2>5. QED
      BY <2>1, <2>3, <2>4 DEF RowStep, Inserted, Marked
  <1>3. IInv /\ TotalsGrow => StockBounds
    <2> SUFFICES ASSUME IInv, TotalsGrow, NEW b \in Batches
                 PROVE  /\ row[b].remaining >= 0
                        /\ row[b].remaining <= received[b] \/ Refills(b) # {}
      BY DEF StockBounds
    <2>1. /\ row[b].remaining \in Nat /\ received[b] \in Nat
          /\ drawn[b] \in Int /\ wasted[b] \in Int
      BY DEF IInv, TypeOK, Row
    <2>2. row[b].remaining + drawn[b] + wasted[b] = received[b]
      BY DEF IInv, Ledger
    <2>3. QED
      BY <2>1, <2>2 DEF TotalsGrow
  <1>4. QED
    BY <1>1, <1>2, <1>3, Invariance, PTL DEF Spec

-----------------------------------------------------------------------------
(* Implementation of AtomicStock.                                          *)
stock == [b \in Batches |-> row[b].remaining]
state == [b \in Batches |-> row[b].freshness]
taken == [b \in Batches |-> drawn[b] + wasted[b]]

(* Each of these ways is a step of AtomicStock.                            *)
LEMMA RowStepIsAtomic ==
  IInv /\ RowStep => [Stock!Next]_<<stock, state, taken>>
  <1> SUFFICES ASSUME IInv, RowStep PROVE [Stock!Next]_<<stock, state, taken>>
    OBVIOUS
  <1> USE DEF stock, state, taken
  <1>1. row \in [Batches -> Row] /\ drawn \in [Batches -> Int] /\ wasted \in [Batches -> Int]
    BY DEF IInv, TypeOK
  <1>2. CASE UNCHANGED <<row, drawn, wasted>>
    BY <1>2
  <1>3. ASSUME NEW b \in Batches, NEW q \in Received, Inserted(b, q) PROVE Stock!Next
    <2>1. state[b] = "absent" /\ UNCHANGED taken
      BY <1>3 DEF Inserted, NoRow
    <2> DEFINE y == [remaining |-> q, freshness |-> "fresh", version |-> 1]
    <2>2. row' = [row EXCEPT ![b] = y] /\ y.remaining = q /\ y.freshness = "fresh"
      BY <1>3 DEF Inserted
    <2> HIDE DEF y
    <2>3. stock' = [stock EXCEPT ![b] = q] /\ state' = [state EXCEPT ![b] = "fresh"]
      BY <1>1, <2>2
    <2>4. Stock!Receive(b, q)
      BY <2>1, <2>3 DEF Stock!Receive
    <2>5. QED
      BY <2>4 DEF Stock!Next
  <1>4. ASSUME NEW b \in Batches, NEW q \in Quantities, Taken(b, q) PROVE Stock!Next
    <2>1. PICK y \in Row : /\ row' = [row EXCEPT ![b] = y]
                           /\ y.remaining = row[b].remaining - q
                           /\ y.freshness = row[b].freshness
      BY <1>4 DEF Taken
    <2>2. stock' = [stock EXCEPT ![b] = @ - q] /\ UNCHANGED state
      BY <1>1, <2>1
    <2>3. q \in Int
      BY InventoryAssumption
    <2>4. taken' = [taken EXCEPT ![b] = @ + q]
      <3>1. \A c \in Batches : drawn'[c] + wasted'[c] =
              IF c = b THEN drawn[c] + wasted[c] + q ELSE drawn[c] + wasted[c]
        BY <1>1, <1>4, <2>3 DEF Taken
      <3>2. QED
        BY <3>1
    <2>5. Stock!Take(b, q)
      BY <1>4, <2>2, <2>4 DEF Taken, Usable, Stock!Take
    <2>6. QED
      BY <2>5 DEF Stock!Next
  <1>5. ASSUME NEW b \in Batches, NEW f \in {"aging", "critical", "expired"}, Marked(b, f)
        PROVE  Stock!Next
    <2> DEFINE y == Stored([row[b] EXCEPT !.freshness = f])
    <2>1. y.remaining = row[b].remaining /\ y.freshness = f
      BY <1>1 DEF Stored, Row
    <2> HIDE DEF y
    <2>2. row' = [row EXCEPT ![b] = y]
      BY <1>5 DEF Marked, y
    <2>3. state' = [state EXCEPT ![b] = f] /\ UNCHANGED <<stock, taken>>
      BY <1>1, <1>5, <2>1, <2>2 DEF Marked
    <2>4. Stock!Age(b, f)
      BY <1>5, <2>3 DEF Marked, Usable, Stock!Age, Stock!Rank, Rank
    <2>5. QED
      BY <2>4 DEF Stock!Next
  <1>6. QED
    BY <1>2, <1>3, <1>4, <1>5 DEF RowStep

(* Requests and passes working from copies implement stock that changes in *)
(* single steps.                                                           *)
THEOREM Atomicity == Spec => AtomicStockSpec
  <1>1. Init => Stock!Init
    BY DEF Init, NoRow, Stock!Init
  <1>2. IInv /\ [Next]_vars =>
          [Stock!Next]_<<[b \in Batches |-> row[b].remaining],
                         [b \in Batches |-> row[b].freshness],
                         [b \in Batches |-> drawn[b] + wasted[b]]>>
    BY RowSteps, RowStepIsAtomic DEF stock, state, taken
  <1>3. QED
    BY <1>1, <1>2, Invariance, PTL DEF Spec, AtomicStockSpec, Stock!Spec

-----------------------------------------------------------------------------
(* What the events of write-offs say.  Only four steps have to do with it. *)
LEMMA AnnouncingSteps ==
  ASSUME IInv, [Next]_vars
  PROVE  \/ \E r \in Requests : Publish(r) \/ PublishFails(r) \/ CommitWriteoff(r) \/ Abort(r)
         \/ /\ UNCHANGED <<cmd, announced, wasted>>
            /\ \A r \in Requests : pc'[r] = "published" <=> pc[r] = "published"
  <1> DEFINE Same == /\ UNCHANGED <<cmd, announced, wasted>>
                     /\ \A r \in Requests : pc'[r] = "published" <=> pc[r] = "published"
  <1>1. ASSUME NEW b \in Batches, Receive(b) PROVE Same
    BY <1>1 DEF Receive
  <1>2. ASSUME NEW r \in Requests,
               Load(r) \/ Refuse(r) \/ UpdateTx(r) \/ Conflict(r) \/ CommitConsume(r)
        PROVE  Same
    BY <1>2 DEF Load, Refuse, UpdateTx, Conflict, CommitConsume, history, IInv, TypeOK
  <1>3. ASSUME NEW s \in Sweepers, Sweep(s) PROVE Same
    BY <1>3 DEF Sweep, SweepStart, SweepFail, SweepSkip, SweepSave, history
  <1>4. CASE Tick \/ UNCHANGED vars
    BY <1>4 DEF Tick, history, vars
  <1>5. QED
    BY <1>1, <1>2, <1>3, <1>4 DEF Next, Request

(* A request that publishes or commits a write-off is the only one that    *)
(* has the batch locked.                                                   *)
LEMMA WriteoffStep ==
  ASSUME IInv, NEW r \in Requests, Publish(r) \/ CommitWriteoff(r)
  PROVE  LET b == cmd[r].batch
         IN  /\ b \in Batches /\ cmd[r].qty \in Int
             /\ announced[b] \in Int /\ wasted[b] \in Int
             /\ UNCHANGED cmd
             /\ \A q \in Requests \ {r} :
                  /\ pc'[q] = pc[q]
                  /\ pc[q] = "published" => cmd[q].batch # b
             /\ \A c \in Batches \ {b} : announced'[c] = announced[c] /\ wasted'[c] = wasted[c]
             /\ Publish(r) => /\ pc[r] = "updated" /\ pc'[r] = "published"
                              /\ announced'[b] = announced[b] + cmd[r].qty /\ wasted'[b] = wasted[b]
             /\ CommitWriteoff(r) => /\ pc[r] = "published" /\ pc'[r] = "done"
                                     /\ announced'[b] = announced[b]
                                     /\ wasted'[b] = wasted[b] + cmd[r].qty
  <1> DEFINE b == cmd[r].batch
  <1>1. /\ b \in Batches /\ cmd[r].qty \in Int /\ announced[b] \in Int /\ wasted[b] \in Int
    BY InventoryAssumption DEF IInv, TypeOK, Command
  <1>2. Holding(r)
    BY DEF Publish, CommitWriteoff, Holding
  <1>3. \A q \in Requests \ {r} : pc[q] = "published" => cmd[q].batch # b
    BY <1>2 DEF IInv, LockInv, Holding
  <1>4. \A q \in Requests \ {r} : pc'[q] = pc[q]
    BY DEF Publish, CommitWriteoff, IInv, TypeOK
  <1>5. UNCHANGED cmd /\ \A c \in Batches \ {b} : announced'[c] = announced[c] /\ wasted'[c] = wasted[c]
    BY DEF Publish, CommitWriteoff, IInv, TypeOK
  <1>6. Publish(r) => /\ pc[r] = "updated" /\ pc'[r] = "published"
                      /\ announced'[b] = announced[b] + cmd[r].qty /\ wasted'[b] = wasted[b]
    BY <1>1 DEF Publish, IInv, TypeOK
  <1>7. CommitWriteoff(r) => /\ pc[r] = "published" /\ pc'[r] = "done"
                             /\ announced'[b] = announced[b]
                             /\ wasted'[b] = wasted[b] + cmd[r].qty
    BY <1>1 DEF CommitWriteoff, IInv, TypeOK
  <1>8. QED
    BY <1>1, <1>3, <1>4, <1>5, <1>6, <1>7

(* What is announced and not yet committed.                                *)
OnlyUnderWay ==
  \A b \in Batches :
    (\A r \in Requests : pc[r] = "published" => cmd[r].batch # b) => announced[b] = wasted[b]

(* Without errors and rollbacks the events of write-offs say exactly what  *)
(* was written off, but for the request between its Publish and its        *)
(* commit: that is all that publishing outside of the transaction spoils.  *)
THEOREM AnnouncedIsCommitted ==
  ASSUME Faults = {}
  PROVE  Spec => []OnlyUnderWay
  <1> DEFINE Ahead == \A r \in Requests : pc[r] = "published" =>
                        announced[cmd[r].batch] = wasted[cmd[r].batch] + cmd[r].qty
             Inv == OnlyUnderWay /\ Ahead
  <1>1. Init => Inv
    BY DEF Init, OnlyUnderWay
  <1>2. IInv /\ Inv /\ [Next]_vars => Inv'
    <2> SUFFICES ASSUME IInv, Inv, [Next]_vars PROVE Inv'
      OBVIOUS
    <2> USE DEF OnlyUnderWay
    <2>1. CASE /\ UNCHANGED <<cmd, announced, wasted>>
               /\ \A r \in Requests : pc'[r] = "published" <=> pc[r] = "published"
      BY <2>1
    <2>2. ASSUME NEW r \in Requests, Publish(r) \/ CommitWriteoff(r) PROVE Inv'
      <3> DEFINE b == cmd[r].batch
      <3>1. Publish(r) => announced[b] = wasted[b]
        BY WriteoffStep
      <3>2. CommitWriteoff(r) => announced[b] = wasted[b] + cmd[r].qty
        BY WriteoffStep
      <3>3. /\ pc'[r] = "published" => announced'[b] = wasted'[b] + cmd[r].qty
            /\ pc'[r] # "published" => announced'[b] = wasted'[b]
        BY <2>2, <3>1, <3>2, WriteoffStep
      <3>4. ASSUME NEW c \in Batches, \A q \in Requests : pc'[q] = "published" => cmd'[q].batch # c
            PROVE  announced'[c] = wasted'[c]
        <4>1. CASE c = b
          BY <2>2, <3>3, <3>4, <4>1, WriteoffStep
        <4>2. CASE c # b
          <5>1. announced[c] = wasted[c]
            BY <2>2, <3>4, <4>2, WriteoffStep
          <5>2. QED
            BY <2>2, <4>2, <5>1, WriteoffStep
        <4>3. QED
          BY <4>1, <4>2
      <3>5. ASSUME NEW q \in Requests, pc'[q] = "published"
            PROVE  announced'[cmd'[q].batch] = wasted'[cmd'[q].batch] + cmd'[q].qty
        <4>1. CASE q = r
          BY <2>2, <3>3, <3>5, <4>1, WriteoffStep
        <4>2. CASE q # r
          <5>1. cmd[q].batch \in Batches
            BY DEF IInv, TypeOK, Command
          <5>2. QED
            BY <2>2, <3>5, <4>2, <5>1, WriteoffStep
        <4>3. QED
          BY <4>1, <4>2
      <3>6. QED
        BY <3>4, <3>5
    <2>3. ASSUME NEW r \in Requests, PublishFails(r) \/ Abort(r) PROVE FALSE
      BY <2>3 DEF PublishFails, Abort
    <2>4. QED
      BY <2>1, <2>2, <2>3, AnnouncingSteps
  <1>3. QED
    BY <1>1, <1>2, Invariance, PTL DEF Spec

-----------------------------------------------------------------------------
(* VersionsAreEarned: a batch that n requests draw from has at most n + 4  *)
(* versions, and is where requests and passes conflict at most that often. *)

(* The numbers the comparison is about.                                    *)
LEMMA EarnedTypes ==
  ASSUME TypeOK, NEW b \in Batches, IsFiniteSet(Committed(b))
  PROVE  /\ row[b].version \in Nat /\ Rank[row[b].freshness] \in 0..4
         /\ Cardinality(Committed(b)) \in Nat
  <1>1. row[b] \in Row
    BY DEF TypeOK
  <1>2. row[b].version \in Nat /\ row[b].freshness \in Freshness
    BY <1>1 DEF Row
  <1>3. Rank[row[b].freshness] \in 0..4
    BY <1>2 DEF Rank, Freshness
  <1>4. QED
    BY <1>2, <1>3, FS_CardinalityType

(* A commit is paid for by its request.                                    *)
LEMMA CommitsEarn ==
  ASSUME IInv, VersionsAreEarned, NEW r \in Requests, CommitConsume(r) \/ CommitWriteoff(r)
  PROVE  VersionsAreEarned'
  <1> PICK b \in Batches : b = cmd[r].batch
    BY DEF IInv, TypeOK, Command
  <1>1. /\ row' = [row EXCEPT ![b] = Stored(copy[r])] /\ pc' = [pc EXCEPT ![r] = "done"]
        /\ Holding(r) /\ UNCHANGED <<received, cmd, copy, snap, asOf, now>>
    BY DEF CommitConsume, CommitWriteoff, Holding, passes
  <1>2. CopyFits(r) /\ Stored(copy[r]).freshness = row[b].freshness
    BY <1>1, CommitWrites
  <1>3. copy[r] \in Row /\ copy[r].version = row[b].version
    BY <1>1 DEF IInv, TypeOK, Command, LockInv
  <1>4. Stored(copy[r]).version = row[b].version + 1
    BY <1>3 DEF Stored, Row
  <1>5. pc[r] # "done"
    BY <1>1 DEF Holding
  <1>6. \A c \in Batches : row'[c] = IF c = b THEN Stored(copy[r]) ELSE row[c]
    BY <1>1 DEF IInv, TypeOK
  <1>7. \A q \in Requests : pc'[q] = IF q = r THEN "done" ELSE pc[q]
    BY <1>1 DEF IInv, TypeOK
  <1>8. Committed(b)' = Committed(b) \union {r} /\ r \notin Committed(b)
    BY <1>1, <1>5, <1>7 DEF Committed
  <1>9. \A c \in Batches \ {b} : Committed(c)' = Committed(c)
    BY <1>1, <1>5, <1>7 DEF Committed
  <1>10. SUFFICES ASSUME NEW c \in Batches
                  PROVE  /\ IsFiniteSet(Committed(c)')
                         /\ row'[c].version <= Rank[row'[c].freshness] + Cardinality(Committed(c)')
    BY DEF VersionsAreEarned
  <1>11. IsFiniteSet(Committed(c)) /\ row[c].version <= Rank[row[c].freshness] + Cardinality(Committed(c))
    BY DEF VersionsAreEarned
  <1>12. CASE c # b
    BY <1>6, <1>9, <1>11, <1>12
  <1>13. CASE c = b
    <2>1. /\ IsFiniteSet(Committed(b)')
          /\ Cardinality(Committed(b)') = Cardinality(Committed(b)) + 1
      BY <1>8, <1>11, <1>13, FS_AddElement
    <2>2. row'[b].version = row[b].version + 1 /\ row'[b].freshness = row[b].freshness
      BY <1>2, <1>3, <1>4, <1>6
    <2>3. /\ row[b].version \in Nat /\ Rank[row[b].freshness] \in 0..4
          /\ Cardinality(Committed(b)) \in Nat
      BY <1>11, <1>13, EarnedTypes DEF IInv
    <2>4. QED
      BY <1>11, <1>13, <2>1, <2>2, <2>3
  <1>14. QED
    BY <1>12, <1>13

(* A save of a pass is paid for by the mark it makes.                      *)
LEMMA SavesEarn ==
  ASSUME IInv, VersionsAreEarned, NEW s \in Sweepers, NEW b \in Batches, SweepSave(s, b)
  PROVE  VersionsAreEarned'
  <1>1. PICK f \in {"aging", "critical", "expired"} :
          /\ Rank[row[b].freshness] < Rank[f]
          /\ row' = [row EXCEPT ![b] = Stored([row[b] EXCEPT !.freshness = f])]
    BY SweepSaveWrites
  <1> DEFINE y == Stored([row[b] EXCEPT !.freshness = f])
  <1>2. row[b] \in Row
    BY DEF IInv, TypeOK
  <1>3. y.version = row[b].version + 1 /\ y.freshness = f
    BY <1>2 DEF Stored, Row
  <1> HIDE DEF y
  <1>4. \A c \in Batches : row'[c] = IF c = b THEN y ELSE row[c]
    BY <1>1 DEF IInv, TypeOK, y
  <1>5. \A c \in Batches : Committed(c)' = Committed(c)
    BY DEF SweepSave, Committed
  <1>6. SUFFICES ASSUME NEW c \in Batches
                 PROVE  /\ IsFiniteSet(Committed(c)')
                        /\ row'[c].version <= Rank[row'[c].freshness] + Cardinality(Committed(c)')
    BY DEF VersionsAreEarned
  <1>7. IsFiniteSet(Committed(c)) /\ row[c].version <= Rank[row[c].freshness] + Cardinality(Committed(c))
    BY DEF VersionsAreEarned
  <1>8. CASE c # b
    BY <1>4, <1>5, <1>7, <1>8
  <1>9. CASE c = b
    <2>1. /\ row[b].version \in Nat /\ Rank[row[b].freshness] \in 0..4
          /\ Cardinality(Committed(b)) \in Nat
      BY <1>7, <1>9, EarnedTypes DEF IInv
    <2>2. Rank[f] \in 0..4
      BY DEF Rank
    <2>3. row'[b].version = row[b].version + 1 /\ row'[b].freshness = f
      BY <1>3, <1>4
    <2>4. QED
      BY <1>1, <1>5, <1>7, <1>9, <2>1, <2>2, <2>3
  <1>10. QED
    BY <1>8, <1>9

(* A new row has version 1 and the mark 'fresh'.                           *)
LEMMA ReceiptsEarn ==
  ASSUME IInv, VersionsAreEarned, NEW b \in Batches, Receive(b)
  PROVE  VersionsAreEarned'
  <1>1. \A c \in Batches : Committed(c)' = Committed(c)
    BY DEF Receive, Committed
  <1>2. \A c \in Batches : c # b => row'[c] = row[c]
    BY DEF Receive, IInv, TypeOK
  <1>3. row'[b].version = 1 /\ row'[b].freshness = "fresh"
    BY DEF Receive, IInv, TypeOK
  <1>4. SUFFICES ASSUME NEW c \in Batches
                 PROVE  /\ IsFiniteSet(Committed(c)')
                        /\ row'[c].version <= Rank[row'[c].freshness] + Cardinality(Committed(c)')
    BY DEF VersionsAreEarned
  <1>5. IsFiniteSet(Committed(c)) /\ row[c].version <= Rank[row[c].freshness] + Cardinality(Committed(c))
    BY DEF VersionsAreEarned
  <1>6. CASE c # b
    BY <1>1, <1>2, <1>5, <1>6
  <1>7. CASE c = b
    <2>1. Cardinality(Committed(b)) \in Nat /\ Rank["fresh"] = 1
      BY <1>5, <1>7, FS_CardinalityType DEF Rank
    <2>2. QED
      BY <1>1, <1>3, <1>5, <1>7, <2>1
  <1>8. QED
    BY <1>6, <1>7

(* All other steps write no row and commit nothing.                        *)
LEMMA OthersEarnNothing ==
  ASSUME IInv, VersionsAreEarned,
         \/ \E r \in Requests :
              Load(r) \/ Refuse(r) \/ UpdateTx(r) \/ Conflict(r) \/ Publish(r) \/ PublishFails(r) \/ Abort(r)
         \/ \E s \in Sweepers :
              SweepStart(s) \/ SweepFail(s) \/ \E b \in Batches : SweepSkip(s, b)
         \/ Tick
         \/ UNCHANGED vars
  PROVE  VersionsAreEarned'
  <1>1. UNCHANGED <<row, cmd>>
    BY DEF Load, Refuse, UpdateTx, Conflict, Publish, PublishFails, Abort, SweepStart, SweepFail,
       SweepSkip, Tick, vars
  <1>2. \A q \in Requests : pc'[q] = "done" <=> pc[q] = "done"
    <2>1. ASSUME NEW r \in Requests,
                 \/ Load(r) \/ Refuse(r) \/ UpdateTx(r) \/ Conflict(r) \/ Publish(r) \/ PublishFails(r)
                 \/ Abort(r)
          PROVE  /\ pc[r] \in {"new", "loaded", "updated", "published"}
                 /\ \E to \in {"loaded", "updated", "published", "failed"} : pc' = [pc EXCEPT ![r] = to]
      BY <2>1 DEF Load, Refuse, UpdateTx, Conflict, Publish, PublishFails, Abort
    <2>2. ASSUME NEW r \in Requests, NEW to \in {"loaded", "updated", "published", "failed"},
                 pc[r] \in {"new", "loaded", "updated", "published"}, pc' = [pc EXCEPT ![r] = to]
          PROVE  \A q \in Requests : pc'[q] = "done" <=> pc[q] = "done"
      BY <2>2 DEF IInv, TypeOK
    <2>3. CASE UNCHANGED pc
      BY <2>3
    <2>4. CASE \E r \in Requests : \/ Load(r) \/ Refuse(r) \/ UpdateTx(r) \/ Conflict(r) \/ Publish(r)
                                 \/ PublishFails(r) \/ Abort(r)
      BY <2>1, <2>2, <2>4
    <2>5. CASE \/ \E s \in Sweepers :
                    SweepStart(s) \/ SweepFail(s) \/ \E b \in Batches : SweepSkip(s, b)
               \/ Tick
               \/ UNCHANGED vars
      <3>1. UNCHANGED pc
        BY <2>5 DEF SweepStart, SweepFail, SweepSkip, Tick, vars
      <3>2. QED
        BY <2>3, <3>1
    <2>6. QED
      BY <2>4, <2>5
  <1>3. \A b \in Batches : Committed(b)' = Committed(b)
    BY <1>1, <1>2 DEF Committed
  <1>4. QED
    BY <1>1, <1>3 DEF VersionsAreEarned

(* No write is for nothing, however many passes and requests there are.    *)
THEOREM NoEmptyWrites == Spec => []VersionsAreEarned
  <1>1. Init => VersionsAreEarned
    <2> SUFFICES ASSUME Init, NEW b \in Batches
                 PROVE  /\ IsFiniteSet(Committed(b))
                        /\ row[b].version <= Rank[row[b].freshness] + Cardinality(Committed(b))
      BY DEF VersionsAreEarned
    <2>1. Committed(b) = {}
      BY DEF Init, Committed
    <2>2. IsFiniteSet(Committed(b)) /\ Cardinality(Committed(b)) = 0
      BY <2>1, FS_EmptySet
    <2>3. row[b].version = 0 /\ Rank[row[b].freshness] = 0
      BY DEF Init, NoRow, Rank
    <2>4. QED
      BY <2>2, <2>3
  <1>2. IInv /\ VersionsAreEarned /\ [Next]_vars => VersionsAreEarned'
    BY ReceiptsEarn, CommitsEarn, SavesEarn, OthersEarnNothing DEF Next, Request, Sweep
  <1>3. QED
    BY <1>1, <1>2, Invariance, PTL DEF Spec

-----------------------------------------------------------------------------
(* A page never understates what is left later, and a batch that has left  *)
(* the catalog stays away, until a command with a negative quantity        *)
(* commits.                                                                *)
THEOREM NothingReturns == Spec => OnlyNegativesRefill
  <1> DEFINE Caused ==
        \A b \in Batches :
          /\ row[b].freshness # "absent"
          /\ (b \in Offered' /\ b \notin Offered) \/ row'[b].remaining > row[b].remaining
          => Refills(b)' \ Refills(b) # {}
  <1>1. IInv /\ IInv' /\ [Next]_vars => [Caused]_vars
    <2> SUFFICES ASSUME IInv, IInv', RowStep, NEW b \in Batches, row[b].freshness # "absent",
                        (b \in Offered' /\ b \notin Offered) \/ row'[b].remaining > row[b].remaining
                 PROVE  Refills(b)' \ Refills(b) # {}
      BY RowSteps
    <2>1. /\ row \in [Batches -> Row] /\ row[b].remaining \in Nat /\ row'[b].remaining \in Nat
          /\ row[b].freshness \in Freshness
      BY DEF IInv, TypeOK, Row
    <2> DEFINE Kept == /\ row'[b].remaining <= row[b].remaining
                       /\ row[b].freshness = "expired" => row'[b].freshness = "expired"
    <2>2. ~Kept
      <3>1. ASSUME Kept, b \in Offered' PROVE b \in Offered
        <4>1. row'[b].freshness # "expired" /\ row'[b].remaining > 0
          BY <3>1 DEF Offered
        <4>2. row[b].freshness # "expired" /\ row[b].remaining > 0
          BY <2>1, <3>1, <4>1
        <4>3. QED
          BY <4>2 DEF Offered, WrittenOff
      <3>2. QED
        BY <2>1, <3>1
    <2>3. ASSUME NEW c \in Batches, NEW q \in Received, Inserted(c, q) PROVE Kept
      BY <2>1, <2>3 DEF Inserted, NoRow
    <2>4. ASSUME NEW c \in Batches, NEW q \in Quantities, Taken(c, q)
          PROVE  Kept \/ Refills(b)' \ Refills(b) # {}
      <3>1. PICK y \in Row : /\ row' = [row EXCEPT ![c] = y]
                             /\ y.remaining = row[c].remaining - q
                             /\ y.freshness = row[c].freshness
        BY <2>4 DEF Taken
      <3>2. q \in Int
        BY InventoryAssumption
      <3>3. CASE c = b /\ q < 0
        <4>1. PICK r \in Requests : /\ cmd[r].batch = c /\ cmd[r].qty = q /\ UNCHANGED cmd
                                    /\ pc[r] # "done" /\ pc' = [pc EXCEPT ![r] = "done"]
          BY <2>4 DEF Taken
        <4>2. pc'[r] = "done"
          BY <4>1 DEF IInv, TypeOK
        <4>3. r \in Refills(b)' /\ r \notin Refills(b)
          BY <3>3, <4>1, <4>2 DEF Refills
        <4>4. QED
          BY <4>3
      <3>4. CASE c # b \/ q >= 0
        BY <2>1, <3>1, <3>2, <3>4
      <3>5. QED
        BY <3>2, <3>3, <3>4
    <2>5. ASSUME NEW c \in Batches, NEW f \in {"aging", "critical", "expired"}, Marked(c, f)
          PROVE  Kept
      <3>1. row[c] \in Row /\ Usable(row[c])
        BY <2>1, <2>5 DEF Marked
      <3> DEFINE y == Stored([row[c] EXCEPT !.freshness = f])
      <3>2. y.remaining = row[c].remaining
        BY <3>1 DEF Stored, Row
      <3> HIDE DEF y
      <3>3. row' = [row EXCEPT ![c] = y]
        BY <2>5 DEF Marked, y
      <3>4. QED
        BY <2>1, <3>1, <3>2, <3>3 DEF Usable
    <2>6. ASSUME UNCHANGED <<row, drawn, wasted>> PROVE Kept
      BY <2>1, <2>6
    <2>7. QED
      BY <2>2, <2>3, <2>4, <2>5, <2>6 DEF RowStep
  <1>2. QED
    BY <1>1, Invariance, PTL DEF Spec, OnlyNegativesRefill

(* A refill is never struck out again.                                     *)
RefillsStand == [][\A b \in Batches : Refills(b) \subseteq Refills(b)']_vars

(* What is done stays done, and its command what it was.                   *)
THEOREM RefillsAreFinal == Spec => RefillsStand
  <1>1. IInv /\ [Next]_vars => [\A b \in Batches : Refills(b) \subseteq Refills(b)']_vars
    BY RefillsGrow
  <1>2. QED
    BY <1>1, Invariance, PTL DEF Spec, RefillsStand
=============================================================================
