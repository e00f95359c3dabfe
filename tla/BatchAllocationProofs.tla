------------------------ MODULE BatchAllocationProofs ------------------------
(***************************************************************************)
(* Saves change nothing their clients did not mean to change or had not    *)
(* missed in their own reads, and torn reads are never saved, for any      *)
(* clients, orders and quantities, with reads that may lose any rows.  The *)
(* argument: a version is never used for two states of the allocations, so *)
(* a client whose version is the current one has read the current rows, as *)
(* many of them as it has read at all.                                     *)
(***************************************************************************)
EXTENDS BatchAllocation, FiniteSetTheorems, TLAPS

(* No client has read a version that does not exist yet.                   *)
SeenInv == \A c \in Clients : seen[c] <= version

LockInv ==
  \A c \in Clients : pc[c] = "updated" =>
    /\ seen[c] = version
    /\ \A d \in Clients \ {c} : pc[d] # "updated"

(* Until a client has read the rows it has changed nothing.                *)
UntouchedInv == \A c \in Clients : pc[c] \in {"new", "half"} => changed[c] = {}

IInv == TypeOK /\ SeenInv /\ LockInv /\ UntouchedInv /\ NoTornSave

-----------------------------------------------------------------------------
(* The first save stores what the aggregate holds.                         *)
LEMMA InitIInv == Init => IInv
  <1> SUFFICES ASSUME Init PROVE IInv
    OBVIOUS
  <1>1. TypeOK
    BY DEF Init, TypeOK, Amounts
  <1>2. SeenInv /\ LockInv /\ UntouchedInv /\ NoTornSave
    BY DEF Init, SeenInv, LockInv, UntouchedInv, NoTornSave
  <1>3. QED
    BY <1>1, <1>2 DEF IInv

(* Nothing the invariant speaks of is outside vars.                        *)
LEMMA StutterIInv == ASSUME IInv, UNCHANGED vars PROVE IInv'
  BY DEF vars, IInv, TypeOK, SeenInv, LockInv, UntouchedInv, NoTornSave

(* The version read is the current one.                                    *)
LEMMA ReadBatchIInv ==
  ASSUME IInv, NEW c \in Clients, ReadBatch(c)
  PROVE  IInv'
  <1>1. /\ pc[c] = "new" /\ pc' = [pc EXCEPT ![c] = "half"]
        /\ seen' = [seen EXCEPT ![c] = version]
        /\ UNCHANGED <<version, allocs, copy, changed, lost>>
    BY DEF ReadBatch, table
  <1>2. \A d \in Clients : /\ pc'[d] = IF d = c THEN "half" ELSE pc[d]
                           /\ seen'[d] = IF d = c THEN version ELSE seen[d]
    BY <1>1 DEF IInv, TypeOK
  <1>3. version \in Nat
    BY DEF IInv, TypeOK
  <1>4. TypeOK'
    BY <1>1 DEF IInv, TypeOK
  <1>5. SeenInv' /\ LockInv' /\ UntouchedInv'
    BY <1>1, <1>2, <1>3 DEF IInv, SeenInv, LockInv, UntouchedInv
  <1>6. NoTornSave'
    BY <1>1, <1>2 DEF IInv, NoTornSave
  <1>7. QED
    BY <1>4, <1>5, <1>6 DEF IInv

(* If the version read is still current, the rows read are current ones.   *)
LEMMA ReadAllocationsIInv ==
  ASSUME IInv, NEW c \in Clients, ReadAllocations(c)
  PROVE  IInv'
  <1>1. PICK gone \in SUBSET {o \in Orders : allocs[o] # 0} :
          /\ copy' = [copy EXCEPT ![c] = [o \in Orders |-> IF o \in gone THEN 0 ELSE allocs[o]]]
          /\ lost' = [lost EXCEPT ![c] = gone]
    BY DEF ReadAllocations
  <1>2. /\ pc[c] = "half" /\ pc' = [pc EXCEPT ![c] = "ready"]
        /\ UNCHANGED <<version, allocs, seen, changed>>
    BY DEF ReadAllocations, table
  <1> DEFINE f == [o \in Orders |-> IF o \in gone THEN 0 ELSE allocs[o]]
  <1>3. /\ f \in [Orders -> Amounts] /\ gone \subseteq Orders
        /\ \A o \in Orders : f[o] = IF o \in gone THEN 0 ELSE allocs[o]
    BY DEF IInv, TypeOK, Amounts
  <1>4. copy' = [copy EXCEPT ![c] = f]
    BY <1>1
  <1> HIDE DEF f
  <1>5. /\ copy'[c] = f /\ lost'[c] = gone
        /\ \A d \in Clients : pc'[d] = IF d = c THEN "ready" ELSE pc[d]
        /\ \A d \in Clients \ {c} : copy'[d] = copy[d] /\ lost'[d] = lost[d]
    BY <1>1, <1>2, <1>4 DEF IInv, TypeOK
  <1>6. TypeOK'
    <2>1. copy' \in [Clients -> [Orders -> Amounts]] /\ lost' \in [Clients -> SUBSET Orders]
      BY <1>1, <1>3, <1>4 DEF IInv, TypeOK
    <2>2. pc' \in [Clients -> {"new", "half", "ready", "updated", "done", "failed"}]
      BY <1>2 DEF IInv, TypeOK
    <2>3. QED
      BY <1>2, <2>1, <2>2 DEF IInv, TypeOK
  <1>7. SeenInv' /\ LockInv' /\ UntouchedInv'
    BY <1>2, <1>5 DEF IInv, SeenInv, LockInv, UntouchedInv
  <1>8. NoTornSave'
    BY <1>2, <1>3, <1>5 DEF IInv, NoTornSave
  <1>9. QED
    BY <1>6, <1>7, <1>8 DEF IInv

(* Allocate and Deallocate touch one order of one copy.                    *)
LEMMA PutIInv ==
  ASSUME IInv, NEW c \in Clients, NEW o \in Orders, NEW q \in Amounts, pc[c] = "ready", Put(c, o, q)
  PROVE  IInv'
  <1>1. /\ copy' = [copy EXCEPT ![c][o] = q]
        /\ changed' = [changed EXCEPT ![c] = @ \union {o}]
        /\ UNCHANGED <<version, allocs, pc, seen, lost>>
    BY DEF Put, table
  <1>2. /\ \A d \in Clients \ {c} : copy'[d] = copy[d] /\ changed'[d] = changed[d]
        /\ \A p \in Orders : copy'[c][p] = IF p = o THEN q ELSE copy[c][p]
        /\ changed'[c] = changed[c] \union {o}
    BY <1>1 DEF IInv, TypeOK
  <1>3. TypeOK'
    BY <1>1 DEF IInv, TypeOK
  <1>4. SeenInv' /\ LockInv'
    BY <1>1 DEF IInv, SeenInv, LockInv
  <1>5. UntouchedInv'
    BY <1>1, <1>2 DEF IInv, UntouchedInv
  <1>6. NoTornSave'
    BY <1>1, <1>2 DEF IInv, NoTornSave
  <1>7. QED
    BY <1>3, <1>4, <1>5, <1>6 DEF IInv

(* The steps that only move a client on.                                   *)
LEMMA MoveIInv ==
  ASSUME IInv, NEW c \in Clients, NEW to \in {"updated", "failed"},
         pc' = [pc EXCEPT ![c] = to],
         to = "updated" => pc[c] = "ready" /\ ~Locked /\ seen[c] = version,
         UNCHANGED <<version, allocs, seen, copy, changed, lost>>
  PROVE  IInv'
  <1>1. \A d \in Clients : pc'[d] = IF d = c THEN to ELSE pc[d]
    BY DEF IInv, TypeOK
  <1>2. TypeOK'
    BY DEF IInv, TypeOK
  <1>3. SeenInv' /\ UntouchedInv'
    BY <1>1 DEF IInv, SeenInv, UntouchedInv
  <1>4. LockInv'
    BY <1>1 DEF IInv, LockInv, Locked
  <1>5. NoTornSave'
    BY <1>1 DEF IInv, NoTornSave
  <1>6. QED
    BY <1>2, <1>3, <1>4, <1>5 DEF IInv

(* A save makes every other copy stale.                                    *)
LEMMA CommitIInv ==
  ASSUME IInv, NEW c \in Clients, Commit(c)
  PROVE  IInv'
  <1>1. /\ pc[c] = "updated" /\ pc' = [pc EXCEPT ![c] = "done"]
        /\ version' = version + 1 /\ allocs' = copy[c]
        /\ UNCHANGED <<seen, copy, changed, lost>>
    BY DEF Commit
  <1>2. version \in Nat /\ seen \in [Clients -> Nat] /\ copy[c] \in [Orders -> Amounts]
    BY DEF IInv, TypeOK
  <1>3. \A d \in Clients : pc'[d] = IF d = c THEN "done" ELSE pc[d]
    BY <1>1 DEF IInv, TypeOK
  <1>4. \A d \in Clients : seen[d] <= version /\ seen[d] # version + 1
    BY <1>2 DEF IInv, SeenInv
  <1>5. TypeOK'
    <2>1. pc' \in [Clients -> {"new", "half", "ready", "updated", "done", "failed"}]
      BY <1>1 DEF IInv, TypeOK
    <2>2. QED
      BY <1>1, <1>2, <2>1 DEF IInv, TypeOK
  <1>6. SeenInv' /\ UntouchedInv'
    BY <1>1, <1>2, <1>3, <1>4 DEF IInv, SeenInv, UntouchedInv
  <1>7. LockInv'
    BY <1>1, <1>3 DEF IInv, LockInv
  <1>8. NoTornSave'
    BY <1>1, <1>4 DEF NoTornSave
  <1>9. QED
    BY <1>5, <1>6, <1>7, <1>8 DEF IInv

(* No step breaks the invariant.                                           *)
LEMMA NextIInv == IInv /\ [Next]_vars => IInv'
  <1> SUFFICES ASSUME IInv, Next PROVE IInv'
    BY StutterIInv
  <1>1. PICK c \in Clients :
          \/ ReadBatch(c) \/ ReadAllocations(c)
          \/ \E o \in Orders : Deallocate(c, o) \/ \E q \in Quantities : Allocate(c, o, q)
          \/ UpdateTx(c) \/ Conflict(c) \/ Commit(c) \/ Abort(c)
    BY DEF Next
  <1>2. CASE ReadBatch(c) \/ ReadAllocations(c) \/ Commit(c)
    BY <1>2, ReadBatchIInv, ReadAllocationsIInv, CommitIInv
  <1>3. CASE \E o \in Orders : Deallocate(c, o) \/ \E q \in Quantities : Allocate(c, o, q)
    <2>1. PICK o \in Orders : \E q \in Amounts : pc[c] = "ready" /\ Put(c, o, q)
      BY <1>3, AllocationAssumption DEF Deallocate, Allocate, Amounts
    <2>2. QED
      BY <2>1, PutIInv
  <1>4. CASE UpdateTx(c) \/ Conflict(c) \/ Abort(c)
    <2>1. PICK to \in {"updated", "failed"} :
            /\ pc' = [pc EXCEPT ![c] = to]
            /\ to = "updated" => pc[c] = "ready" /\ ~Locked /\ seen[c] = version
      BY <1>4 DEF UpdateTx, Conflict, Abort
    <2>2. UNCHANGED <<version, allocs, seen, copy, changed, lost>>
      BY <1>4 DEF UpdateTx, Conflict, Abort, table
    <2>3. QED
      BY <2>1, <2>2, MoveIInv
  <1>5. QED
    BY <1>1, <1>2, <1>3, <1>4

(* Every copy that can still be saved is one state of the table, but for   *)
(* the rows its read has missed.                                           *)
THEOREM Invariance == Spec => []IInv
  BY InitIInv, NextIInv, PTL DEF Spec

-----------------------------------------------------------------------------
(* Every variable keeps its type.                                          *)
THEOREM TypeCorrect == Spec => []TypeOK
  <1>1. IInv => TypeOK
    BY DEF IInv
  <1>2. QED
    BY <1>1, Invariance, PTL

(* UpdateTx, which rewrites the allocations of all orders, changes none    *)
(* but those its client means to change and those its own read has missed. *)
THEOREM NothingForgotten == Spec => PromisesKept
  <1> DEFINE Meant == \A o \in Orders : allocs'[o] # allocs[o] =>
                \E c \in Clients :
                  /\ pc[c] = "updated" /\ pc'[c] = "done"
                  /\ o \in changed[c] \/ (o \in lost[c] /\ allocs'[o] = 0)
  <1>1. IInv /\ [Next]_vars => [Meant]_vars
    <2> SUFFICES ASSUME IInv, Next PROVE Meant
      OBVIOUS
    <2>1. ASSUME NEW c \in Clients, Commit(c) PROVE Meant
      <3>1. pc[c] = "updated" /\ pc'[c] = "done" /\ allocs' = copy[c]
        BY <2>1 DEF Commit, IInv, TypeOK
      <3>2. seen[c] = version
        BY <3>1 DEF IInv, LockInv
      <3>3. \A o \in Orders \ changed[c] : copy[c][o] = IF o \in lost[c] THEN 0 ELSE allocs[o]
        BY <3>1, <3>2 DEF IInv, NoTornSave
      <3>4. QED
        BY <3>1, <3>3
    <2>2. CASE UNCHANGED allocs
      BY <2>2
    <2>3. ASSUME NEW c \in Clients,
                 \/ ReadBatch(c) \/ ReadAllocations(c)
                 \/ \E o \in Orders : Deallocate(c, o) \/ \E q \in Quantities : Allocate(c, o, q)
                 \/ UpdateTx(c) \/ Conflict(c) \/ Abort(c)
          PROVE  UNCHANGED allocs
      BY <2>3 DEF ReadBatch, ReadAllocations, Deallocate, Allocate, Put, UpdateTx, Conflict, Abort, table
    <2>4. QED
      BY <2>1, <2>2, <2>3 DEF Next
  <1>2. QED
    BY <1>1, Invariance, PTL DEF Spec, PromisesKept

(* GetByID's two reads never mix two states of a batch in a copy that is   *)
(* saved.                                                                  *)
THEOREM TornReadsAreHarmless == Spec => []NoTornSave
  <1>1. IInv => NoTornSave
    BY DEF IInv
  <1>2. QED
    BY <1>1, Invariance, PTL

-----------------------------------------------------------------------------
(* The pieces of one order.                                                *)
LEMMA PiecesOfOne ==
  ASSUME NEW o, NEW q \in Nat
  PROVE  IsFiniteSet({o} \X (1..q)) /\ Cardinality({o} \X (1..q)) = q
  <1>1. IsFiniteSet({o}) /\ Cardinality({o}) = 1
    BY FS_Singleton
  <1>2. IsFiniteSet(1..q) /\ Cardinality(1..q) = q
    <2>1. 1 \in Int /\ q \in Int /\ (IF 1 > q THEN 0 ELSE q - 1 + 1) = q
      OBVIOUS
    <2>2. IsFiniteSet(1..q) /\ Cardinality(1..q) = IF 1 > q THEN 0 ELSE q - 1 + 1
      BY <2>1, FS_Interval
    <2>3. QED
      BY <2>1, <2>2
  <1>3. \A A, B : IsFiniteSet(A) /\ IsFiniteSet(B) =>
          IsFiniteSet(A \X B) /\ Cardinality(A \X B) = Cardinality(A) * Cardinality(B)
    BY FS_Product, Zenon
  <1>4. /\ IsFiniteSet({o} \X (1..q))
        /\ Cardinality({o} \X (1..q)) = Cardinality({o}) * Cardinality(1..q)
    BY <1>1, <1>2, <1>3, Zenon
  <1>5. Cardinality({o} \X (1..q)) = 1 * q
    BY <1>1, <1>2, <1>4, Zenon
  <1>6. 1 * q = q
    OBVIOUS
  <1>7. QED
    BY <1>4, <1>5, <1>6, Zenon

(* A map of finitely many orders hands out finitely many pieces.           *)
LEMMA PiecesFinite ==
  ASSUME NEW f \in [Orders -> Nat]
  PROVE  IsFiniteSet(Pieces(f)) /\ Total(f) \in Nat
  <1> DEFINE part == [o \in Orders |-> {o} \X (1..f[o])]
             S == {{o} \X (1..f[o]) : o \in Orders}
  <1>1. part \in Surjection(Orders, S)
    BY DEF Surjection
  <1>2. IsFiniteSet(S)
    <2> HIDE DEF part, S
    <2>1. QED
      BY <1>1, AllocationAssumption, FS_Surjection
  <1>3. ASSUME NEW T \in S PROVE IsFiniteSet(T)
    <2>1. PICK o \in Orders : T = {o} \X (1..f[o])
      OBVIOUS
    <2>2. f[o] \in Nat
      OBVIOUS
    <2>3. IsFiniteSet({o} \X (1..f[o]))
      BY <2>2, PiecesOfOne
    <2>4. QED
      BY <2>1, <2>3
  <1>4. IsFiniteSet(UNION S)
    <2> HIDE DEF S
    <2>1. QED
      BY <1>2, <1>3, FS_UNION
  <1>5. QED
    BY <1>4, FS_CardinalityType DEF Pieces, Total

(* Whoever hands out no more to any order hands out no more in all.        *)
LEMMA TotalMonotone ==
  ASSUME NEW f \in [Orders -> Nat], NEW g \in [Orders -> Nat],
         \A o \in Orders : g[o] <= f[o]
  PROVE  Total(g) <= Total(f)
  <1>1. \A o \in Orders : 1..g[o] \subseteq 1..f[o]
    OBVIOUS
  <1>2. Pieces(g) \subseteq Pieces(f)
    BY <1>1 DEF Pieces
  <1>3. QED
    BY <1>2, PiecesFinite, FS_Subset DEF Total

(* An order that is given q pieces adds at most q to the sum, also when it *)
(* had some before.                                                        *)
LEMMA TotalPut ==
  ASSUME NEW f \in [Orders -> Nat], NEW o \in Orders, NEW q \in Nat
  PROVE  Total([f EXCEPT ![o] = q]) <= Total(f) + q
  <1> DEFINE g == [f EXCEPT ![o] = q]
             N == {o} \X (1..q)
  <1>1. g \in [Orders -> Nat]
    OBVIOUS
  <1>2. IsFiniteSet(N) /\ Cardinality(N) = q
    BY PiecesOfOne
  <1>3. Pieces(g) \subseteq Pieces(f) \union N
    <2> SUFFICES ASSUME NEW p \in Orders, NEW x \in {p} \X (1..g[p])
                 PROVE  x \in Pieces(f) \union N
      BY DEF Pieces
    <2>1. CASE p = o
      BY <2>1
    <2>2. CASE p # o
      BY <2>2 DEF Pieces
    <2>3. QED
      BY <2>1, <2>2
  <1> HIDE DEF g, N
  <1>4. IsFiniteSet(Pieces(f)) /\ Total(f) \in Nat /\ Total(g) \in Nat
    BY <1>1, PiecesFinite
  <1>5. /\ IsFiniteSet(Pieces(f) \union N)
        /\ Cardinality(Pieces(f) \union N) \in Nat
        /\ Cardinality(Pieces(f) \union N) <= Total(f) + q
    <2>1. /\ IsFiniteSet(Pieces(f) \union N) /\ IsFiniteSet(Pieces(f) \intersect N)
          /\ Cardinality(Pieces(f) \union N) =
               Cardinality(Pieces(f)) + Cardinality(N) - Cardinality(Pieces(f) \intersect N)
      BY <1>2, <1>4, FS_Union, FS_Intersection
    <2>2. Cardinality(Pieces(f) \union N) \in Nat /\ Cardinality(Pieces(f) \intersect N) \in Nat
      BY <2>1, FS_CardinalityType
    <2>3. QED
      BY <1>2, <1>4, <2>1, <2>2 DEF Total
  <1>6. Total(g) <= Cardinality(Pieces(f) \union N)
    BY <1>3, <1>5, FS_Subset DEF Total
  <1>7. Total(g) <= Total(f) + q
    BY <1>4, <1>5, <1>6
  <1>8. QED
    BY <1>7 DEF g

(* What is allocated is a number of pieces.                                *)
LEMMA NatMaps == \A f \in [Orders -> Amounts] : f \in [Orders -> Nat]
  <1>1. Amounts \subseteq Nat
    BY AllocationAssumption DEF Amounts
  <1>2. QED
    BY <1>1

(* No map, stored or in a client's memory, exceeds the batch.              *)
Bounded == WithinQty /\ \A c \in Clients : Total(copy[c]) <= Qty

(* Clients that each check a copy of their own, torn or with rows missing, *)
(* together never give away more than the batch has.                       *)
THEOREM NeverOversold == Spec => []WithinQty
  <1> USE AllocationAssumption
  <1>1. Init => Bounded
    <2> SUFFICES ASSUME Init PROVE Bounded
      OBVIOUS
    <2>1. allocs \in [Orders -> Nat] /\ WithinQty
      BY NatMaps DEF Init, WithinQty
    <2>2. ASSUME NEW c \in Clients PROVE Total(copy[c]) <= Qty
      <3>1. copy[c] = [o \in Orders |-> 0]
        BY DEF Init
      <3>2. copy[c] \in [Orders -> Nat] /\ \A o \in Orders : copy[c][o] <= allocs[o]
        BY <2>1, <3>1
      <3>3. Total(copy[c]) <= Total(allocs) /\ Total(copy[c]) \in Nat /\ Total(allocs) \in Nat
        BY <2>1, <3>2, TotalMonotone, PiecesFinite
      <3>4. QED
        BY <2>1, <3>3 DEF WithinQty
    <2>3. QED
      BY <2>1, <2>2 DEF Bounded
  <1>2. TypeOK /\ Bounded /\ [Next]_vars => Bounded'
    <2> SUFFICES ASSUME TypeOK, Bounded, [Next]_vars PROVE Bounded'
      OBVIOUS
    <2>1. /\ allocs \in [Orders -> Nat] /\ Total(allocs) <= Qty
          /\ \A c \in Clients : copy[c] \in [Orders -> Nat] /\ Total(copy[c]) <= Qty
      BY NatMaps DEF TypeOK, Bounded, WithinQty
    <2>2. ASSUME NEW c \in Clients, NEW f \in [Orders -> Nat], Total(f) <= Qty,
                 copy' = [copy EXCEPT ![c] = f], UNCHANGED allocs
          PROVE  Bounded'
      BY <2>1, <2>2 DEF TypeOK, Bounded, WithinQty
    <2>3. ASSUME NEW c \in Clients, ReadAllocations(c) PROVE Bounded'
      <3>1. PICK gone \in SUBSET {o \in Orders : allocs[o] # 0} :
              copy' = [copy EXCEPT ![c] = [o \in Orders |-> IF o \in gone THEN 0 ELSE allocs[o]]]
        BY <2>3 DEF ReadAllocations
      <3> DEFINE f == [o \in Orders |-> IF o \in gone THEN 0 ELSE allocs[o]]
      <3>2. f \in [Orders -> Nat] /\ \A o \in Orders : f[o] <= allocs[o]
        BY <2>1
      <3> HIDE DEF f
      <3>3. Total(f) <= Total(allocs) /\ Total(f) \in Nat /\ Total(allocs) \in Nat
        BY <2>1, <3>2, TotalMonotone, PiecesFinite
      <3>4. Total(f) <= Qty
        BY <2>1, <3>3
      <3>5. copy' = [copy EXCEPT ![c] = f] /\ UNCHANGED allocs
        BY <2>3, <3>1 DEF ReadAllocations, table, f
      <3>6. QED
        BY <2>2, <3>2, <3>4, <3>5
    <2>4. ASSUME NEW c \in Clients, NEW o \in Orders, NEW q \in Nat, Put(c, o, q),
                 q = 0 \/ AvailableQty(copy[c]) >= q
          PROVE  Bounded'
      <3> DEFINE f == [copy[c] EXCEPT ![o] = q]
      <3>1. f \in [Orders -> Nat] /\ Total(f) <= Total(copy[c]) + q
        BY <2>1, TotalPut
      <3>2. copy' = [copy EXCEPT ![c] = f] /\ UNCHANGED allocs
        BY <2>4 DEF Put, table
      <3> HIDE DEF f
      <3>3. Total(f) \in Nat /\ Total(copy[c]) \in Nat
        BY <2>1, <3>1, PiecesFinite
      <3>4. Total(f) <= Qty
        BY <2>1, <2>4, <3>1, <3>3 DEF AvailableQty
      <3>5. QED
        BY <2>2, <3>1, <3>2, <3>4
    <2>5. ASSUME NEW c \in Clients, NEW o \in Orders,
                 Deallocate(c, o) \/ \E q \in Quantities : Allocate(c, o, q)
          PROVE  Bounded'
      BY <2>4, <2>5 DEF Deallocate, Allocate
    <2>6. ASSUME NEW c \in Clients, Commit(c) PROVE Bounded'
      BY <2>1, <2>6 DEF Commit, Bounded, WithinQty
    <2>7. ASSUME NEW c \in Clients, ReadBatch(c) \/ UpdateTx(c) \/ Conflict(c) \/ Abort(c)
          PROVE  Bounded'
      BY <2>7 DEF ReadBatch, UpdateTx, Conflict, Abort, table, Bounded, WithinQty
    <2>8. CASE UNCHANGED vars
      BY <2>8 DEF vars, Bounded, WithinQty
    <2>9. QED
      BY <2>3, <2>5, <2>6, <2>7, <2>8 DEF Next
  <1>3. Bounded => WithinQty
    BY DEF Bounded
  <1>4. QED
    BY <1>1, <1>2, <1>3, TypeCorrect, PTL DEF Spec
=============================================================================
