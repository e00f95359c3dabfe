-------------------------- MODULE RecipeCostProofs --------------------------
(***************************************************************************)
(* Recipes and their cost for any requests, prices and copies, and for     *)
(* money of any width.  The reason the wraps on the way do no harm is that *)
(* Wrap keeps a number's remainder by the number of machine integers, and  *)
(* sums and products only depend on the remainders.                        *)
(***************************************************************************)
EXTENDS RecipeCost, FiniteSetTheorems, SequenceTheorems, TLAPS

Rows(w) == {m \in Materials : w[m] # 0}

(* The rows w, each as the line of a request it was made from.             *)
AsLines(w) == {[material |-> m, quantity |-> w[m]] : m \in Rows(w)}

FirstLines(r, n) == {req[r].ingredients[i] : i \in 1..n}

(* A transaction has written the lines it has read so far, each in a row   *)
(* of its own, and others see its rows when it has committed, all of them. *)
SaveInv ==
  \A r \in Recipes :
    /\ pc[r] = "new" => written[r] = NoRows
    /\ pc[r] \in {"saving", "done"} =>
         /\ Count(r) <= Len(req[r].ingredients)
         /\ AsLines(written[r]) = FirstLines(r, Count(r))
    /\ pc[r] = "done" => Count(r) = Len(req[r].ingredients)
    /\ stored[r] = IF pc[r] = "done" THEN written[r] ELSE NoRows

LoadInv ==
  \A k \in Calcs : cpc[k] \in {"pricing", "done"} =>
    pc[ask[k].recipe] = "done" /\ lines[k] = stored[ask[k].recipe]

(* What has been added up are the lines whose price has been asked.        *)
SumInv ==
  \A k \in Calcs :
    /\ cpc[k] = "new" => paid[k] = NoRows /\ cost[k] = 0
    /\ cpc[k] = "pricing" =>
         /\ \A m \in left[k] : paid[k][m] = 0
         /\ cost[k] = Wrap(Cardinality(Kopecks(k)))

IInv == TypeOK /\ SaveInv /\ LoadInv /\ SumInv /\ CostIsSum

-----------------------------------------------------------------------------
Int64 == -Half..Half - 1

(* a and b leave the same remainder by the number of machine integers.     *)
SameRest(a, b) == \E q \in Int : a = b + q * (2 * Half)

(* Division with remainder.                                                *)
LEMMA Division ==
  ASSUME NEW n \in Int, NEW d \in Nat \ {0}
  PROVE  \E r \in 0..d - 1, q \in Int : n % d = r /\ n = d * q + r
  <1>1. n % d \in 0..d - 1 /\ n \div d \in Int /\ n = d * (n \div d) + (n % d)
    OBVIOUS
  <1>2. QED
    BY <1>1

(* A wrapped number is a machine integer with the remainder it had.        *)
LEMMA WrapKeepsRest ==
  ASSUME NEW n \in Int
  PROVE  Wrap(n) \in Int64 /\ SameRest(n, Wrap(n))
  <1> DEFINE d == 2 * Half
  <1>1. d \in Nat \ {0} /\ n + Half \in Int
    BY CostAssumption
  <1>2. PICK r \in 0..d - 1, q \in Int : (n + Half) % d = r /\ n + Half = d * q + r
    <2> HIDE DEF d
    <2>1. QED
      BY <1>1, Division
  <1>3. Wrap(n) = r - Half
    BY <1>2 DEF Wrap
  <1>4. Wrap(n) \in Int64
    BY <1>3, CostAssumption DEF Int64
  <1>5. n = Wrap(n) + q * d
    BY <1>2, <1>3, CostAssumption
  <1>6. QED
    BY <1>4, <1>5 DEF SameRest

(* Only one machine integer has a given remainder.                         *)
LEMMA OneOfEachRest ==
  ASSUME NEW a \in Int64, NEW b \in Int64, SameRest(a, b)
  PROVE  a = b
  <1>1. PICK q \in Int : a = b + q * (2 * Half)
    BY DEF SameRest
  <1>2. CASE q = 0
    BY <1>1, <1>2, CostAssumption DEF Int64
  <1>3. CASE q >= 1
    <2>1. q * (2 * Half) >= 2 * Half
      BY <1>3, CostAssumption
    <2>2. QED
      BY <1>1, <2>1, CostAssumption DEF Int64
  <1>4. CASE q <= -1
    <2>1. q * (2 * Half) <= -(2 * Half)
      BY <1>4, CostAssumption
    <2>2. QED
      BY <1>1, <2>1, CostAssumption DEF Int64
  <1>5. QED
    BY <1>2, <1>3, <1>4

(* Numbers with the same remainder wrap to the same machine integer.       *)
LEMMA SameRestSameWrap ==
  ASSUME NEW a \in Int, NEW b \in Int, SameRest(a, b)
  PROVE  Wrap(a) = Wrap(b)
  <1>1. Wrap(a) \in Int64 /\ Wrap(b) \in Int64
    BY WrapKeepsRest
  <1>2. PICK p \in Int : a = b + p * (2 * Half)
    BY DEF SameRest
  <1>3. PICK q \in Int : a = Wrap(a) + q * (2 * Half)
    BY WrapKeepsRest DEF SameRest
  <1>4. PICK r \in Int : b = Wrap(b) + r * (2 * Half)
    BY WrapKeepsRest DEF SameRest
  <1>5. Wrap(a) = Wrap(b) + (r + p - q) * (2 * Half)
    BY <1>1, <1>2, <1>3, <1>4, CostAssumption DEF Int64
  <1>6. QED
    BY <1>1, <1>5, OneOfEachRest DEF SameRest

(* Wrapping the terms of a sum changes nothing.                            *)
LEMMA WrapOfSum ==
  ASSUME NEW a \in Int, NEW b \in Int
  PROVE  Wrap(Wrap(a) + Wrap(b)) = Wrap(a + b)
  <1>1. Wrap(a) \in Int /\ Wrap(b) \in Int
    BY WrapKeepsRest, CostAssumption DEF Int64
  <1>2. PICK p \in Int : a = Wrap(a) + p * (2 * Half)
    BY WrapKeepsRest DEF SameRest
  <1>3. PICK q \in Int : b = Wrap(b) + q * (2 * Half)
    BY WrapKeepsRest DEF SameRest
  <1>4. a + b = (Wrap(a) + Wrap(b)) + (p + q) * (2 * Half)
    <2>1. (p + q) * (2 * Half) = p * (2 * Half) + q * (2 * Half)
      BY CostAssumption
    <2>2. p * (2 * Half) \in Int /\ q * (2 * Half) \in Int
      BY CostAssumption
    <2>3. QED
      BY <1>1, <1>2, <1>3, <2>1, <2>2
  <1>5. QED
    BY <1>1, <1>4, SameRestSameWrap DEF SameRest

(* Wrapping a factor of a product changes nothing.                         *)
LEMMA WrapOfProduct ==
  ASSUME NEW a \in Int, NEW n \in Int
  PROVE  Wrap(Wrap(a) * n) = Wrap(n * a)
  <1>1. Wrap(a) \in Int
    BY WrapKeepsRest, CostAssumption DEF Int64
  <1>2. PICK p \in Int : a = Wrap(a) + p * (2 * Half)
    BY WrapKeepsRest DEF SameRest
  <1>3. n * a = Wrap(a) * n + (p * n) * (2 * Half)
    BY <1>1, <1>2, CostAssumption
  <1>4. QED
    BY <1>1, <1>3, SameRestSameWrap DEF SameRest

-----------------------------------------------------------------------------
(* f[m] units of each material m, and how many these are in all.           *)
Units(f) == UNION {{m} \X (1..f[m]) : m \in Materials}

(* One material's part.                                                    *)
LEMMA UnitsOfOne ==
  ASSUME NEW m, NEW q \in Nat
  PROVE  IsFiniteSet({m} \X (1..q)) /\ Cardinality({m} \X (1..q)) = q
  <1>1. IsFiniteSet({m}) /\ Cardinality({m}) = 1
    BY FS_Singleton
  <1>2. IsFiniteSet(1..q) /\ Cardinality(1..q) = q
    <2>1. 1 \in Int /\ q \in Int /\ (IF 1 > q THEN 0 ELSE q - 1 + 1) = q
      OBVIOUS
    <2>2. IsFiniteSet(1..q) /\ Cardinality(1..q) = IF 1 > q THEN 0 ELSE q - 1 + 1
      BY <2>1, FS_Interval
    <2>3. QED
      BY <2>1, <2>2
  <1>3. \A S, T : IsFiniteSet(S) /\ IsFiniteSet(T) =>
          IsFiniteSet(S \X T) /\ Cardinality(S \X T) = Cardinality(S) * Cardinality(T)
    BY FS_Product, Zenon
  <1>4. /\ IsFiniteSet({m} \X (1..q))
        /\ Cardinality({m} \X (1..q)) = Cardinality({m}) * Cardinality(1..q)
    BY <1>1, <1>2, <1>3, Zenon
  <1>5. Cardinality({m} \X (1..q)) = 1 * q
    BY <1>1, <1>2, <1>4, Zenon
  <1>6. 1 * q = q
    OBVIOUS
  <1>7. QED
    BY <1>4, <1>5, <1>6, Zenon

(* There are finitely many units in all.                                   *)
LEMMA UnitsFinite ==
  ASSUME NEW f \in [Materials -> Nat]
  PROVE  IsFiniteSet(Units(f)) /\ Cardinality(Units(f)) \in Nat
  <1> DEFINE part == [m \in Materials |-> {m} \X (1..f[m])]
             S == {{m} \X (1..f[m]) : m \in Materials}
  <1>1. part \in Surjection(Materials, S)
    BY DEF Surjection
  <1>2. IsFiniteSet(S)
    <2> HIDE DEF part, S
    <2>1. QED
      BY <1>1, CostAssumption, FS_Surjection
  <1>3. ASSUME NEW T \in S PROVE IsFiniteSet(T)
    <2>1. PICK m \in Materials : T = {m} \X (1..f[m])
      OBVIOUS
    <2>2. f[m] \in Nat
      OBVIOUS
    <2>3. IsFiniteSet({m} \X (1..f[m]))
      BY <2>2, UnitsOfOne
    <2>4. QED
      BY <2>1, <2>3
  <1>4. IsFiniteSet(UNION S)
    <2> HIDE DEF S
    <2>1. QED
      BY <1>2, <1>3, FS_UNION
  <1>5. QED
    BY <1>4, FS_CardinalityType DEF Units

(* A material that had none adds what it gets.                             *)
LEMMA UnitsOfOneMore ==
  ASSUME NEW f \in [Materials -> Nat], NEW m \in Materials, f[m] = 0, NEW q \in Nat
  PROVE  Cardinality(Units([f EXCEPT ![m] = q])) = Cardinality(Units(f)) + q
  <1> DEFINE g == [f EXCEPT ![m] = q]
             N == {m} \X (1..q)
  <1>1. g \in [Materials -> Nat] /\ g[m] = q /\ \A n \in Materials \ {m} : g[n] = f[n]
    OBVIOUS
  <1>2. IsFiniteSet(N) /\ Cardinality(N) = q
    BY UnitsOfOne
  <1> HIDE DEF g
  <1>3. Units(g) = Units(f) \union N
    <2>1. ASSUME NEW n \in Materials PROVE {n} \X (1..g[n]) \subseteq Units(f) \union N
      BY <1>1 DEF Units
    <2>2. N \subseteq Units(g)
      BY <1>1 DEF Units
    <2>3. ASSUME NEW n \in Materials PROVE {n} \X (1..f[n]) \subseteq Units(g)
      <3>1. CASE n = m
        BY <3>1
      <3>2. CASE n # m
        BY <1>1, <3>2 DEF Units
      <3>3. QED
        BY <3>1, <3>2
    <2>4. QED
      BY <2>1, <2>2, <2>3 DEF Units
  <1>4. Units(f) \intersect N = {}
    <2> SUFFICES ASSUME NEW n \in Materials, NEW x \in {n} \X (1..f[n]), x \in N PROVE FALSE
      BY DEF Units
    <2>1. n = m
      OBVIOUS
    <2>2. QED
      BY <2>1
  <1> HIDE DEF N
  <1>5. IsFiniteSet(Units(f)) /\ Cardinality(Units(f)) \in Nat
    BY UnitsFinite
  <1>6. Cardinality(Units(f) \union N) =
          Cardinality(Units(f)) + Cardinality(N) - Cardinality(Units(f) \intersect N)
    BY <1>2, <1>5, FS_Union
  <1>7. Cardinality(Units(g)) = Cardinality(Units(f)) + q
    <2>1. Cardinality({}) = 0
      BY FS_EmptySet
    <2>2. Cardinality(Units(g)) = Cardinality(Units(f)) + q - 0
      BY <1>2, <1>3, <1>4, <1>6, <2>1
    <2>3. QED
      BY <1>5, <2>2
  <1>8. QED
    BY <1>7 DEF g

(* There are as many lines as there are rows.                              *)
LEMMA LinesAreRows ==
  ASSUME NEW w
  PROVE  /\ IsFiniteSet(Rows(w)) /\ Cardinality(Rows(w)) \in Nat
         /\ Cardinality(AsLines(w)) = Cardinality(Rows(w))
  <1> DEFINE line == [m \in Rows(w) |-> [material |-> m, quantity |-> w[m]]]
  <1>1. IsFiniteSet(Rows(w))
    BY CostAssumption, FS_Subset DEF Rows
  <1>2. ASSUME NEW m \in Rows(w), NEW n \in Rows(w), line[m] = line[n] PROVE m = n
    <2>1. line[m].material = m /\ line[n].material = n
      OBVIOUS
    <2>2. QED
      BY <1>2, <2>1
  <1>3. line \in Surjection(Rows(w), AsLines(w))
    BY DEF Surjection, AsLines
  <1>4. line \in Injection(Rows(w), AsLines(w))
    BY <1>2, <1>3 DEF Injection, Surjection, IsInjective
  <1> HIDE DEF line
  <1>5. Cardinality(AsLines(w)) = Cardinality(Rows(w))
    BY <1>1, <1>3, <1>4, FS_Surjection
  <1>6. QED
    BY <1>1, <1>5, FS_CardinalityType

-----------------------------------------------------------------------------
(* A request has so many lines.                                            *)
LEMMA RequestLines ==
  ASSUME TypeOK, NEW r \in Recipes
  PROVE  /\ Len(req[r].ingredients) \in Nat
         /\ req[r].ingredients \in [1..Len(req[r].ingredients) -> Ingredient]
  <1>1. PICK n \in 0..MaxLines : req[r].ingredients \in [1..n -> Ingredient]
    <2>1. req[r] \in Requests
      BY DEF TypeOK
    <2>2. req[r].ingredients \in UNION {[1..n -> Ingredient] : n \in 0..MaxLines}
      BY <2>1 DEF Requests
    <2>3. QED
      BY <2>2
  <1>2. n \in Nat
    BY CostAssumption
  <1>3. Len(req[r].ingredients) = n
    BY <1>1, <1>2
  <1>4. QED
    BY <1>1, <1>2, <1>3

(* What is new has written, loaded and added up nothing.                   *)
LEMMA InitIInv == Init => IInv
  <1> SUFFICES ASSUME Init PROVE IInv
    OBVIOUS
  <1>1. TypeOK
    <2>1. NoRows \in [Materials -> 0..MaxQuantity] /\ NoRows \in [Materials -> Prices \union {0}]
      BY CostAssumption DEF NoRows
    <2>2. 0 \in -Half..Half - 1
      BY CostAssumption
    <2>3. QED
      BY <2>1, <2>2 DEF Init, TypeOK
  <1>2. SaveInv /\ LoadInv /\ SumInv /\ CostIsSum
    BY DEF Init, SaveInv, LoadInv, SumInv, CostIsSum
  <1>3. QED
    BY <1>1, <1>2 DEF IInv

-----------------------------------------------------------------------------
(* A statement that the table accepts adds a row of the column's type.     *)
LEMMA InsertedRow ==
  ASSUME TypeOK, SaveInv, NEW r \in Recipes, InLoop(r), Insertable(r)
  PROVE  LET m == NextLine(r).material
             q == NextLine(r).quantity
             w == [written[r] EXCEPT ![m] = q]
         IN  /\ m \in Materials /\ q \in 1..MaxQuantity
             /\ Cardinality(Rows(w)) = Count(r) + 1
             /\ Count(r) + 1 \in 1..Len(req[r].ingredients)
             /\ AsLines(w) = FirstLines(r, Count(r) + 1)
  <1> DEFINE m == NextLine(r).material
             q == NextLine(r).quantity
             w == [written[r] EXCEPT ![m] = q]
  <1>1. Count(r) = Cardinality(Rows(written[r])) /\ Count(r) \in Nat
    BY LinesAreRows DEF Count, Rows
  <1>2. Count(r) + 1 \in 1..Len(req[r].ingredients)
    BY <1>1, RequestLines DEF InLoop
  <1>3. NextLine(r) \in Ingredient /\ NextLine(r) = [material |-> m, quantity |-> q]
    BY <1>2, RequestLines DEF NextLine, Ingredient
  <1>4. m \in Materials /\ q \in 1..MaxQuantity /\ written[r][m] = 0
    BY <1>3 DEF Ingredient, Insertable
  <1>5. written[r] \in [Materials -> 0..MaxQuantity]
    BY DEF TypeOK
  <1>6. q # 0
    BY <1>4, CostAssumption
  <1> HIDE DEF m, q
  <1>7. /\ Rows(w) = Rows(written[r]) \union {m} /\ m \notin Rows(written[r])
        /\ w[m] = q /\ \A n \in Rows(written[r]) : w[n] = written[r][n]
    BY <1>4, <1>5, <1>6 DEF Rows
  <1> HIDE DEF w
  <1>8. Cardinality(Rows(w)) = Count(r) + 1
    BY <1>1, <1>7, LinesAreRows, FS_AddElement
  <1>9. AsLines(w) = AsLines(written[r]) \union {NextLine(r)}
    BY <1>3, <1>7 DEF AsLines
  <1>10. FirstLines(r, Count(r) + 1) = FirstLines(r, Count(r)) \union {NextLine(r)}
    <2>1. 1..Count(r) + 1 = (1..Count(r)) \union {Count(r) + 1}
      BY <1>1
    <2>2. QED
      BY <2>1 DEF FirstLines, NextLine
  <1>11. AsLines(w) = FirstLines(r, Count(r) + 1)
    BY <1>9, <1>10 DEF SaveInv, InLoop
  <1>12. QED
    BY <1>2, <1>4, <1>8, <1>11 DEF m, q, w

(* What SaveInv says of a recipe depends on its request and its rows only. *)
LEMMA SameRows ==
  ASSUME NEW r \in Recipes, req' = req, written'[r] = written[r]
  PROVE  Count(r)' = Count(r) /\ \A n : FirstLines(r, n)' = FirstLines(r, n)
  BY DEF Count, FirstLines

(* Requests that create recipes.                                           *)
LEMMA CreateKeeps ==
  ASSUME IInv, NEW r \in Recipes, Create(r)
  PROVE  IInv'
  <1> USE DEF IInv, creating, calculating
  <1>1. SumInv' /\ CostIsSum'
    <2>1. UNCHANGED calculating
      BY DEF Create, Begin, Reject, Insert, InsertFails, Commit, Abort
    <2>2. \A k \in Calcs : Kopecks(k)' = Kopecks(k)
      BY <2>1 DEF Kopecks
    <2>3. QED
      BY <2>1, <2>2 DEF SumInv, CostIsSum
  <1>2. CASE Begin(r)
    <2>1. TypeOK'
      BY <1>2 DEF Begin, TypeOK
    <2>2. SaveInv'
      <3>1. Count(r) = 0 /\ AsLines(written[r]) = {}
        <4>1. {m \in Materials : written[r][m] # 0} = {}
          BY <1>2 DEF Begin, SaveInv, NoRows
        <4>2. QED
          BY <4>1, FS_EmptySet DEF Count, AsLines, Rows
      <3>2. FirstLines(r, 0) = {}
        BY DEF FirstLines
      <3>3. 0 <= Len(req[r].ingredients)
        BY RequestLines
      <3>4. QED
        BY <1>2, <3>1, <3>2, <3>3, SameRows DEF Begin, SaveInv, TypeOK
    <2>3. LoadInv'
      BY <1>2 DEF Begin, LoadInv, TypeOK
    <2>4. QED
      BY <1>1, <2>1, <2>2, <2>3
  <1>3. CASE Reject(r)
    <2>1. TypeOK'
      BY <1>3 DEF Reject, TypeOK
    <2>2. SaveInv'
      BY <1>3, SameRows DEF Reject, SaveInv, TypeOK
    <2>3. LoadInv'
      BY <1>3 DEF Reject, LoadInv, TypeOK
    <2>4. QED
      BY <1>1, <2>1, <2>2, <2>3
  <1>4. CASE Insert(r)
    <2> DEFINE m == NextLine(r).material
               q == NextLine(r).quantity
               w == [written[r] EXCEPT ![m] = q]
    <2>1. /\ m \in Materials /\ q \in 1..MaxQuantity
          /\ Cardinality(Rows(w)) = Count(r) + 1
          /\ Count(r) + 1 \in 1..Len(req[r].ingredients)
          /\ AsLines(w) = FirstLines(r, Count(r) + 1)
      BY <1>4, InsertedRow DEF Insert
    <2>2. /\ written' = [written EXCEPT ![r] = w] /\ pc[r] = "saving"
          /\ UNCHANGED <<req, pc, stored, price, ask, cpc, lines, left, paid, cost>>
      BY <1>4 DEF Insert, TypeOK, InLoop
    <2>3. w \in [Materials -> 0..MaxQuantity]
      BY <2>1 DEF TypeOK
    <2> HIDE DEF m, q, w
    <2>4. TypeOK'
      BY <2>2, <2>3 DEF TypeOK
    <2>5. SaveInv'
      <3> SUFFICES ASSUME NEW s \in Recipes
                   PROVE  /\ pc'[s] = "new" => written'[s] = NoRows
                          /\ pc'[s] \in {"saving", "done"} =>
                               /\ Count(s)' <= Len(req'[s].ingredients)
                               /\ AsLines(written'[s]) = FirstLines(s, Count(s))'
                          /\ pc'[s] = "done" => Count(s)' = Len(req'[s].ingredients)
                          /\ stored'[s] = IF pc'[s] = "done" THEN written'[s] ELSE NoRows
        BY DEF SaveInv
      <3>1. CASE s = r
        <4>1. written'[r] = w
          BY <2>2 DEF TypeOK
        <4>2. Count(r)' = Count(r) + 1
          BY <2>1, <4>1 DEF Count, Rows
        <4>3. FirstLines(r, Count(r))' = FirstLines(r, Count(r) + 1)
          BY <2>2, <4>2 DEF FirstLines
        <4>4. Count(r)' <= Len(req'[r].ingredients) /\ NoRows = stored'[r]
          BY <2>1, <2>2, <4>2, RequestLines DEF SaveInv
        <4>5. QED
          BY <2>1, <2>2, <3>1, <4>1, <4>3, <4>4
      <3>2. CASE s # r
        BY <2>2, <3>2, SameRows DEF SaveInv, TypeOK
      <3>3. QED
        BY <3>1, <3>2
    <2>6. LoadInv'
      BY <2>2 DEF LoadInv
    <2>7. QED
      BY <1>1, <2>4, <2>5, <2>6
  <1>5. CASE InsertFails(r)
    <2>1. TypeOK'
      BY <1>5 DEF InsertFails, TypeOK
    <2>2. SaveInv'
      BY <1>5, SameRows DEF InsertFails, InLoop, SaveInv, TypeOK
    <2>3. LoadInv'
      BY <1>5 DEF InsertFails, InLoop, LoadInv, TypeOK
    <2>4. QED
      BY <1>1, <2>1, <2>2, <2>3
  <1>6. CASE Commit(r)
    <2>1. TypeOK'
      BY <1>6 DEF Commit, TypeOK
    <2>2. Count(r) = Len(req[r].ingredients)
      <3>1. Count(r) \in Nat /\ Len(req[r].ingredients) \in Nat
        BY LinesAreRows, RequestLines DEF Count, Rows
      <3>2. QED
        BY <1>6, <3>1 DEF Commit, InLoop, SaveInv
    <2>3. SaveInv'
      BY <1>6, <2>2, SameRows DEF Commit, SaveInv, TypeOK
    <2>4. LoadInv'
      BY <1>6 DEF Commit, LoadInv, TypeOK
    <2>5. QED
      BY <1>1, <2>1, <2>3, <2>4
  <1>7. CASE Abort(r)
    <2>1. TypeOK'
      BY <1>7 DEF Abort, TypeOK
    <2>2. SaveInv'
      BY <1>7, SameRows DEF Abort, SaveInv, TypeOK
    <2>3. LoadInv'
      BY <1>7 DEF Abort, LoadInv, TypeOK
    <2>4. QED
      BY <1>1, <2>1, <2>2, <2>3
  <1>8. QED
    BY <1>2, <1>3, <1>4, <1>5, <1>6, <1>7 DEF Create

-----------------------------------------------------------------------------
Worth(k) == [m \in Materials |-> paid[k][m] * lines[k][m]]

(* Prices and quantities are never negative.                               *)
LEMMA Numbers ==
  ASSUME TypeOK
  PROVE  /\ \A m \in Materials : price[m] \in Nat
         /\ \A k \in Calcs, m \in Materials : paid[k][m] \in Nat /\ lines[k][m] \in Nat
         /\ \A k \in Calcs : cost[k] \in Int /\ ask[k].qty \in Int
  <1>1. Prices \union {0} \subseteq Nat /\ 0..MaxQuantity \subseteq Nat /\ -Half..Half - 1 \subseteq Int
    BY CostAssumption
  <1>2. /\ price \in [Materials -> Nat]
        /\ \A k \in Calcs : /\ paid[k] \in [Materials -> Nat]
                            /\ lines[k] \in [Materials -> Nat]
                            /\ cost[k] \in Int
    BY <1>1 DEF TypeOK
  <1>3. \A k \in Calcs : ask[k].qty \in Int
    BY CostAssumption DEF TypeOK
  <1>4. QED
    BY <1>2, <1>3

(* What a calculation has priced is worth a number of kopecks.             *)
LEMMA KopecksAreUnits ==
  ASSUME TypeOK, NEW k \in Calcs
  PROVE  /\ Worth(k) \in [Materials -> Nat]
         /\ Kopecks(k) = Units(Worth(k))
         /\ Cardinality(Kopecks(k)) \in Nat
  <1>1. ASSUME NEW m \in Materials PROVE paid[k][m] * lines[k][m] \in Nat
    <2>1. paid[k][m] \in Nat /\ lines[k][m] \in Nat
      BY Numbers
    <2>2. QED
      BY <2>1
  <1>2. Worth(k) \in [Materials -> Nat]
    BY <1>1 DEF Worth
  <1>3. Kopecks(k) = Units(Worth(k))
    BY DEF Kopecks, Units, Worth
  <1>4. QED
    BY <1>2, <1>3, UnitsFinite

(* One round adds the price of its line, as far as money is wide.          *)
LEMMA AddedLine ==
  ASSUME TypeOK, TypeOK', SumInv, NEW k \in Calcs, NEW m \in Materials, AddLine(k, m)
  PROVE  /\ \A n \in left'[k] : paid'[k][n] = 0
         /\ cost'[k] = Wrap(Cardinality(Kopecks(k)'))
  <1> DEFINE q == price[m] * lines[k][m]
             N == Cardinality(Kopecks(k))
  <1>1. paid'[k] = [paid[k] EXCEPT ![m] = price[m]] /\ lines'[k] = lines[k]
        /\ left'[k] = left[k] \ {m} /\ cost'[k] = Wrap(cost[k] + Wrap(q))
    BY DEF AddLine, TypeOK
  <1>2. paid[k] \in [Materials -> Prices \union {0}] /\ left[k] \subseteq Materials
    BY DEF TypeOK
  <1>3. paid[k][m] = 0 /\ (\A n \in left[k] : paid[k][n] = 0) /\ cost[k] = Wrap(N)
    BY DEF AddLine, SumInv
  <1>4. q \in Nat
    <2>1. price[m] \in Nat /\ lines[k][m] \in Nat
      BY Numbers
    <2>2. QED
      BY <2>1
  <1>5. Worth(k)' = [Worth(k) EXCEPT ![m] = q] /\ Worth(k)[m] = 0
    <2>1. 0 * lines[k][m] = 0
      BY Numbers
    <2>2. QED
      BY <1>1, <1>2, <1>3, <2>1 DEF Worth
  <1> HIDE DEF q
  <1>6. Cardinality(Kopecks(k)') = N + q
    <2>1. Kopecks(k)' = Units([Worth(k) EXCEPT ![m] = q])
      BY <1>5, KopecksAreUnits DEF Kopecks, Units, Worth
    <2>2. Worth(k) \in [Materials -> Nat] /\ Kopecks(k) = Units(Worth(k))
      BY KopecksAreUnits
    <2>3. Cardinality(Units([Worth(k) EXCEPT ![m] = q])) = Cardinality(Units(Worth(k))) + q
      BY <1>4, <1>5, <2>2, UnitsOfOneMore
    <2>4. QED
      BY <2>1, <2>2, <2>3
  <1>7. N \in Int /\ q \in Int
    BY <1>4, KopecksAreUnits
  <1> HIDE DEF N
  <1>8. cost'[k] = Wrap(N + q)
    BY <1>1, <1>3, <1>7, WrapOfSum
  <1>9. QED
    BY <1>1, <1>2, <1>3, <1>6, <1>8

(* Requests that ask for a cost.                                           *)
LEMMA CalcKeeps ==
  ASSUME IInv, NEW k \in Calcs, Calc(k)
  PROVE  IInv'
  <1> USE DEF IInv
  <1>1. UNCHANGED <<req, pc, written, stored, price, ask>>
    BY DEF Calc, Load, NotFound, Finish, GiveUp, AddLine, creating
  <1>2. SaveInv'
    BY <1>1, SameRows DEF SaveInv
  <1>3. ASSUME NEW j \in Calcs, j # k
        PROVE  /\ cpc'[j] = cpc[j] /\ lines'[j] = lines[j] /\ left'[j] = left[j]
               /\ paid'[j] = paid[j] /\ cost'[j] = cost[j] /\ Kopecks(j)' = Kopecks(j)
    <2>1. /\ cpc'[j] = cpc[j] /\ lines'[j] = lines[j] /\ left'[j] = left[j]
          /\ paid'[j] = paid[j] /\ cost'[j] = cost[j]
      BY <1>3 DEF Calc, Load, NotFound, Finish, GiveUp, AddLine, TypeOK
    <2>2. QED
      BY <2>1 DEF Kopecks
  <1> DEFINE Good ==
        /\ cpc'[k] \in {"pricing", "done"} =>
             pc[ask[k].recipe] = "done" /\ lines'[k] = stored[ask[k].recipe]
        /\ cpc'[k] # "new"
        /\ cpc'[k] = "pricing" =>
             /\ \A m \in left'[k] : paid'[k][m] = 0
             /\ cost'[k] = Wrap(Cardinality(Kopecks(k)'))
        /\ cpc'[k] = "done" =>
             cost'[k] = Wrap(CopiesOf(ask[k].qty) * Cardinality(Kopecks(k)'))
  <1>4. ASSUME TypeOK', Good PROVE IInv'
    <2>1. LoadInv'
      BY <1>1, <1>3, <1>4 DEF LoadInv
    <2>2. SumInv'
      BY <1>1, <1>3, <1>4 DEF SumInv
    <2>3. CostIsSum'
      BY <1>1, <1>3, <1>4 DEF CostIsSum
    <2>4. QED
      BY <1>2, <1>4, <2>1, <2>2, <2>3
  <1>5. CASE Load(k)
    <2>1. TypeOK'
      BY <1>1, <1>5 DEF Load, TypeOK
    <2>2. cpc'[k] = "pricing" /\ lines'[k] = stored[ask[k].recipe] /\ paid'[k] = NoRows /\ cost'[k] = 0
      BY <1>5 DEF Load, TypeOK, SumInv
    <2>3. pc[ask[k].recipe] = "done"
      <3>1. ask[k].recipe \in Recipes
        BY DEF TypeOK
      <3>2. QED
        BY <1>5, <3>1 DEF Load, Visible, SaveInv
    <2>4. \A m \in left'[k] : paid'[k][m] = 0
      BY <2>1, <2>2 DEF NoRows, TypeOK
    <2>5. Kopecks(k)' = {}
      <3>1. ASSUME NEW m \in Materials PROVE 1..paid'[k][m] * lines'[k][m] = {}
        <4>1. lines'[k][m] \in Int /\ paid'[k][m] = 0
          BY <2>1, <2>2, CostAssumption DEF NoRows, TypeOK
        <4>2. QED
          BY <4>1
      <3>2. QED
        BY <3>1 DEF Kopecks
    <2>6. Wrap(0) = 0
      <3>1. 0 \in Int64 /\ 0 \in Int /\ Wrap(0) \in Int64 /\ SameRest(0, Wrap(0))
        BY WrapKeepsRest, CostAssumption DEF Int64
      <3>2. QED
        BY <3>1, OneOfEachRest
    <2>7. QED
      BY <1>4, <2>1, <2>2, <2>3, <2>4, <2>5, <2>6, FS_EmptySet
  <1>6. CASE NotFound(k)
    <2>1. TypeOK' /\ cpc'[k] = "failed"
      BY <1>6 DEF NotFound, TypeOK, creating
    <2>2. QED
      BY <1>4, <2>1
  <1>7. CASE GiveUp(k)
    <2>1. TypeOK' /\ cpc'[k] = "failed"
      BY <1>7 DEF GiveUp, TypeOK, creating
    <2>2. QED
      BY <1>4, <2>1
  <1>8. CASE Finish(k)
    <2>1. Cardinality(Kopecks(k)) \in Int /\ CopiesOf(ask[k].qty) \in Int
      <3>1. ask[k].qty \in Int
        BY Numbers
      <3>2. QED
        BY <3>1, KopecksAreUnits DEF CopiesOf
    <2>2. cost'[k] = Wrap(cost[k] * CopiesOf(ask[k].qty)) /\ cost[k] = Wrap(Cardinality(Kopecks(k)))
      BY <1>8 DEF Finish, TypeOK, SumInv
    <2>3. cost'[k] = Wrap(CopiesOf(ask[k].qty) * Cardinality(Kopecks(k)))
      BY <2>1, <2>2, WrapOfProduct
    <2>4. cost'[k] \in -Half..Half - 1
      BY <2>1, <2>3, WrapKeepsRest DEF Int64
    <2>5. TypeOK' /\ cpc'[k] = "done" /\ lines'[k] = lines[k] /\ Kopecks(k)' = Kopecks(k)
      BY <1>8, <2>4 DEF Finish, TypeOK, creating, Kopecks
    <2>6. QED
      BY <1>4, <1>8, <2>3, <2>5 DEF Finish, LoadInv
  <1>9. ASSUME NEW m \in Materials, AddLine(k, m) PROVE IInv'
    <2>1. cost'[k] \in -Half..Half - 1
      <3>1. cost'[k] = Wrap(cost[k] + Wrap(price[m] * lines[k][m]))
        BY <1>9 DEF AddLine, TypeOK
      <3>2. price[m] \in Int /\ lines[k][m] \in Int /\ cost[k] \in Int
        BY Numbers
      <3>3. cost[k] + Wrap(price[m] * lines[k][m]) \in Int
        BY <3>2, WrapKeepsRest, CostAssumption DEF Int64
      <3>4. QED
        BY <3>1, <3>3, WrapKeepsRest DEF Int64
    <2>2. TypeOK'
      BY <1>9, <2>1 DEF AddLine, TypeOK, creating
    <2>3. /\ \A n \in left'[k] : paid'[k][n] = 0
          /\ cost'[k] = Wrap(Cardinality(Kopecks(k)'))
      BY <1>9, <2>2, AddedLine
    <2>4. cpc'[k] = "pricing" /\ cpc[k] = "pricing" /\ lines'[k] = lines[k]
      BY <1>9 DEF AddLine
    <2>5. QED
      BY <1>4, <2>2, <2>3, <2>4 DEF LoadInv
  <1>10. QED
    BY <1>5, <1>6, <1>7, <1>8, <1>9 DEF Calc

(* Everything the properties below need holds always.                      *)
THEOREM Invariance == Spec => []IInv
  <1>1. IInv /\ [Next]_vars => IInv'
    <2> SUFFICES ASSUME IInv, [Next]_vars PROVE IInv'
      OBVIOUS
    <2>1. ASSUME NEW m \in Materials, NEW p \in Prices, SetPrice(m, p) PROVE IInv'
      <3>1. TypeOK'
        BY <2>1 DEF SetPrice, creating, calculating, IInv, TypeOK
      <3>2. SaveInv' /\ LoadInv'
        BY <2>1, SameRows DEF SetPrice, creating, calculating, IInv, SaveInv, LoadInv
      <3>3. SumInv' /\ CostIsSum'
        BY <2>1 DEF SetPrice, creating, calculating, IInv, SumInv, CostIsSum, Kopecks
      <3>4. QED
        BY <3>1, <3>2, <3>3 DEF IInv
    <2>2. CASE UNCHANGED vars
      <3>1. TypeOK' /\ LoadInv'
        BY <2>2 DEF vars, IInv, TypeOK, LoadInv
      <3>2. SaveInv'
        BY <2>2, SameRows DEF vars, IInv, SaveInv
      <3>3. SumInv' /\ CostIsSum'
        BY <2>2 DEF vars, IInv, SumInv, CostIsSum, Kopecks
      <3>4. QED
        BY <3>1, <3>2, <3>3 DEF IInv
    <2>3. QED
      BY <2>1, <2>2, CreateKeeps, CalcKeeps DEF Next
  <1>2. QED
    BY <1>1, InitIInv, PTL DEF Spec

(* Rows stay within the quantity column and money within int64.            *)
THEOREM TypeCorrect == Spec => []TypeOK
  BY Invariance, PTL DEF IInv

(* No calculation ever sees part of a recipe, and the recipe it sees has   *)
(* a row for every line of the request, no two of them the same.           *)
THEOREM RecipesAreWhole == Spec => []WholeRecipes
  <1>1. IInv => WholeRecipes
    <2> SUFFICES ASSUME IInv, NEW k \in Calcs, cpc[k] \in {"pricing", "done"}
                 PROVE  LET asked == Ingredients(ask[k].recipe)
                        IN  /\ asked = {[material |-> m, quantity |-> lines[k][m]] :
                                          m \in {n \in Materials : lines[k][n] # 0}}
                            /\ Cardinality(asked) = Len(req[ask[k].recipe].ingredients)
      BY DEF WholeRecipes
    <2> DEFINE r == ask[k].recipe
    <2>1. r \in Recipes
      BY DEF IInv, TypeOK
    <2>2. lines[k] = written[r] /\ pc[r] = "done"
      BY <2>1 DEF IInv, LoadInv, SaveInv
    <2>3. Ingredients(r) = AsLines(lines[k]) /\ Count(r) = Len(req[r].ingredients)
      BY <2>1, <2>2 DEF IInv, SaveInv, Ingredients, FirstLines
    <2>4. Cardinality(AsLines(lines[k])) = Count(r)
      BY <2>2, LinesAreRows DEF Count, Rows
    <2>5. QED
      BY <2>3, <2>4 DEF AsLines, Rows
  <1>2. QED
    BY <1>1, Invariance, PTL

(* Overflow on the way does not spoil a cost that fits.                    *)
THEOREM CostIsExact == Spec => []CostIsSum
  BY Invariance, PTL DEF IInv
=============================================================================
