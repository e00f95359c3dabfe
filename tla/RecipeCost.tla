----------------------------- MODULE RecipeCost -----------------------------
(***************************************************************************)
(* Production: recipes are created in one transaction per recipe, and the  *)
(* cost of a recipe is calculated by asking the price of one material      *)
(* after the other while prices change.  Money is a signed machine integer *)
(* (int64) and wraps; quantity is an INT column with CHECK (quantity > 0). *)
(***************************************************************************)
EXTENDS Integers, Sequences, FiniteSets

CONSTANTS
  Recipes,      \* each is created by one request, under an id of its own
  Calcs,        \* requests for a cost
  Materials,
  Quantities,   \* quantities a request may carry
  MaxQuantity,  \* the largest value of the quantity column
  Copies,       \* values of the qty parameter
  Prices,
  Half,         \* money runs from -Half to Half - 1
  MaxLines,     \* bound: lines of a request
  Faults        \* "abort": a request stops anywhere

ASSUME CostAssumption ==
  /\ IsFiniteSet(Materials)
  /\ Quantities \subseteq Int /\ Copies \subseteq Int
  /\ MaxQuantity \in Nat \ {0} /\ Half \in Nat \ {0} /\ MaxLines \in Nat
  /\ Prices \subseteq 0..Half - 1
  /\ Faults \subseteq {"abort"}

VARIABLES
  req,      \* req[r]: the request that creates r: is there a name, and its lines
  pc,       \* pc[r]: how far it has come
  written,  \* written[r]: the recipe_ingredients rows its transaction has inserted
  stored,   \* stored[r]: the rows others see, quantity 0 where there is none
  price,    \* price[m]: what GetPrice answers now
  ask,      \* ask[k]: the recipe and the qty parameter of calculation k
  cpc,      \* cpc[k]: how far it has come
  lines,    \* lines[k]: the recipe in its memory
  left,     \* left[k]: the materials whose price it still has to ask
  paid,     \* paid[k]: UnitPrice of the lines it has
  cost      \* cost[k]: total, and TotalCost at the end

vars == <<req, pc, written, stored, price, ask, cpc, lines, left, paid, cost>>
creating == <<req, pc, written, stored>>
calculating == <<ask, cpc, lines, left, paid, cost>>

Ingredient == [material: Materials, quantity: Quantities]
Requests == [named: BOOLEAN, ingredients: UNION {[1..n -> Ingredient] : n \in 0..MaxLines}]
NoRows == [m \in Materials |-> 0]

Init ==
  /\ req \in [Recipes -> Requests]
  /\ pc = [r \in Recipes |-> "new"]
  /\ written = [r \in Recipes |-> NoRows]
  /\ stored = [r \in Recipes |-> NoRows]
  /\ price \in [Materials -> Prices]
  /\ ask \in [Calcs -> [recipe: Recipes, qty: Copies]]
  /\ cpc = [k \in Calcs |-> "new"]
  /\ lines = [k \in Calcs |-> NoRows]
  /\ left = [k \in Calcs |-> {}]
  /\ paid = [k \in Calcs |-> NoRows]
  /\ cost = [k \in Calcs |-> 0]

-----------------------------------------------------------------------------
(* NewRecipe's checks.                                                     *)
Valid(r) == req[r].named /\ req[r].ingredients # <<>>

(* Save: the transaction's first two statements.  The id is new, so there  *)
(* is no row to update and there are no ingredients to delete.             *)
Begin(r) ==
  /\ pc[r] = "new" /\ Valid(r)
  /\ pc' = [pc EXCEPT ![r] = "saving"]
  /\ UNCHANGED <<req, written, stored, price, calculating>>

Reject(r) ==
  /\ pc[r] = "new" /\ ~Valid(r)
  /\ pc' = [pc EXCEPT ![r] = "failed"]
  /\ UNCHANGED <<req, written, stored, price, calculating>>

Count(r) == Cardinality({m \in Materials : written[r][m] # 0})

NextLine(r) == req[r].ingredients[Count(r) + 1]

(* Mutant: the table without its CHECK.                                    *)
InsertableUnchecked(r) == written[r][NextLine(r).material] = 0

(* What the table accepts: its CHECK, its type and its primary key.        *)
Insertable(r) ==
  /\ NextLine(r).quantity \in 1..MaxQuantity
  /\ written[r][NextLine(r).material] = 0

InLoop(r) == pc[r] = "saving" /\ Count(r) < Len(req[r].ingredients)

(* Mutant: the rows go through the pool, each a transaction of its own.    *)
InsertOnPool(r) ==
  /\ InLoop(r) /\ Insertable(r)
  /\ written' = [written EXCEPT ![r][NextLine(r).material] = NextLine(r).quantity]
  /\ stored' = [stored EXCEPT ![r] = written'[r]]
  /\ UNCHANGED <<req, pc, price, calculating>>

Insert(r) ==
  /\ InLoop(r) /\ Insertable(r)
  /\ written' = [written EXCEPT ![r][NextLine(r).material] = NextLine(r).quantity]
  /\ UNCHANGED <<req, pc, stored, price, calculating>>

(* The statement fails and the deferred Rollback ends the transaction.     *)
InsertFails(r) ==
  /\ InLoop(r) /\ ~Insertable(r)
  /\ pc' = [pc EXCEPT ![r] = "failed"]
  /\ UNCHANGED <<req, written, stored, price, calculating>>

Commit(r) ==
  /\ pc[r] = "saving" /\ ~InLoop(r)
  /\ pc' = [pc EXCEPT ![r] = "done"]
  /\ stored' = [stored EXCEPT ![r] = written[r]]
  /\ UNCHANGED <<req, written, price, calculating>>

Abort(r) ==
  /\ "abort" \in Faults /\ pc[r] = "saving"
  /\ pc' = [pc EXCEPT ![r] = "failed"]
  /\ UNCHANGED <<req, written, stored, price, calculating>>

-----------------------------------------------------------------------------
SetPrice(m, p) ==
  /\ price' = [price EXCEPT ![m] = p]
  /\ UNCHANGED <<creating, calculating>>

(* Two's complement.                                                       *)
Wrap(n) == ((n + Half) % (2 * Half)) - Half

(* The handlers' default for a missing or senseless qty.                   *)
CopiesOf(q) == IF q <= 0 THEN 1 ELSE q

Visible(r) == stored[r] # NoRows

(* FindByID.                                                               *)
Load(k) ==
  /\ cpc[k] = "new" /\ Visible(ask[k].recipe)
  /\ cpc' = [cpc EXCEPT ![k] = "pricing"]
  /\ lines' = [lines EXCEPT ![k] = stored[ask[k].recipe]]
  /\ left' = [left EXCEPT ![k] = {m \in Materials : stored[ask[k].recipe][m] # 0}]
  /\ UNCHANGED <<creating, price, ask, paid, cost>>

NotFound(k) ==
  /\ cpc[k] = "new" /\ ~Visible(ask[k].recipe)
  /\ cpc' = [cpc EXCEPT ![k] = "failed"]
  /\ UNCHANGED <<creating, price, ask, lines, left, paid, cost>>

(* Mutant: the total is multiplied in every round.                         *)
AddLineTimesQty(k, m) ==
  /\ cpc[k] = "pricing" /\ m \in left[k]
  /\ left' = [left EXCEPT ![k] = @ \ {m}]
  /\ paid' = [paid EXCEPT ![k][m] = price[m]]
  /\ cost' = [cost EXCEPT ![k] = Wrap((@ + Wrap(price[m] * lines[k][m])) * CopiesOf(ask[k].qty))]
  /\ UNCHANGED <<creating, price, ask, cpc, lines>>

(* One round of the loop: GetPrice and the line; rows come in any order.   *)
AddLine(k, m) ==
  /\ cpc[k] = "pricing" /\ m \in left[k]
  /\ left' = [left EXCEPT ![k] = @ \ {m}]
  /\ paid' = [paid EXCEPT ![k][m] = price[m]]
  /\ cost' = [cost EXCEPT ![k] = Wrap(@ + Wrap(price[m] * lines[k][m]))]
  /\ UNCHANGED <<creating, price, ask, cpc, lines>>

Finish(k) ==
  /\ cpc[k] = "pricing" /\ left[k] = {}
  /\ cpc' = [cpc EXCEPT ![k] = "done"]
  /\ cost' = [cost EXCEPT ![k] = Wrap(@ * CopiesOf(ask[k].qty))]
  /\ UNCHANGED <<creating, price, ask, lines, left, paid>>

(* GetPrice fails, or the request is cancelled: no result at all.          *)
GiveUp(k) ==
  /\ "abort" \in Faults /\ cpc[k] = "pricing"
  /\ cpc' = [cpc EXCEPT ![k] = "failed"]
  /\ UNCHANGED <<creating, price, ask, lines, left, paid, cost>>

Create(r) ==
  Begin(r) \/ Reject(r) \/ Insert(r) \/ InsertFails(r) \/ Commit(r) \/ Abort(r)

Calc(k) ==
  \/ Load(k) \/ NotFound(k) \/ Finish(k) \/ GiveUp(k)
  \/ \E m \in Materials : AddLine(k, m)

Next ==
  \/ \E r \in Recipes : Create(r)
  \/ \E k \in Calcs : Calc(k)
  \/ \E m \in Materials, p \in Prices : SetPrice(m, p)

Spec == Init /\ [][Next]_vars

-----------------------------------------------------------------------------
TypeOK ==
  /\ req \in [Recipes -> Requests]
  /\ pc \in [Recipes -> {"new", "saving", "done", "failed"}]
  /\ written \in [Recipes -> [Materials -> 0..MaxQuantity]]
  /\ stored \in [Recipes -> [Materials -> 0..MaxQuantity]]
  /\ price \in [Materials -> Prices]
  /\ ask \in [Calcs -> [recipe: Recipes, qty: Copies]]
  /\ cpc \in [Calcs -> {"new", "pricing", "done", "failed"}]
  /\ lines \in [Calcs -> [Materials -> 0..MaxQuantity]]
  /\ left \in [Calcs -> SUBSET Materials]
  /\ paid \in [Calcs -> [Materials -> Prices \union {0}]]
  /\ cost \in [Calcs -> -Half..Half - 1]

Ingredients(r) == {req[r].ingredients[i] : i \in 1..Len(req[r].ingredients)}

(* A cost is calculated from all of a recipe or not at all: a calculation  *)
(* that runs while the recipe is being saved never sees some of its lines, *)
(* and what is saved is the request, line by line, with no line merged,    *)
(* dropped or out of the column's range.                                   *)
WholeRecipes ==
  \A k \in Calcs : cpc[k] \in {"pricing", "done"} =>
    LET asked == Ingredients(ask[k].recipe)
    IN  /\ asked = {[material |-> m, quantity |-> lines[k][m]] :
                      m \in {n \in Materials : lines[k][n] # 0}}
        /\ Cardinality(asked) = Len(req[ask[k].recipe].ingredients)

(* What the lines cost, kopeck by kopeck, so that it can be counted.       *)
Kopecks(k) == UNION {{m} \X (1..paid[k][m] * lines[k][m]) : m \in Materials}

(* The result is the sum of its lines times the quantity, with the prices  *)
(* the lines show (whenever they were asked) and one wrap at the end: the  *)
(* wraps on the way and the order of the materials make no difference, so  *)
(* a cost that fits is exact.                                              *)
CostIsSum ==
  \A k \in Calcs : cpc[k] = "done" =>
    cost[k] = Wrap(CopiesOf(ask[k].qty) * Cardinality(Kopecks(k)))
=============================================================================
