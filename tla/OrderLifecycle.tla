---------------------------- MODULE OrderLifecycle ----------------------------
(***************************************************************************)
(* The order aggregate and its repository: clients load an order, change   *)
(* it in memory with the methods of domain.Order and save it with Update.  *)
(* Orders share nothing, so the module has one.                            *)
(*                                                                         *)
(* FindByID reads the row and its lines in two statements.  Update writes  *)
(* the row WHERE version = the version read and upserts the lines of the   *)
(* copy; it never deletes a line.                                          *)
(***************************************************************************)
EXTENDS Naturals

CONSTANTS
  Clients,  \* each loads the order once, changes it and saves it
  Items,    \* the ids AddItem may give to new lines
  Faults    \* "abort": a client stops anywhere

ASSUME LifecycleAssumption == Faults \subseteq {"abort"}

VARIABLES
  status, version,  \* the columns of the row
  lines,            \* the ids of the order's rows in order_items
  reserved,         \* the reservation service holds stock for the order
  pc,               \* pc[c]: how far client c has come
  seen,             \* seen[c]: the version c has read
  state,            \* state[c]: the status of the copy in c's memory
  items             \* items[c]: the lines of that copy

vars == <<status, version, lines, reserved, pc, seen, state, items>>

Rank == [draft |-> 0, confirmed |-> 1, in_production |-> 2, assembled |-> 3,
         shipped |-> 4, cancelled |-> 5]
Statuses == DOMAIN Rank

(* NewOrder, AddItem before the first save, Save.                          *)
Init ==
  /\ status = "draft" /\ version = 0 /\ lines \in SUBSET Items /\ reserved = FALSE
  /\ pc = [c \in Clients |-> "new"]
  /\ seen = [c \in Clients |-> 0]
  /\ state = [c \in Clients |-> "draft"]
  /\ items = [c \in Clients |-> {}]

row == <<status, version, lines>>
aggregate == <<seen, state, items>>

-----------------------------------------------------------------------------
(* FindByID's first statement.                                             *)
FindRow(c) ==
  /\ pc[c] = "new"
  /\ pc' = [pc EXCEPT ![c] = "half"]
  /\ seen' = [seen EXCEPT ![c] = version]
  /\ state' = [state EXCEPT ![c] = status]
  /\ UNCHANGED <<row, reserved, items>>

(* findItems.                                                              *)
FindItems(c) ==
  /\ pc[c] = "half"
  /\ pc' = [pc EXCEPT ![c] = "ready"]
  /\ items' = [items EXCEPT ![c] = lines]
  /\ UNCHANGED <<row, reserved, seen, state>>

InDraft(c) == pc[c] = "ready" /\ state[c] = "draft"

(* A new line gets an id of its own.                                       *)
AddItem(c) ==
  /\ InDraft(c)
  /\ \E i \in Items \ (lines \union UNION {items[d] : d \in Clients}) :
       items' = [items EXCEPT ![c] = @ \union {i}]
  /\ UNCHANGED <<row, reserved, pc, seen, state>>

RemoveItem(c, i) ==
  /\ InDraft(c) /\ i \in items[c]
  /\ items' = [items EXCEPT ![c] = @ \ {i}]
  /\ UNCHANGED <<row, reserved, pc, seen, state>>

Become(c, to) ==
  /\ state' = [state EXCEPT ![c] = to]
  /\ UNCHANGED <<row, pc, seen, items>>

(* Mutant: Confirm does not look at the lines.                             *)
ConfirmEmpty(c) == InDraft(c) /\ reserved' = TRUE /\ Become(c, "confirmed")

(* Confirm, called by ConfirmOrderHandler after it has reserved the stock. *)
Confirm(c) ==
  /\ InDraft(c) /\ items[c] # {}
  /\ reserved' = TRUE
  /\ Become(c, "confirmed")

(* Mutant: Ship sets the status that migration 001 knows.                  *)
AdvanceCompleted(c) ==
  /\ pc[c] = "ready"
  /\ \/ state[c] = "confirmed" /\ Become(c, "in_production")
     \/ state[c] = "in_production" /\ Become(c, "assembled")
     \/ state[c] = "assembled" /\ Become(c, "completed")
  /\ UNCHANGED reserved

(* MarkInProduction, MarkAssembled and Ship.                               *)
Advance(c) ==
  /\ pc[c] = "ready"
  /\ \/ state[c] = "confirmed" /\ Become(c, "in_production")
     \/ state[c] = "in_production" /\ Become(c, "assembled")
     \/ state[c] = "assembled" /\ Become(c, "shipped")
  /\ UNCHANGED reserved

(* Mutant: a shipped order may be cancelled.                               *)
CancelShipped(c) ==
  /\ pc[c] = "ready" /\ state[c] # "cancelled"
  /\ Become(c, "cancelled")
  /\ UNCHANGED reserved

(* Cancel refuses cancelled and shipped orders only, and leaves the        *)
(* reservation to somebody else.                                           *)
Cancel(c) ==
  /\ pc[c] = "ready" /\ state[c] \notin {"cancelled", "shipped"}
  /\ Become(c, "cancelled")
  /\ UNCHANGED reserved

-----------------------------------------------------------------------------
(* A transaction that has updated the row keeps its lock until it ends.    *)
Locked == \E c \in Clients : pc[c] = "updated"

(* Mutant: Update without the test of the version.                         *)
UpdateUnguarded(c) ==
  /\ pc[c] = "ready" /\ ~Locked
  /\ pc' = [pc EXCEPT ![c] = "updated"]
  /\ UNCHANGED <<row, reserved, aggregate>>

Update(c) ==
  /\ pc[c] = "ready" /\ ~Locked /\ seen[c] = version
  /\ pc' = [pc EXCEPT ![c] = "updated"]
  /\ UNCHANGED <<row, reserved, aggregate>>

(* Update changes no row: ErrOptimisticLock.                               *)
Conflict(c) ==
  /\ pc[c] = "ready" /\ seen[c] # version
  /\ pc' = [pc EXCEPT ![c] = "failed"]
  /\ UNCHANGED <<row, reserved, aggregate>>

(* The row and upsertItems' rows become visible together.                  *)
Commit(c) ==
  /\ pc[c] = "updated"
  /\ pc' = [pc EXCEPT ![c] = "done"]
  /\ status' = state[c]
  /\ version' = version + 1
  /\ lines' = lines \union items[c]
  /\ UNCHANGED <<reserved, aggregate>>

(* A domain error, another error, a cancelled request, a crash.            *)
Abort(c) ==
  /\ "abort" \in Faults /\ pc[c] \in {"new", "half", "ready", "updated"}
  /\ pc' = [pc EXCEPT ![c] = "failed"]
  /\ UNCHANGED <<row, reserved, aggregate>>

Change(c) ==
  \/ AddItem(c) \/ Confirm(c) \/ Advance(c) \/ Cancel(c)
  \/ \E i \in Items : RemoveItem(c, i)

Next == \E c \in Clients :
  \/ FindRow(c) \/ FindItems(c) \/ Change(c)
  \/ Update(c) \/ Conflict(c) \/ Commit(c) \/ Abort(c)

Spec == Init /\ [][Next]_vars

-----------------------------------------------------------------------------
TypeOK ==
  /\ status \in Statuses /\ version \in Nat /\ lines \subseteq Items
  /\ reserved \in BOOLEAN
  /\ pc \in [Clients -> {"new", "half", "ready", "updated", "done", "failed"}]
  /\ seen \in [Clients -> 0..version]
  /\ state \in [Clients -> Statuses]
  /\ items \in [Clients -> SUBSET Items]

Ends == {"shipped", "cancelled"}

Later(s, t) == s = t \/ (s \notin Ends /\ Rank[s] < Rank[t])

(* Clients that act on different states of an order at once never take it  *)
(* back: it goes from draft towards shipped, may be cancelled on the way,  *)
(* and an order that was shipped is never cancelled, nor the other way.    *)
StatusGoesForward == [][Later(status, status')]_vars

(* The lines a customer has confirmed stay as they are: an AddItem that    *)
(* was made on a draft is not saved after somebody has confirmed it.       *)
ConfirmedIsFrozen == [][status # "draft" => lines' = lines]_vars

(* What goes into production has a line, and somebody has reserved for it. *)
NothingFromNothing ==
  status \notin {"draft", "cancelled"} => lines # {} /\ reserved
=============================================================================
