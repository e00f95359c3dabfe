-------------------------- MODULE OrderConfirmation --------------------------
(***************************************************************************)
(* Placing and confirming orders: PlaceOrderHandler saves a draft and then *)
(* calls ConfirmOrderHandler, which may also be called for the same order  *)
(* by other requests.  The handler reads the order and asks for the        *)
(* availability of its lines outside any transaction; inside one it calls  *)
(* the reservation service (which knows nothing of the transaction),       *)
(* confirms the aggregate and updates the row WHERE version = the version  *)
(* it has read.                                                            *)
(***************************************************************************)
EXTENDS Naturals

CONSTANTS
  Orders, Requests,
  Lines,           \* number of lines in the command that places each order
  StoredStatuses,  \* what the CHECK of orders.status lets in
  NoOrder,
  Faults           \* "abort": a handler stops anywhere; "answer": the commit's answer is lost

ASSUME ConfirmationAssumption ==
  /\ Lines \in [Orders -> Nat]
  /\ NoOrder \notin Orders
  /\ Faults \subseteq {"abort", "answer"}

VARIABLES
  status,        \* status[o]: the committed row, "none" before the draft is saved
  version,       \* version[o]: its version column
  zeroLine,      \* the order of the one order_items row whose id is the zero UUID
  cmd,           \* cmd[r]: what request r asks for
  pc,            \* pc[r]: how far its handler has come
  copy,          \* copy[r]: the order in r's memory
  reservations,  \* reservations[o]: successful calls of ReserveForOrder
  outbox         \* outbox[o]: how many order.confirmed events are stored for o

vars == <<status, version, zeroLine, cmd, pc, copy, reservations, outbox>>

Command == [op: {"place", "confirm"}, order: Orders]
Copy == [version: Nat, items: BOOLEAN]
Running == {"unsaved", "new", "loaded", "checked", "reserved", "updated"}
Ended == {"ok", "failed", "empty"}

Start(c) == IF c.op = "place" THEN "unsaved" ELSE "new"

(* Every order is placed under an id of its own.                           *)
Init ==
  /\ status = [o \in Orders |-> "none"]
  /\ version = [o \in Orders |-> 0]
  /\ zeroLine = NoOrder
  /\ cmd \in [Requests -> Command]
  /\ \A q, r \in Requests :
       cmd[q].op = "place" /\ cmd[r].op = "place" /\ cmd[q].order = cmd[r].order => q = r
  /\ pc = [r \in Requests |-> Start(cmd[r])]
  /\ copy = [r \in Requests |-> [version |-> 0, items |-> FALSE]]
  /\ reservations = [o \in Orders |-> 0]
  /\ outbox = [o \in Orders |-> 0]

rows == <<status, version, zeroLine, outbox>>

-----------------------------------------------------------------------------
(* The draft is inserted with its lines.  PlaceOrder gives the lines no id *)
(* and upsertItems is an INSERT ... ON CONFLICT (id): of all such lines    *)
(* only the first ever becomes a row.  order.created is not published.     *)
SaveDraft(r) ==
  /\ pc[r] = "unsaved" /\ "draft" \in StoredStatuses
  /\ pc' = [pc EXCEPT ![r] = "new"]
  /\ status' = [status EXCEPT ![cmd[r].order] = "draft"]
  /\ zeroLine' = IF zeroLine = NoOrder /\ Lines[cmd[r].order] > 0 THEN cmd[r].order ELSE zeroLine
  /\ UNCHANGED <<version, cmd, copy, reservations, outbox>>

SaveFails(r) ==
  /\ pc[r] = "unsaved"
  /\ "draft" \notin StoredStatuses \/ "abort" \in Faults
  /\ pc' = [pc EXCEPT ![r] = "failed"]
  /\ UNCHANGED <<rows, cmd, copy, reservations>>

(* FindByID and the test for a draft.                                      *)
Load(r) ==
  /\ pc[r] = "new" /\ status[cmd[r].order] = "draft"
  /\ pc' = [pc EXCEPT ![r] = "loaded"]
  /\ copy' = [copy EXCEPT ![r] = [version |-> version[cmd[r].order],
                                  items |-> zeroLine = cmd[r].order]]
  /\ UNCHANGED <<rows, cmd, reservations>>

(* ErrOrderNotFound or ErrOrderNotDraft.                                   *)
NotDraft(r) ==
  /\ pc[r] = "new" /\ status[cmd[r].order] # "draft"
  /\ pc' = [pc EXCEPT ![r] = "failed"]
  /\ UNCHANGED <<rows, cmd, copy, reservations>>

(* AvailabilityService answers for each line as it likes; an order that    *)
(* was read without lines passes.                                          *)
Check(r) ==
  /\ pc[r] = "loaded"
  /\ \/ pc' = [pc EXCEPT ![r] = "checked"]
     \/ copy[r].items /\ pc' = [pc EXCEPT ![r] = "failed"]
  /\ UNCHANGED <<rows, cmd, copy, reservations>>

(* Mutant: an error of the reservation service is ignored.                 *)
ReserveIgnored(r) ==
  /\ pc[r] = "checked"
  /\ pc' = [pc EXCEPT ![r] = "reserved"]
  /\ \/ reservations' = [reservations EXCEPT ![cmd[r].order] = @ + 1]
     \/ UNCHANGED reservations
  /\ UNCHANGED <<rows, cmd, copy>>

(* ReserveForOrder gets no transaction: what it does is done.              *)
Reserve(r) ==
  /\ pc[r] = "checked"
  /\ \/ /\ pc' = [pc EXCEPT ![r] = "reserved"]
        /\ reservations' = [reservations EXCEPT ![cmd[r].order] = @ + 1]
     \/ /\ pc' = [pc EXCEPT ![r] = "failed"]
        /\ UNCHANGED reservations
  /\ UNCHANGED <<rows, cmd, copy>>

(* Order.Confirm on a copy without lines: ErrEmptyOrder.                   *)
RefuseEmpty(r) ==
  /\ pc[r] = "reserved" /\ ~copy[r].items
  /\ pc' = [pc EXCEPT ![r] = "empty"]
  /\ UNCHANGED <<rows, cmd, copy, reservations>>

(* A transaction that has updated the row keeps its lock until it ends.    *)
Locked(o) == \E r \in Requests : pc[r] = "updated" /\ cmd[r].order = o

(* Mutant: UpdateTx without the test of the version.                       *)
UpdateTxUnguarded(r) ==
  /\ pc[r] = "reserved" /\ copy[r].items /\ ~Locked(cmd[r].order)
  /\ pc' = [pc EXCEPT ![r] = "updated"]
  /\ UNCHANGED <<rows, cmd, copy, reservations>>

(* Order.Confirm, and UpdateTx finds the version that was read.            *)
UpdateTx(r) ==
  /\ pc[r] = "reserved" /\ copy[r].items /\ ~Locked(cmd[r].order)
  /\ copy[r].version = version[cmd[r].order]
  /\ pc' = [pc EXCEPT ![r] = "updated"]
  /\ UNCHANGED <<rows, cmd, copy, reservations>>

(* Mutant: no rows affected is taken for a success.                        *)
ConflictIgnored(r) ==
  /\ pc[r] = "reserved" /\ copy[r].items /\ copy[r].version # version[cmd[r].order]
  /\ pc' = [pc EXCEPT ![r] = "ok"]
  /\ UNCHANGED <<rows, cmd, copy, reservations>>

(* Mutant: after a conflict the update is tried again with the old copy.   *)
ConflictRetried(r) ==
  /\ pc[r] = "reserved" /\ copy[r].items /\ copy[r].version # version[cmd[r].order]
  /\ pc' = [pc EXCEPT ![r] = "reserved"]
  /\ UNCHANGED <<rows, cmd, copy, reservations>>

(* UpdateTx updates no row: ErrOptimisticLock.                             *)
Conflict(r) ==
  /\ pc[r] = "reserved" /\ copy[r].items /\ copy[r].version # version[cmd[r].order]
  /\ pc' = [pc EXCEPT ![r] = "failed"]
  /\ UNCHANGED <<rows, cmd, copy, reservations>>

(* The row and order.confirmed are committed together.                     *)
Commit(r) ==
  /\ pc[r] = "updated"
  /\ \/ pc' = [pc EXCEPT ![r] = "ok"]
     \/ "answer" \in Faults /\ pc' = [pc EXCEPT ![r] = "failed"]
  /\ LET o == cmd[r].order
     IN  /\ status' = [status EXCEPT ![o] = "confirmed"]
         /\ version' = [version EXCEPT ![o] = @ + 1]
         /\ outbox' = [outbox EXCEPT ![o] = @ + 1]
  /\ UNCHANGED <<zeroLine, cmd, copy, reservations>>

(* An error, a cancelled request or the end of the process.                *)
Abort(r) ==
  /\ "abort" \in Faults /\ pc[r] \in Running \ {"unsaved"}
  /\ pc' = [pc EXCEPT ![r] = "failed"]
  /\ UNCHANGED <<rows, cmd, copy, reservations>>

Step(r) ==
  \/ SaveDraft(r) \/ SaveFails(r) \/ Load(r) \/ NotDraft(r) \/ Check(r) \/ Reserve(r)
  \/ RefuseEmpty(r) \/ UpdateTx(r) \/ Conflict(r) \/ Commit(r)

Next == \E r \in Requests : Step(r) \/ Abort(r)

Spec == Init /\ [][Next]_vars

(* Handlers keep running: net/http gives each request a goroutine.         *)
FairSpec == Spec /\ \A r \in Requests : WF_vars(Step(r))

-----------------------------------------------------------------------------
TypeOK ==
  /\ status \in [Orders -> {"none", "draft", "confirmed"}]
  /\ version \in [Orders -> Nat]
  /\ zeroLine \in Orders \union {NoOrder}
  /\ cmd \in [Requests -> Command]
  /\ pc \in [Requests -> Running \union Ended]
  /\ copy \in [Requests -> Copy]
  /\ reservations \in [Orders -> Nat]
  /\ outbox \in [Orders -> 0..1]

(* However many requests confirm an order at once, order.confirmed is      *)
(* stored exactly when the order is confirmed, and once.                   *)
ConfirmedOnce ==
  \A o \in Orders : outbox[o] = IF status[o] = "confirmed" THEN 1 ELSE 0

(* At most one request per order is told it has confirmed it, and then it  *)
(* is confirmed.                                                           *)
OneSuccess ==
  \A r \in Requests : pc[r] = "ok" =>
    /\ status[cmd[r].order] = "confirmed"
    /\ \A q \in Requests \ {r} : pc[q] = "ok" => cmd[q].order # cmd[r].order

(* A confirmed order has been reserved, and has a line.                    *)
ConfirmedIsReserved ==
  \A o \in Orders : status[o] = "confirmed" => reservations[o] > 0 /\ zeroLine = o

(* Every request ends: none waits for a row lock for ever.                 *)
RequestsEnd == \A r \in Requests : <>(pc[r] \in Ended)
=============================================================================
