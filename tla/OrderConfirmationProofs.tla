----------------------- MODULE OrderConfirmationProofs -----------------------
(***************************************************************************)
(* An order is confirmed once, for any orders, requests and faults.  The   *)
(* argument: a handler that has read a draft has read version 0, and the   *)
(* first commit makes the version 1, so that of all handlers that read the *)
(* draft only one passes the test of the version.                          *)
(***************************************************************************)
EXTENDS OrderConfirmation, TLAPS

InFlight(r) == pc[r] \in {"loaded", "checked", "reserved", "updated"}

RowInv ==
  \A o \in Orders : version[o] = IF status[o] = "confirmed" THEN 1 ELSE 0

(* A place request that has not saved yet is the only one to know its id.  *)
PlaceInv ==
  /\ \A q, r \in Requests :
       cmd[q].op = "place" /\ cmd[r].op = "place" /\ cmd[q].order = cmd[r].order => q = r
  /\ \A r \in Requests : pc[r] = "unsaved" =>
       cmd[r].op = "place" /\ status[cmd[r].order] = "none"

CopyInv ==
  \A r \in Requests : InFlight(r) =>
    /\ copy[r].version = 0 /\ status[cmd[r].order] # "none"
    /\ copy[r].items => zeroLine = cmd[r].order
    /\ pc[r] \in {"reserved", "updated"} => reservations[cmd[r].order] > 0

LockInv ==
  \A r \in Requests : pc[r] = "updated" =>
    /\ copy[r].items /\ version[cmd[r].order] = 0
    /\ \A q \in Requests \ {r} : pc[q] = "updated" => cmd[q].order # cmd[r].order

IInv ==
  /\ TypeOK /\ RowInv /\ PlaceInv /\ CopyInv /\ LockInv
  /\ ConfirmedOnce /\ OneSuccess /\ ConfirmedIsReserved

-----------------------------------------------------------------------------
(* At first nothing is stored and every place request has an id of its     *)
(* own.                                                                    *)
LEMMA InitIInv == Init => IInv
  <1> SUFFICES ASSUME Init PROVE IInv
    OBVIOUS
  <1> USE ConfirmationAssumption DEF Init
  <1>1. \A r \in Requests : pc[r] \in {"unsaved", "new"} /\ (pc[r] = "unsaved" => cmd[r].op = "place")
    BY DEF Start
  <1>2. TypeOK
    BY DEF TypeOK, Command, Copy, Running, Ended, Start
  <1>3. RowInv /\ ConfirmedOnce /\ ConfirmedIsReserved
    BY DEF RowInv, ConfirmedOnce, ConfirmedIsReserved
  <1>4. PlaceInv
    BY <1>1, <1>2 DEF PlaceInv, TypeOK, Command
  <1>5. CopyInv /\ LockInv /\ OneSuccess
    BY <1>1 DEF CopyInv, LockInv, OneSuccess, InFlight
  <1>6. QED
    BY <1>2, <1>3, <1>4, <1>5 DEF IInv

(* Nobody else knows the id of an order that is being placed.              *)
LEMMA SaveDraftIInv ==
  ASSUME IInv, NEW r \in Requests, SaveDraft(r)
  PROVE  IInv'
  <1> USE ConfirmationAssumption
  <1> DEFINE o == cmd[r].order
  <1>1. /\ pc[r] = "unsaved" /\ pc' = [pc EXCEPT ![r] = "new"]
        /\ status' = [status EXCEPT ![o] = "draft"]
        /\ zeroLine' \in {zeroLine, o} /\ (zeroLine # NoOrder => zeroLine' = zeroLine)
        /\ UNCHANGED <<version, cmd, copy, reservations, outbox>>
    BY DEF SaveDraft
  <1>2. o \in Orders /\ status[o] = "none" /\ cmd[r].op = "place"
    BY <1>1 DEF IInv, TypeOK, Command, PlaceInv
  <1>3. /\ \A p \in Orders : status'[p] = IF p = o THEN "draft" ELSE status[p]
        /\ \A q \in Requests : pc'[q] = IF q = r THEN "new" ELSE pc[q]
    BY <1>1 DEF IInv, TypeOK
  <1>4. \A q \in Requests : InFlight(q) => cmd[q].order # o
    BY <1>2 DEF IInv, CopyInv
  <1>5. \A p \in Orders : zeroLine = p => zeroLine' = p
    BY <1>1
  <1> HIDE DEF o
  <1>6. TypeOK'
    BY <1>1, <1>2 DEF IInv, TypeOK, Running
  <1>7. RowInv' /\ ConfirmedOnce' /\ ConfirmedIsReserved'
    BY <1>1, <1>2, <1>3, <1>5 DEF IInv, RowInv, ConfirmedOnce, ConfirmedIsReserved
  <1>8. PlaceInv'
    BY <1>1, <1>2, <1>3 DEF IInv, PlaceInv, TypeOK, Command, o
  <1>9. CopyInv'
    <2>1. \A q \in Requests : InFlight(q)' =>
            InFlight(q) /\ pc'[q] = pc[q] /\ cmd[q].order \in Orders
      BY <1>3 DEF InFlight, IInv, TypeOK, Command
    <2>2. QED
      BY <1>1, <1>3, <1>5, <2>1 DEF IInv, CopyInv
  <1>10. LockInv' /\ OneSuccess'
    BY <1>1, <1>2, <1>3 DEF IInv, LockInv, OneSuccess, TypeOK, Command
  <1>11. QED
    BY <1>6, <1>7, <1>8, <1>9, <1>10 DEF IInv

(* A handler that finds a draft has read version 0.                        *)
LEMMA LoadIInv ==
  ASSUME IInv, NEW r \in Requests, Load(r)
  PROVE  IInv'
  <1> DEFINE y == [version |-> version[cmd[r].order], items |-> zeroLine = cmd[r].order]
  <1>1. /\ pc[r] = "new" /\ pc' = [pc EXCEPT ![r] = "loaded"]
        /\ copy' = [copy EXCEPT ![r] = y] /\ status[cmd[r].order] = "draft"
        /\ UNCHANGED <<status, version, zeroLine, outbox, cmd, reservations>>
    BY DEF Load, rows
  <1>2. cmd[r].order \in Orders /\ version[cmd[r].order] = 0
    BY <1>1 DEF IInv, TypeOK, Command, RowInv
  <1>3. y \in Copy /\ y.version = 0 /\ (y.items => zeroLine = cmd[r].order)
    <2>1. /\ (zeroLine = cmd[r].order) \in BOOLEAN
          /\ y.version = version[cmd[r].order] /\ y.items = (zeroLine = cmd[r].order)
      BY Zenon
    <2>2. version[cmd[r].order] \in Nat
      BY <1>2
    <2>3. y \in Copy
      BY <2>1, <2>2, Zenon DEF Copy
    <2>4. y.version = 0
      BY <1>2, <2>1, Zenon
    <2>5. y.items => zeroLine = cmd[r].order
      BY <2>1, Zenon
    <2>6. QED
      BY <2>3, <2>4, <2>5
  <1> HIDE DEF y
  <1>4. \A q \in Requests : /\ pc'[q] = IF q = r THEN "loaded" ELSE pc[q]
                            /\ copy'[q] = IF q = r THEN y ELSE copy[q]
    BY <1>1 DEF IInv, TypeOK
  <1>5. TypeOK'
    BY <1>1, <1>3 DEF IInv, TypeOK, Running
  <1>6. CopyInv'
    BY <1>1, <1>3, <1>4 DEF IInv, CopyInv, InFlight
  <1>7. PlaceInv' /\ LockInv' /\ OneSuccess'
    BY <1>1, <1>4 DEF IInv, PlaceInv, LockInv, OneSuccess
  <1>8. RowInv' /\ ConfirmedOnce' /\ ConfirmedIsReserved'
    BY <1>1 DEF IInv, RowInv, ConfirmedOnce, ConfirmedIsReserved
  <1>9. QED
    BY <1>5, <1>6, <1>7, <1>8 DEF IInv

(* Steps between the read and the update, and all ways to fail.            *)
LEMMA AdvanceIInv ==
  ASSUME IInv, NEW r \in Requests, NEW to \in {"checked", "reserved", "failed", "empty"},
         pc' = [pc EXCEPT ![r] = to],
         to = "checked" => pc[r] = "loaded",
         to = "reserved" => /\ pc[r] = "checked"
                            /\ reservations' = [reservations EXCEPT ![cmd[r].order] = @ + 1],
         to # "reserved" => UNCHANGED reservations,
         UNCHANGED <<status, version, zeroLine, outbox, cmd, copy>>
  PROVE  IInv'
  <1>1. \A q \in Requests : pc'[q] = IF q = r THEN to ELSE pc[q]
    BY DEF IInv, TypeOK
  <1>2. reservations' \in [Orders -> Nat] /\ \A o \in Orders : reservations'[o] >= reservations[o]
    BY DEF IInv, TypeOK
  <1>3. to = "reserved" => reservations'[cmd[r].order] > 0
    BY DEF IInv, TypeOK, Command
  <1>4. TypeOK'
    BY <1>2 DEF IInv, TypeOK, Running, Ended
  <1>5. CopyInv'
    <2> SUFFICES ASSUME NEW q \in Requests, InFlight(q)'
                 PROVE  /\ copy[q].version = 0 /\ status[cmd[q].order] # "none"
                        /\ copy[q].items => zeroLine = cmd[q].order
                        /\ pc'[q] \in {"reserved", "updated"} => reservations'[cmd[q].order] > 0
      BY DEF CopyInv
    <2>1. InFlight(q) /\ cmd[q].order \in Orders
      BY <1>1 DEF InFlight, IInv, TypeOK, Command
    <2>2. pc'[q] \in {"reserved", "updated"} => reservations'[cmd[q].order] > 0
      <3>1. reservations \in [Orders -> Nat]
        BY DEF IInv, TypeOK
      <3>2. CASE q = r
        BY <1>1, <1>3, <3>2
      <3>3. CASE q # r
        BY <1>1, <1>2, <2>1, <3>1, <3>3 DEF IInv, CopyInv
      <3>4. QED
        BY <3>2, <3>3
    <2>3. QED
      BY <2>1, <2>2 DEF IInv, CopyInv
  <1>6. PlaceInv' /\ LockInv' /\ OneSuccess'
    BY <1>1 DEF IInv, PlaceInv, LockInv, OneSuccess
  <1>7. RowInv' /\ ConfirmedOnce'
    BY DEF IInv, RowInv, ConfirmedOnce
  <1>8. ConfirmedIsReserved'
    BY <1>2 DEF IInv, TypeOK, ConfirmedIsReserved
  <1>9. QED
    BY <1>4, <1>5, <1>6, <1>7, <1>8 DEF IInv

(* The version test lets the handler pass only while the row is a draft,   *)
(* and the lock lets only one pass.                                        *)
LEMMA UpdateTxIInv ==
  ASSUME IInv, NEW r \in Requests, UpdateTx(r)
  PROVE  IInv'
  <1>1. /\ pc[r] = "reserved" /\ pc' = [pc EXCEPT ![r] = "updated"] /\ copy[r].items
        /\ ~Locked(cmd[r].order) /\ copy[r].version = version[cmd[r].order]
        /\ UNCHANGED <<status, version, zeroLine, outbox, cmd, copy, reservations>>
    BY DEF UpdateTx, rows
  <1>2. \A q \in Requests : pc'[q] = IF q = r THEN "updated" ELSE pc[q]
    BY <1>1 DEF IInv, TypeOK
  <1>3. TypeOK'
    BY <1>1 DEF IInv, TypeOK, Running
  <1>4. CopyInv'
    BY <1>1, <1>2 DEF IInv, CopyInv, InFlight
  <1>5. LockInv'
    BY <1>1, <1>2 DEF IInv, LockInv, CopyInv, InFlight, Locked
  <1>6. PlaceInv' /\ OneSuccess'
    BY <1>1, <1>2 DEF IInv, PlaceInv, OneSuccess
  <1>7. RowInv' /\ ConfirmedOnce' /\ ConfirmedIsReserved'
    BY <1>1 DEF IInv, RowInv, ConfirmedOnce, ConfirmedIsReserved
  <1>8. QED
    BY <1>3, <1>4, <1>5, <1>6, <1>7 DEF IInv

(* The commit confirms a draft, and nobody has been told of a success      *)
(* before.                                                                 *)
LEMMA CommitIInv ==
  ASSUME IInv, NEW r \in Requests, Commit(r)
  PROVE  IInv'
  <1> DEFINE o == cmd[r].order
  <1>1. PICK to \in {"ok", "failed"} : pc' = [pc EXCEPT ![r] = to]
    BY DEF Commit
  <1>2. /\ pc[r] = "updated" /\ status' = [status EXCEPT ![o] = "confirmed"]
        /\ version' = [version EXCEPT ![o] = @ + 1] /\ outbox' = [outbox EXCEPT ![o] = @ + 1]
        /\ UNCHANGED <<zeroLine, cmd, copy, reservations>>
    BY DEF Commit
  <1>3. /\ o \in Orders /\ version[o] = 0 /\ zeroLine = o /\ reservations[o] > 0
        /\ \A q \in Requests \ {r} : pc[q] = "updated" => cmd[q].order # o
    BY <1>2 DEF IInv, LockInv, CopyInv, InFlight, TypeOK, Command
  <1>4. status[o] # "confirmed" /\ outbox[o] = 0
    BY <1>3 DEF IInv, RowInv, ConfirmedOnce
  <1>5. \A p \in Orders : /\ status'[p] = IF p = o THEN "confirmed" ELSE status[p]
                          /\ version'[p] = IF p = o THEN 1 ELSE version[p]
                          /\ outbox'[p] = IF p = o THEN 1 ELSE outbox[p]
    BY <1>2, <1>3, <1>4 DEF IInv, TypeOK
  <1>6. \A q \in Requests : pc'[q] = IF q = r THEN to ELSE pc[q]
    BY <1>1 DEF IInv, TypeOK
  <1>7. \A q \in Requests : cmd[q].order \in Orders
    BY DEF IInv, TypeOK, Command
  <1>8. \A q \in Requests : pc[q] = "ok" => cmd[q].order # o
    BY <1>4 DEF IInv, OneSuccess
  <1>9. pc[r] # "unsaved" /\ status[o] # "none"
    BY <1>2 DEF IInv, CopyInv, InFlight
  <1> HIDE DEF o
  <1>10. TypeOK'
    <2>1. version' \in [Orders -> Nat] /\ outbox' \in [Orders -> 0..1]
      BY <1>2, <1>3, <1>4 DEF IInv, TypeOK
    <2>2. status' \in [Orders -> {"none", "draft", "confirmed"}]
      BY <1>2 DEF IInv, TypeOK
    <2>3. pc' \in [Requests -> Running \union Ended]
      BY <1>1 DEF IInv, TypeOK, Ended
    <2>4. QED
      BY <1>2, <2>1, <2>2, <2>3 DEF IInv, TypeOK
  <1>11. RowInv' /\ ConfirmedOnce' /\ ConfirmedIsReserved'
    BY <1>2, <1>3, <1>5 DEF IInv, RowInv, ConfirmedOnce, ConfirmedIsReserved
  <1>12. CopyInv'
    BY <1>2, <1>5, <1>6, <1>7 DEF IInv, CopyInv, InFlight
  <1>13. LockInv'
    BY <1>2, <1>3, <1>5, <1>6, <1>7 DEF IInv, LockInv
  <1>14. PlaceInv'
    BY <1>2, <1>5, <1>6, <1>7, <1>9 DEF IInv, PlaceInv
  <1>15. OneSuccess'
    <2>1. \A q \in Requests : pc'[q] = "ok" => pc[q] = "ok" \/ q = r
      BY <1>6
    <2>2. cmd[r].order = o
      BY DEF o
    <2>3. QED
      BY <1>2, <1>5, <1>7, <1>8, <2>1, <2>2 DEF IInv, OneSuccess
  <1>16. QED
    BY <1>10, <1>11, <1>12, <1>13, <1>14, <1>15 DEF IInv

(* No step breaks the invariant.                                           *)
LEMMA NextIInv == IInv /\ [Next]_vars => IInv'
  <1> SUFFICES ASSUME IInv, [Next]_vars PROVE IInv'
    OBVIOUS
  <1>1. CASE UNCHANGED vars
    BY <1>1 DEF vars, IInv, TypeOK, RowInv, PlaceInv, CopyInv, LockInv, InFlight,
       ConfirmedOnce, OneSuccess, ConfirmedIsReserved
  <1>2. ASSUME NEW r \in Requests, SaveDraft(r) \/ Load(r) \/ UpdateTx(r) \/ Commit(r)
        PROVE  IInv'
    BY <1>2, SaveDraftIInv, LoadIInv, UpdateTxIInv, CommitIInv
  <1>3. ASSUME NEW r \in Requests,
               \/ SaveFails(r) \/ NotDraft(r) \/ Check(r) \/ Reserve(r)
               \/ RefuseEmpty(r) \/ Conflict(r) \/ Abort(r)
        PROVE  IInv'
    <2>1. PICK to \in {"checked", "reserved", "failed", "empty"} :
            /\ pc' = [pc EXCEPT ![r] = to]
            /\ to = "checked" => pc[r] = "loaded"
            /\ to = "reserved" => /\ pc[r] = "checked"
                                  /\ reservations' = [reservations EXCEPT ![cmd[r].order] = @ + 1]
            /\ to # "reserved" => UNCHANGED reservations
      BY <1>3 DEF SaveFails, NotDraft, Check, Reserve, RefuseEmpty, Conflict, Abort
    <2>2. UNCHANGED <<status, version, zeroLine, outbox, cmd, copy>>
      BY <1>3 DEF SaveFails, NotDraft, Check, Reserve, RefuseEmpty, Conflict, Abort, rows
    <2>3. QED
      BY <2>1, <2>2, AdvanceIInv
  <1>4. QED
    BY <1>1, <1>2, <1>3 DEF Next, Step

(* A handler holds either version 0 of its draft or a version that can no  *)
(* longer be saved.                                                        *)
THEOREM Invariance == Spec => []IInv
  BY InitIInv, NextIInv, PTL DEF Spec

-----------------------------------------------------------------------------
(* Every variable keeps its type (outbox holds at most one confirmation).  *)
THEOREM TypeCorrect == Spec => []TypeOK
  <1>1. IInv => TypeOK
    BY DEF IInv
  <1>2. QED
    BY <1>1, Invariance, PTL

(* order.confirmed is stored exactly when the order is confirmed, once.    *)
THEOREM ConfirmedExactlyOnce == Spec => []ConfirmedOnce
  <1>1. IInv => ConfirmedOnce
    BY DEF IInv
  <1>2. QED
    BY <1>1, Invariance, PTL

(* No two requests are told they have confirmed the same order.            *)
THEOREM NoDoubleSuccess == Spec => []OneSuccess
  <1>1. IInv => OneSuccess
    BY DEF IInv
  <1>2. QED
    BY <1>1, Invariance, PTL

(* No order is confirmed without a reservation or without a line.          *)
THEOREM ReservedFirst == Spec => []ConfirmedIsReserved
  <1>1. IInv => ConfirmedIsReserved
    BY DEF IInv
  <1>2. QED
    BY <1>1, Invariance, PTL

(* Of all orders placed through the storefront at most one is ever         *)
(* confirmed, the first to store its line under the zero id: all others    *)
(* are read back without a line and refused as empty.                      *)
THEOREM OneOrderEver ==
  Spec => [](\A o, p \in Orders : status[o] = "confirmed" /\ status[p] = "confirmed" => o = p)
  <1>1. ConfirmedIsReserved =>
          \A o, p \in Orders : status[o] = "confirmed" /\ status[p] = "confirmed" => o = p
    BY DEF ConfirmedIsReserved
  <1>2. QED
    BY <1>1, ReservedFirst, PTL

-----------------------------------------------------------------------------
(* With a schema that knows no 'draft', as migrations/001_init.up.sql is,  *)
(* no order is ever stored: every request ends before it has loaded one.   *)
THEOREM NoDraftNoOrder ==
  ASSUME "draft" \notin StoredStatuses
  PROVE  Spec => [](\A o \in Orders : status[o] = "none")
  <1> DEFINE Nothing == /\ status = [o \in Orders |-> "none"]
                        /\ \A r \in Requests : pc[r] \in {"unsaved", "new", "failed"}
                        /\ pc = [r \in Requests |-> pc[r]] /\ cmd \in [Requests -> Command]
  <1>1. Init => Nothing
    BY DEF Init, Start
  <1>2. Nothing /\ [Next]_vars => Nothing'
    <2> SUFFICES ASSUME Nothing, [Next]_vars PROVE Nothing'
      OBVIOUS
    <2>1. ASSUME NEW r \in Requests, NotDraft(r) \/ SaveFails(r) \/ Abort(r) PROVE Nothing'
      BY <2>1 DEF NotDraft, SaveFails, Abort, rows
    <2>2. ASSUME NEW r \in Requests, Step(r), ~NotDraft(r), ~SaveFails(r) PROVE FALSE
      <3>1. status[cmd[r].order] = "none"
        BY DEF Command
      <3>2. QED
        BY <2>2, <3>1 DEF Step, SaveDraft, Load, Check, Reserve, RefuseEmpty, UpdateTx, Conflict, Commit
    <2>3. CASE UNCHANGED vars
      BY <2>3 DEF vars
    <2>4. QED
      BY <2>1, <2>2, <2>3 DEF Next
  <1>3. Nothing => \A o \in Orders : status[o] = "none"
    OBVIOUS
  <1>4. QED
    BY <1>1, <1>2, <1>3, PTL DEF Spec
=============================================================================
