------------------------ MODULE OrderLifecycleProofs ------------------------
(***************************************************************************)
(* An order's status never goes back and its confirmed lines never change, *)
(* for any clients, lines and faults.  The argument: while the version is  *)
(* the one a client has read, its copy is a later state of the very row    *)
(* the table holds; and a client may save only while it is.                *)
(***************************************************************************)
EXTENDS OrderLifecycle, TLAPS

HalfInv ==
  \A c \in Clients : pc[c] = "half" /\ seen[c] = version => state[c] = status

CopyInv ==
  \A c \in Clients : pc[c] \in {"ready", "updated"} /\ seen[c] = version =>
    /\ Later(status, state[c])
    /\ status # "draft" => items[c] = lines
    /\ state[c] \notin {"draft", "cancelled"} => items[c] # {} /\ reserved

LockInv ==
  \A c \in Clients : pc[c] = "updated" =>
    /\ seen[c] = version
    /\ \A d \in Clients \ {c} : pc[d] # "updated"

IInv == TypeOK /\ HalfInv /\ CopyInv /\ LockInv /\ NothingFromNothing

-----------------------------------------------------------------------------
(* The statuses, listed.                                                   *)
LEMMA StatusNames ==
  Statuses = {"draft", "confirmed", "in_production", "assembled", "shipped", "cancelled"}
  BY DEF Statuses, Rank

(* Later is an order on the statuses, and every method goes along it.      *)
LEMMA LaterFacts ==
  /\ \A s \in Statuses : Later(s, s)
  /\ \A s, t, u \in Statuses : Later(s, t) /\ Later(t, u) => Later(s, u)
  /\ Later("draft", "confirmed") /\ Later("confirmed", "in_production")
  /\ Later("in_production", "assembled") /\ Later("assembled", "shipped")
  /\ \A s \in Statuses \ Ends : Later(s, "cancelled")
  /\ \A s \in Statuses : Later(s, "draft") => s = "draft"
  BY StatusNames DEF Later, Ends, Rank

(* A new order is a draft nobody has loaded.                               *)
LEMMA InitIInv == Init => IInv
  <1> SUFFICES ASSUME Init PROVE IInv
    OBVIOUS
  <1>1. status = "draft" /\ version = 0 /\ lines \subseteq Items /\ reserved \in BOOLEAN
    BY DEF Init
  <1>2. /\ pc = [c \in Clients |-> "new"] /\ seen = [c \in Clients |-> 0]
        /\ state = [c \in Clients |-> "draft"] /\ items = [c \in Clients |-> {}]
    BY DEF Init
  <1>3. TypeOK
    <2>1. seen \in [Clients -> 0..version]
      BY <1>1, <1>2
    <2>2. status \in Statuses /\ state \in [Clients -> Statuses]
      BY <1>1, <1>2, StatusNames
    <2>3. QED
      BY <1>1, <1>2, <2>1, <2>2 DEF TypeOK
  <1>4. HalfInv /\ CopyInv /\ LockInv /\ NothingFromNothing
    BY <1>1, <1>2 DEF HalfInv, CopyInv, LockInv, NothingFromNothing
  <1>5. QED
    BY <1>3, <1>4 DEF IInv

(* Nothing the invariant speaks of is outside vars.                        *)
LEMMA StutterIInv == ASSUME IInv, UNCHANGED vars PROVE IInv'
  BY DEF vars, IInv, TypeOK, HalfInv, CopyInv, LockInv, NothingFromNothing, Later

(* The status read is the current one.                                     *)
LEMMA FindRowIInv ==
  ASSUME IInv, NEW c \in Clients, FindRow(c)
  PROVE  IInv'
  <1>1. /\ pc' = [pc EXCEPT ![c] = "half"] /\ seen' = [seen EXCEPT ![c] = version]
        /\ state' = [state EXCEPT ![c] = status]
        /\ UNCHANGED <<status, version, lines, reserved, items>>
    BY DEF FindRow, row
  <1>2. \A d \in Clients : /\ pc'[d] = IF d = c THEN "half" ELSE pc[d]
                           /\ seen'[d] = IF d = c THEN version ELSE seen[d]
                           /\ state'[d] = IF d = c THEN status ELSE state[d]
    BY <1>1 DEF IInv, TypeOK
  <1>3. TypeOK'
    BY <1>1 DEF IInv, TypeOK
  <1>4. HalfInv' /\ CopyInv' /\ LockInv' /\ NothingFromNothing'
    BY <1>1, <1>2 DEF IInv, HalfInv, CopyInv, LockInv, NothingFromNothing, Later
  <1>5. QED
    BY <1>3, <1>4 DEF IInv

(* If the version read is still current, the lines read are the current    *)
(* ones.                                                                   *)
LEMMA FindItemsIInv ==
  ASSUME IInv, NEW c \in Clients, FindItems(c)
  PROVE  IInv'
  <1>1. /\ pc[c] = "half" /\ pc' = [pc EXCEPT ![c] = "ready"]
        /\ items' = [items EXCEPT ![c] = lines]
        /\ UNCHANGED <<status, version, lines, reserved, seen, state>>
    BY DEF FindItems, row
  <1>2. \A d \in Clients : /\ pc'[d] = IF d = c THEN "ready" ELSE pc[d]
                           /\ items'[d] = IF d = c THEN lines ELSE items[d]
    BY <1>1 DEF IInv, TypeOK
  <1>3. status \in Statuses
    BY DEF IInv, TypeOK
  <1>4. TypeOK'
    BY <1>1 DEF IInv, TypeOK
  <1>5. CopyInv'
    BY <1>1, <1>2, <1>3, LaterFacts DEF IInv, HalfInv, CopyInv, NothingFromNothing, Later
  <1>6. HalfInv' /\ LockInv' /\ NothingFromNothing'
    BY <1>1, <1>2 DEF IInv, HalfInv, LockInv, NothingFromNothing
  <1>7. QED
    BY <1>4, <1>5, <1>6 DEF IInv

(* A method of the aggregate: the copy's status goes to t and its lines to *)
(* n, which differ from the old ones only in a draft.                      *)
LEMMA ChangeIInv ==
  ASSUME IInv, NEW c \in Clients, pc[c] = "ready",
         NEW t \in Statuses, NEW n \in SUBSET Items,
         Later(state[c], t),
         state[c] # "draft" => n = items[c],
         state[c] = "draft" /\ t \notin {"draft", "cancelled"} => n # {} /\ reserved',
         state' = [state EXCEPT ![c] = t], items' = [items EXCEPT ![c] = n],
         reserved' \in {reserved, TRUE},
         UNCHANGED <<status, version, lines, pc, seen>>
  PROVE  IInv'
  <1>1. \A d \in Clients : /\ state'[d] = IF d = c THEN t ELSE state[d]
                           /\ items'[d] = IF d = c THEN n ELSE items[d]
    BY DEF IInv, TypeOK
  <1>2. TypeOK'
    BY DEF IInv, TypeOK
  <1>3. status \in Statuses /\ state[c] \in Statuses /\ (reserved => reserved')
    BY DEF IInv, TypeOK
  <1>4. CopyInv'
    <2> SUFFICES ASSUME NEW d \in Clients, pc[d] \in {"ready", "updated"}, seen[d] = version
                 PROVE  /\ Later(status, state'[d])
                        /\ status # "draft" => items'[d] = lines
                        /\ state'[d] \notin {"draft", "cancelled"} => items'[d] # {} /\ reserved'
      BY DEF CopyInv, Later
    <2>1. /\ Later(status, state[d]) /\ (status # "draft" => items[d] = lines)
          /\ state[d] \notin {"draft", "cancelled"} => items[d] # {} /\ reserved
      BY DEF IInv, CopyInv
    <2>2. CASE d # c
      BY <1>1, <1>3, <2>1, <2>2
    <2>3. CASE d = c
      <3>1. Later(status, t)
        BY <1>3, <2>1, <2>3, LaterFacts
      <3>2. state[c] = "draft" => status = "draft"
        BY <1>3, <2>1, <2>3, LaterFacts
      <3>3. status # "draft" => n = lines
        BY <2>1, <2>3, <3>2
      <3>4. t \notin {"draft", "cancelled"} => n # {} /\ reserved'
        <4>1. state[c] = "cancelled" => t = "cancelled"
          BY StatusNames DEF Later, Ends
        <4>2. QED
          BY <1>3, <2>1, <2>3, <4>1
      <3>5. QED
        BY <1>1, <2>3, <3>1, <3>3, <3>4
    <2>4. QED
      BY <2>2, <2>3
  <1>5. HalfInv' /\ LockInv'
    BY <1>1 DEF IInv, HalfInv, LockInv
  <1>6. NothingFromNothing'
    BY <1>3 DEF IInv, NothingFromNothing
  <1>7. QED
    BY <1>2, <1>4, <1>5, <1>6 DEF IInv

(* Every method of the aggregate takes its copy forward.                   *)
LEMMA MethodsIInv ==
  ASSUME IInv, NEW c \in Clients, Change(c)
  PROVE  IInv'
  <1>1. /\ pc[c] = "ready" /\ state[c] \in Statuses /\ items[c] \subseteq Items
        /\ state \in [Clients -> Statuses] /\ items \in [Clients -> SUBSET Items]
        /\ reserved \in BOOLEAN
    BY DEF Change, AddItem, RemoveItem, Confirm, Advance, Cancel, InDraft, IInv, TypeOK
  <1>2. [state EXCEPT ![c] = state[c]] = state /\ [items EXCEPT ![c] = items[c]] = items
    BY <1>1
  <1>3. Later(state[c], state[c])
    BY <1>1, LaterFacts
  <1>4. ASSUME NEW n \in SUBSET Items, state[c] = "draft", items' = [items EXCEPT ![c] = n],
               UNCHANGED <<status, version, lines, reserved, pc, seen, state>>
        PROVE  IInv'
    <2>1. state' = [state EXCEPT ![c] = state[c]] /\ reserved' \in {reserved, TRUE}
      BY <1>2, <1>4
    <2>2. QED
      BY <1>1, <1>3, <1>4, <2>1, ChangeIInv
  <1>5. CASE AddItem(c) \/ \E i \in Items : RemoveItem(c, i)
    <2>1. PICK n \in SUBSET Items : items' = [items EXCEPT ![c] = n]
      BY <1>1, <1>5 DEF AddItem, RemoveItem
    <2>2. QED
      BY <1>4, <1>5, <2>1 DEF AddItem, RemoveItem, InDraft, row
  <1>6. ASSUME NEW t \in Statuses, Later(state[c], t), Become(c, t),
               state[c] = "draft" /\ t # "cancelled" => items[c] # {} /\ reserved',
               reserved' \in {reserved, TRUE}
        PROVE  IInv'
    <2>1. /\ state' = [state EXCEPT ![c] = t] /\ items' = [items EXCEPT ![c] = items[c]]
          /\ UNCHANGED <<status, version, lines, pc, seen>>
      BY <1>2, <1>6 DEF Become, row
    <2>2. QED
      BY <1>1, <1>6, <2>1, ChangeIInv
  <1>7. CASE Confirm(c)
    BY <1>1, <1>6, <1>7, StatusNames, LaterFacts DEF Confirm, InDraft
  <1>8. CASE Advance(c)
    <2>1. PICK t \in Statuses : Become(c, t) /\ Later(state[c], t) /\ state[c] # "draft"
      BY <1>8, StatusNames, LaterFacts DEF Advance
    <2>2. QED
      BY <1>1, <1>6, <1>8, <2>1 DEF Advance
  <1>9. CASE Cancel(c)
    <2>1. state'[c] = "cancelled" /\ "cancelled" \in Statuses
      BY <1>1, <1>9, StatusNames DEF Cancel, Become
    <2>2. Later(state[c], "cancelled")
      BY <1>1, <1>9, LaterFacts DEF Cancel, Ends
    <2>3. QED
      BY <1>6, <1>9, <2>1, <2>2 DEF Cancel
  <1>10. QED
    BY <1>5, <1>7, <1>8, <1>9 DEF Change

(* A save takes the row forward to the state of the copy, and keeps the    *)
(* lines of an order that was confirmed.                                   *)
LEMMA CommitIInv ==
  ASSUME IInv, NEW c \in Clients, Commit(c)
  PROVE  IInv' /\ Later(status, status') /\ (status # "draft" => lines' = lines)
  <1>1. /\ pc[c] = "updated" /\ pc' = [pc EXCEPT ![c] = "done"]
        /\ status' = state[c] /\ version' = version + 1 /\ lines' = lines \union items[c]
        /\ UNCHANGED <<reserved, seen, state, items>>
    BY DEF Commit, aggregate
  <1>2. \A d \in Clients : /\ pc'[d] = IF d = c THEN "done" ELSE pc[d]
                           /\ seen[d] \in 0..version
    BY <1>1 DEF IInv, TypeOK
  <1>3. /\ Later(status, state[c]) /\ (status # "draft" => items[c] = lines)
        /\ state[c] \notin {"draft", "cancelled"} => items[c] # {} /\ reserved
    BY <1>1 DEF IInv, LockInv, CopyInv
  <1>4. version \in Nat /\ \A d \in Clients : seen'[d] # version'
    BY <1>1, <1>2 DEF IInv, TypeOK
  <1>5. TypeOK'
    BY <1>1 DEF IInv, TypeOK
  <1>6. HalfInv' /\ CopyInv'
    BY <1>4 DEF HalfInv, CopyInv
  <1>7. LockInv'
    BY <1>1, <1>2 DEF IInv, LockInv
  <1>8. NothingFromNothing'
    BY <1>1, <1>3 DEF NothingFromNothing
  <1>9. QED
    BY <1>1, <1>3, <1>5, <1>6, <1>7, <1>8 DEF IInv

(* Update, its conflict and an abort write nothing yet.                    *)
LEMMA MoveIInv ==
  ASSUME IInv, NEW c \in Clients, Update(c) \/ Conflict(c) \/ Abort(c)
  PROVE  IInv'
  <1>1. PICK to \in {"updated", "failed"} :
          /\ pc' = [pc EXCEPT ![c] = to]
          /\ to = "updated" => pc[c] = "ready" /\ ~Locked /\ seen[c] = version
    BY DEF Update, Conflict, Abort
  <1>2. UNCHANGED <<status, version, lines, reserved, seen, state, items>>
    BY DEF Update, Conflict, Abort, row, aggregate
  <1>3. \A d \in Clients : pc'[d] = IF d = c THEN to ELSE pc[d]
    BY <1>1 DEF IInv, TypeOK
  <1>4. TypeOK'
    BY <1>1, <1>2 DEF IInv, TypeOK
  <1>5. HalfInv' /\ CopyInv' /\ NothingFromNothing'
    BY <1>1, <1>2, <1>3 DEF IInv, HalfInv, CopyInv, NothingFromNothing, Later
  <1>6. LockInv'
    BY <1>1, <1>2, <1>3 DEF IInv, LockInv, Locked
  <1>7. QED
    BY <1>4, <1>5, <1>6 DEF IInv

(* No step breaks the invariant.                                           *)
LEMMA NextIInv == IInv /\ [Next]_vars => IInv'
  <1> SUFFICES ASSUME IInv, Next PROVE IInv'
    BY StutterIInv
  <1>1. QED
    BY FindRowIInv, FindItemsIInv, MethodsIInv, CommitIInv, MoveIInv DEF Next

(* A copy whose version is the current one is a later state of the row.    *)
THEOREM Invariance == Spec => []IInv
  BY InitIInv, NextIInv, PTL DEF Spec

-----------------------------------------------------------------------------
(* Every variable keeps its type, and no client has read a version that    *)
(* does not exist yet.                                                     *)
THEOREM TypeCorrect == Spec => []TypeOK
  <1>1. IInv => TypeOK
    BY DEF IInv
  <1>2. QED
    BY <1>1, Invariance, PTL

(* No order is confirmed without a line and a reservation.                 *)
THEOREM NothingFromNothingHolds == Spec => []NothingFromNothing
  <1>1. IInv => NothingFromNothing
    BY DEF IInv
  <1>2. QED
    BY <1>1, Invariance, PTL

(* Only Commit touches the row.                                            *)
LEMMA RowSteps ==
  ASSUME IInv, [Next]_vars
  PROVE  Later(status, status') /\ (status # "draft" => lines' = lines)
  <1>1. CASE \E c \in Clients : Commit(c)
    BY <1>1, CommitIInv
  <1>2. CASE UNCHANGED <<status, lines>>
    BY <1>2 DEF Later
  <1>3. (\E c \in Clients : Commit(c)) \/ UNCHANGED <<status, lines>>
    BY DEF Next, vars, row, FindRow, FindItems, Change, AddItem, RemoveItem, Confirm, Advance,
       Cancel, Become, Update, Conflict, Abort
  <1>4. QED
    BY <1>1, <1>2, <1>3

(* The status never goes back, and shipped and cancelled exclude each      *)
(* other, whatever clients do at once.                                     *)
THEOREM NoWayBack == Spec => StatusGoesForward
  <1>1. IInv /\ [Next]_vars => [Later(status, status')]_vars
    BY RowSteps
  <1>2. QED
    BY <1>1, Invariance, PTL DEF Spec, StatusGoesForward

(* After the confirmation the stored lines never change.                   *)
THEOREM FrozenLines == Spec => ConfirmedIsFrozen
  <1>1. IInv /\ [Next]_vars => [status # "draft" => lines' = lines]_vars
    BY RowSteps
  <1>2. QED
    BY <1>1, Invariance, PTL DEF Spec, ConfirmedIsFrozen
=============================================================================
