----------------------------- MODULE AtomicStock -----------------------------
(***************************************************************************)
(* Stock as its users would like to think of it: every request takes its   *)
(* quantity from the batch in one step that sees the batch as it is at     *)
(* that moment, and a batch only ever gets older.                          *)
(***************************************************************************)
EXTENDS Integers

CONSTANTS Batches, Quantities, Received

VARIABLES
  stock,  \* the quantity left in each batch
  state,  \* how fresh each batch is
  taken   \* how much was ever taken from each batch

Rank == [absent |-> 0, fresh |-> 1, aging |-> 2, critical |-> 3, expired |-> 4]

Init ==
  /\ stock = [b \in Batches |-> 0]
  /\ state = [b \in Batches |-> "absent"]
  /\ taken = [b \in Batches |-> 0]

Receive(b, q) ==
  /\ state[b] = "absent"
  /\ stock' = [stock EXCEPT ![b] = q]
  /\ state' = [state EXCEPT ![b] = "fresh"]
  /\ UNCHANGED taken

Take(b, q) ==
  /\ state[b] \notin {"absent", "expired"} /\ q <= stock[b]
  /\ stock' = [stock EXCEPT ![b] = @ - q]
  /\ taken' = [taken EXCEPT ![b] = @ + q]
  /\ UNCHANGED state

Age(b, f) ==
  /\ state[b] # "absent" /\ Rank[state[b]] < Rank[f]
  /\ state' = [state EXCEPT ![b] = f]
  /\ UNCHANGED <<stock, taken>>

Next == \E b \in Batches :
  \/ \E q \in Received : Receive(b, q)
  \/ \E q \in Quantities : Take(b, q)
  \/ \E f \in {"aging", "critical", "expired"} : Age(b, f)

Spec == Init /\ [][Next]_<<stock, state, taken>>
=============================================================================
