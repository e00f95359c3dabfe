------------------------ MODULE MCOrderConfirmation ------------------------
(* Small instances of OrderConfirmation for TLC, and what the repository's *)
(* texts say of orders and its code does not do.                           *)
EXTENDS OrderConfirmation, TLC

CONSTANTS o1, o2, r1, r2, r3

MCLinesOne == o1 :> 1
MCLines == o1 :> 1 @@ o2 :> 2

(* The statuses of order.go.  (migrations/001_init.up.sql has others, with *)
(* which no order can be saved: theorem NoDraftNoOrder.)                   *)
DomainStatuses == {"draft", "confirmed", "in_production", "assembled", "shipped", "cancelled"}

Quiet == \A r \in Requests : pc[r] \in {"unsaved"} \union Ended

(* confirm_order.go: "reserve + UPDATE of the order + outbox in one        *)
(* transaction".                                                           *)
ReservationIsAtomic ==
  Quiet => \A o \in Orders : reservations[o] > 0 => status[o] = "confirmed"

(* order.go: ErrEmptyOrder, "order must have at least one item".           *)
EmptyMeansNoLines == \A r \in Requests : pc[r] = "empty" => Lines[cmd[r].order] = 0
=============================================================================
