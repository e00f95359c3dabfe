---------------------------- MODULE EventDelivery ----------------------------
(***************************************************************************)
(* What an outbox promises to whoever stores an event in it: the event is  *)
(* tried by one consumer at a time, at most MaxTries times; it ends as     *)
(* done after a try that succeeded, or as failed after MaxTries tries that *)
(* did not.  A consumer that stops in the middle of a try loses the event: *)
(* nothing ever tries it again.                                            *)
(***************************************************************************)
EXTENDS Naturals

CONSTANTS Events, MaxTries

VARIABLES
  stage,  \* how far each event has come
  tries   \* how often a consumer has taken it

Stages == {"absent", "waiting", "trying", "delivered", "done", "failed", "lost"}

Init ==
  /\ stage = [e \in Events |-> "absent"]
  /\ tries = [e \in Events |-> 0]

Move(S, from, to) ==
  /\ \A e \in S : stage[e] \in from
  /\ stage' = [e \in Events |-> IF e \in S THEN to ELSE stage[e]]
  /\ UNCHANGED tries

Submit(e) == Move({e}, {"absent"}, "waiting")

(* A consumer takes the events of S; those of Lost it never learns of.     *)
Take(S, Lost) ==
  /\ \A e \in S : stage[e] = "waiting" /\ tries[e] < MaxTries
  /\ stage' = [e \in Events |-> IF e \notin S THEN stage[e]
                               ELSE IF e \in Lost THEN "lost" ELSE "trying"]
  /\ tries' = [e \in Events |-> IF e \in S THEN tries[e] + 1 ELSE tries[e]]

Deliver(e) == Move({e}, {"trying"}, "delivered")

Acknowledge(e) == Move({e}, {"delivered"}, "done")

GiveBack(e) == tries[e] < MaxTries /\ Move({e}, {"trying"}, "waiting")

GiveUp(e) == tries[e] = MaxTries /\ Move({e}, {"trying"}, "failed")

Lose(S) == Move(S, {"trying", "delivered"}, "lost")

Next ==
  \/ \E e \in Events : \/ Submit(e) \/ Deliver(e) \/ Acknowledge(e)
                       \/ GiveBack(e) \/ GiveUp(e)
  \/ \E S \in SUBSET Events : Lose(S) \/ \E Lost \in SUBSET S : Take(S, Lost)

Spec == Init /\ [][Next]_<<stage, tries>>
=============================================================================
