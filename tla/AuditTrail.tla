----------------------------- MODULE AuditTrail -----------------------------
(***************************************************************************)
(* What the receipts of an engine promise, seen from outside: a trail of   *)
(* <<batch, question>> pairs.  Receipts are recorded a whole batch at a    *)
(* time, for at least one question, under a batch id no earlier batch has  *)
(* used, and none is ever changed or removed.                              *)
(***************************************************************************)
CONSTANTS BatchIds, QuestionIds

VARIABLE trail

Init == trail = {}

Record ==
    \E b \in BatchIds, Q \in SUBSET QuestionIds :
      /\ Q # {}
      /\ \A entry \in trail : entry[1] # b
      /\ trail' = trail \cup ({b} \X Q)

Spec == Init /\ [][Record]_trail
=============================================================================
