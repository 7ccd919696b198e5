--------------------------- MODULE StoredReceipts ---------------------------
(***************************************************************************)
(* What a reader of stored receipts accepts (pkg/receipt/receipt.go,       *)
(* Validate, which Parse and Load call).  A receipt is a record as         *)
(* Decision's Receipt makes it.  The schema, the timestamp and the         *)
(* provider's name are constants of the writer and left out, and every     *)
(* number on the grid is finite.                                           *)
(***************************************************************************)
EXTENDS Instinct

\* The identifier that newID never returns: "" in the code.
NoId == 0

ValidReceipt(r) ==
    LET j == r.judgment
    IN  /\ NoId \notin {r.decision, r.batch}
        /\ j.type \in DecisionTypes /\ j.outcome \in Outcomes
        /\ j.compiledTo \in DecisionTypes \cup {""}
        /\ j.reason # "" => j.escalate
=============================================================================
