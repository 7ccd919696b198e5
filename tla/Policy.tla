------------------------------- MODULE Policy -------------------------------
(***************************************************************************)
(* The policy of the dogfood example (examples/dogfood/policy/policy.go,   *)
(* Apply): what a caller makes of the receipts of one batch.               *)
(***************************************************************************)
EXTENDS Instinct

CONSTANTS
    Incident, Category, Severity,            \* the questions' ids
    ConfidentEnoughToAct, SevereEnoughToPage

Consulted == {Incident, Category, Severity}

\* byQuestion: the judgment recorded for a question.
JudgmentOn(receipts, id) == (CHOOSE r \in receipts : r.question = id).judgment

\* A judgment is missing, or could not be made.
Unknown(receipts) ==
    \E id \in Consulted :
      \/ \A r \in receipts : r.question # id
      \/ JudgmentOn(receipts, id).outcome \in {"UNAVAILABLE", "ERROR"}

UnescalatedIgnored(receipts) == ~Unknown(receipts) /\ JudgmentOn(receipts, Incident).bool # {TRUE}

\* Nothing escalated, and the incident not judged to be one.
Ignored(receipts) ==
    /\ ~Unknown(receipts)
    /\ ~JudgmentOn(receipts, Category).escalate
    /\ JudgmentOn(receipts, Incident).bool # {TRUE}

\* An incident under a decisive category.
Actionable(receipts) ==
    /\ ~Unknown(receipts)
    /\ ~JudgmentOn(receipts, Category).escalate
    /\ JudgmentOn(receipts, Incident).bool = {TRUE}
    /\ \E m \in JudgmentOn(receipts, Category).margin : m >= ConfidentEnoughToAct

Severe(receipts) == \E s \in JudgmentOn(receipts, Severity).score : s >= SevereEnoughToPage

Apply(receipts) ==
    IF Ignored(receipts) THEN "IGNORE"
    ELSE IF ~Actionable(receipts) THEN "ESCALATE_TO_HUMAN"
    ELSE IF Severe(receipts) THEN "PAGE_ONCALL"
    ELSE "FILE_TICKET"
=============================================================================
