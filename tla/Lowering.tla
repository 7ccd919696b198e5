------------------------------ MODULE Lowering ------------------------------
(***************************************************************************)
(* What the engine does to questions on the way to a provider and to       *)
(* judgments on the way back, as pure operators                            *)
(* (internal/decision/decision.go: lower, restore, the escalation loop of  *)
(* Decide, failureResponse).                                               *)
(***************************************************************************)
EXTENDS Requests, JevResponse

QuestionsUnlowered(r) == r.questions

\* lower: what the provider is asked.
Lowered(r) == [id \in DOMAIN r.questions |->
                 [r.questions[id] EXCEPT !.type = Lower(r.questions[id].type)]]

\* restore: the caller's own type, and the primitive it was lowered to.
Restored(r, judgments) ==
    [id \in DOMAIN judgments |->
       [judgments[id] EXCEPT !.type = r.questions[id].type,
                             !.compiledTo = CompiledTo(r.questions[id].type)]]

\* ApplyEscalation on each judgment, with the caller's rule for its question.
Escalated(r, judgments) ==
    [id \in DOMAIN judgments |-> ApplyEscalation(judgments[id], RuleFor(r, id))]

FailureAlwaysUnavailable(kind) == "UNAVAILABLE"

OutcomeForgotten(kind) == IF kind = "provider_response_invalid" THEN "ERROR" ELSE ""

\* An answer that cannot be trusted is an ERROR, any other failure UNAVAILABLE.
FailureOutcome(kind) ==
    IF kind = "provider_response_invalid" THEN "ERROR" ELSE "UNAVAILABLE"

\* failureResponse: a judgment for every question asked, with nothing in it.
FailureJudgments(r, kind) ==
    [id \in DOMAIN r.questions |->
       EmptyJudgment(r.questions[id].type, FailureOutcome(kind))]
=============================================================================
