------------------------------ MODULE Instinct ------------------------------
(***************************************************************************)
(* The vocabulary of pkg/instinct, as values and pure operators.           *)
(*                                                                         *)
(* A pointer field is a set of at most one value: {} is nil, {v} is &v.    *)
(* Probabilities, confidences, margins, thresholds and scores are multiples *)
(* of 1/Unit, written as integers: 0 is 0.0 and Unit is 1.0.               *)
(***************************************************************************)
EXTENDS Integers

CONSTANT Unit

ASSUME UnitAssumption == Unit \in Nat \ {0}

Nil == {}

\* The values of a pointer to an element of S.
Ptr(S) == {Nil} \cup {{v} : v \in S}

\* What a pointer is, and a pointer to a number.
AtMostOne(p) == \A v, w \in p : v = w
Numeric(p) == p \subseteq Int /\ AtMostOne(p)

ErrorKinds == {"invalid_input", "configuration", "provider_unavailable",
               "provider_response_invalid", "timeout"}

DecisionTypes == {"noul", "choice", "score", "classify"}

Outcomes == {"ACCEPTABLE_CONFIDENCE", "LOW_CONFIDENCE", "UNAVAILABLE", "ERROR"}

Reasons == {"", "BELOW_CALLER_THRESHOLD", "CONFIDENCE_UNAVAILABLE"}

\* Classify is asked as a choice; every other type is asked as itself.
Lower(type) == IF type = "classify" THEN "choice" ELSE type

\* The primitive actually asked for, recorded only when it differs.
CompiledTo(type) == IF Lower(type) # type THEN Lower(type) ELSE ""

InUnit(v) == 0 <= v /\ v <= Unit

---------------------------------------------------------------------------
\* A judgment: what was asked, what was answered and what is made of it.
\* Exactly one of bool, choice and score is set on a successful one.
EmptyJudgment(type, outcome) ==
    [type |-> type, compiledTo |-> CompiledTo(type), outcome |-> outcome,
     bool |-> Nil, choice |-> Nil, score |-> Nil,
     probabilityYes |-> Nil, probabilities |-> Nil,
     confidence |-> Nil, margin |-> Nil, escalate |-> FALSE, reason |-> ""]

TieIsYes(p) == p >= Unit - p

\* The larger of P(yes) and P(no); an exact tie is a no.
BoolFromProbabilityYes(p) == p > Unit - p

MarginFromProbabilityYes(p) == IF 2 * p >= Unit THEN 2 * p - Unit ELSE Unit - 2 * p

\* The gap between the two largest probabilities of a distribution, the
\* second being 0 where there is only one entry. A tie at the top leaves 0.
MarginFromDistribution(dist) ==
    LET top  == CHOOSE n \in DOMAIN dist : \A m \in DOMAIN dist : dist[m] <= dist[n]
        rest == {dist[m] : m \in DOMAIN dist \ {top}}
        runnerUp == IF rest = {} THEN 0 ELSE CHOOSE v \in rest : \A w \in rest : w <= v
    IN  dist[top] - runnerUp

---------------------------------------------------------------------------
\* An escalation rule: two optional thresholds, [confidence, margin].
NoRule == [confidence |-> Nil, margin |-> Nil]

ValidRule(rule) == \A v \in rule.confidence \cup rule.margin : InUnit(v)

\* The reason a reported value fails a threshold, "" when it does not.
Verdict(reported, threshold) ==
    IF threshold = Nil THEN ""
    ELSE IF reported = Nil THEN "CONFIDENCE_UNAVAILABLE"
    ELSE IF \E v \in reported, t \in threshold : v < t THEN "BELOW_CALLER_THRESHOLD"
    ELSE ""

\* The caller's rule against a judgment: provider confidence first, then
\* margin. A judgment that was never made is left alone.
ApplyEscalation(j, rule) ==
    LET byConfidence == Verdict(j.confidence, rule.confidence)
        reason == IF byConfidence # "" THEN byConfidence
                                       ELSE Verdict(j.margin, rule.margin)
    IN  IF j.outcome \in {"UNAVAILABLE", "ERROR"} THEN j
        ELSE [j EXCEPT !.outcome = IF reason = "" THEN "ACCEPTABLE_CONFIDENCE"
                                                  ELSE "LOW_CONFIDENCE",
                       !.escalate = reason # "",
                       !.reason = reason]
=============================================================================
