------------------------------ MODULE Requests ------------------------------
(***************************************************************************)
(* The caller's request and its validation (pkg/instinct/request.go,       *)
(* question.go, limits.go).                                                *)
(*                                                                         *)
(* A text or label is "ok", "" or "bad": within its limit, empty, or too   *)
(* long or not UTF-8.  A question is [type, text, names, meaning, foreign]: *)
(* names lists options or levels, meaning is the longer of true_meaning    *)
(* and false_meaning, and foreign says that the fields of another type     *)
(* (levels on a choice, options on a score, either on a noul) are filled.  *)
(* A request is [state, questions, escalation, trace, retain]; questions   *)
(* and escalation are functions of ids, and trace stands for the           *)
(* correlation and workflow ids.  Ids are numbers: their order is the      *)
(* order of the sorted id strings, and those in BadIds fail ValidateID.    *)
(***************************************************************************)
EXTENDS Instinct, FiniteSets, Sequences

CONSTANTS
    MaxQuestions, MaxOptions, MinLevels, MaxLevels,   \* instinct.Limits
    BadIds                                            \* ids ValidateID refuses

ASSUME LimitsAssumption ==
    /\ {MaxQuestions, MaxOptions, MinLevels, MaxLevels} \subseteq Nat
    /\ 1 <= MaxQuestions /\ 1 <= MaxOptions /\ 1 <= MinLevels /\ MinLevels <= MaxLevels

\* validateLabel on every name, and no name twice.
ValidNames(names) ==
    /\ \A i \in DOMAIN names : names[i] \notin {"", "bad"}
    /\ \A i, k \in DOMAIN names : names[i] = names[k] => i = k

\* Meanings are looked at for a noul only.
ValidQuestion(q) ==
    /\ q.type \in DecisionTypes
    /\ q.text = "ok" /\ ~q.foreign
    /\ \/ Lower(q.type) = "noul"   /\ q.names = <<>> /\ q.meaning # "bad"
       \/ Lower(q.type) = "choice" /\ Len(q.names) \in 1 .. MaxOptions /\ ValidNames(q.names)
       \/ Lower(q.type) = "score"  /\ Len(q.names) \in MinLevels .. MaxLevels
                                   /\ ValidNames(q.names)

RulesOfUnknownQuestionsIgnored(r) ==
    \A id \in DOMAIN r.escalation \cap DOMAIN r.questions : ValidRule(r.escalation[id])

\* Every rule is in range and names a question: a misspelled key would switch
\* the caller's own gate off.
ValidEscalation(r) ==
    \A id \in DOMAIN r.escalation : id \in DOMAIN r.questions /\ ValidRule(r.escalation[id])

ValidRequest(r) ==
    /\ r.state = "ok"
    /\ Cardinality(DOMAIN r.questions) \in 1 .. MaxQuestions
    /\ \A id \in DOMAIN r.questions : id \notin BadIds /\ ValidQuestion(r.questions[id])
    /\ ValidEscalation(r)
    /\ r.trace # "bad"

AnyRule(r, id) ==
    IF DOMAIN r.escalation = {} THEN NoRule
    ELSE r.escalation[CHOOSE k \in DOMAIN r.escalation : TRUE]

\* The rule of a question, none where the request has none for it.
RuleFor(r, id) == IF id \in DOMAIN r.escalation THEN r.escalation[id] ELSE NoRule
=============================================================================
