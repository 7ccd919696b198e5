---------------------------- MODULE JevResponse ----------------------------
(***************************************************************************)
(* What the Jev adapter makes of the body of a 200 response                *)
(* (internal/provider/jev/validate.go): parseResponse as pure operators.   *)
(*                                                                         *)
(* A question is [type, names]: names lists the options of a choice or     *)
(* classify question, or the levels of a score, in order.  A request maps  *)
(* question ids to questions.  A body is [wellFormed, unknown, answers]:   *)
(* whether it decodes at all, whether it carries an unknown field, and the *)
(* answers by id.  An answer has the fields of wireAnswer.  A JSON number  *)
(* is {v} and a JSON null is {}, so a null field is an absent field, except *)
(* for the distribution: its form is "absent" when the field is left out,  *)
(* "object", "array", or "other" for a null and anything else.             *)
(* decodable is FALSE for wrong types and for numbers no float64 holds,    *)
(* which is the only form in which a non-finite number can arrive.         *)
(***************************************************************************)
EXTENDS Instinct, Functions, FiniteSets, Sequences

NamesOf(q) == {q.names[i] : i \in DOMAIN q.names}

\* What request validation leaves of a question's type and names: a list that
\* names nothing twice.
AskedQuestion(q) ==
    /\ q.type \in DecisionTypes
    /\ q.names \in Seq(NamesOf(q))
    /\ \A i, k \in DOMAIN q.names : q.names[i] = q.names[k] => i = k

\* What encoding/json can leave in an answer: pointers, and numbers where
\* numbers are called for.
WireAnswer(a) ==
    /\ Numeric(a.noul) /\ Numeric(a.score) /\ Numeric(a.confidence) /\ AtMostOne(a.choice)
    /\ \A n \in DOMAIN a.values : Numeric(a.values[n])
    /\ a.form = "array" => a.values \in Seq({a.values[n] : n \in DOMAIN a.values})

\* encoding/json stores nothing for a null element of a map or a slice of
\* floats, so the element keeps its zero.
DecodedFloat(n) == IF n = {} THEN 0 ELSE CHOOSE v \in n : TRUE

Decoded(values) == [n \in DOMAIN values |-> DecodedFloat(values[n])]

AnyAnswers(req, answers) == DOMAIN req \subseteq DOMAIN answers

\* checkAnswerIdentity: nothing missing, nothing unexpected.
SameQuestions(req, answers) == DOMAIN answers = DOMAIN req

\* checkDistributionValues; the tolerance is finer than the grid.
GoodDistribution(dist) ==
    /\ \A n \in DOMAIN dist : InUnit(dist[n])
    /\ SumFunction(dist) = Unit

ConfidenceUnchecked(a) == TRUE

GoodConfidence(a) == \A v \in a.confidence : InUnit(v)

\* noulJudgment
NoulFits(q, a) ==
    /\ a.noul # Nil /\ a.choice = Nil /\ a.score = Nil /\ a.legend = <<>>
    /\ \A p \in a.noul : InUnit(p)

\* choiceJudgment: the distribution is an object over exactly the options.
ChoiceFits(q, a) ==
    /\ a.choice # Nil /\ a.noul = Nil /\ a.score = Nil /\ a.legend = <<>>
    /\ a.choice \subseteq NamesOf(q)
    /\ a.form # "absent" =>
         /\ a.form = "object"
         /\ DOMAIN a.values = NamesOf(q)
         /\ GoodDistribution(Decoded(a.values))

\* scoreJudgment: the distribution is an array aligned with the levels.
ScoreFits(q, a) ==
    /\ a.score # Nil /\ a.noul = Nil /\ a.choice = Nil
    /\ \A s \in a.score : 0 <= s /\ s <= (Len(q.names) - 1) * Unit
    /\ a.legend # <<>> => a.legend = q.names
    /\ a.form # "absent" =>
         /\ a.form = "array"
         /\ Len(a.values) = Len(q.names)
         /\ GoodDistribution(Decoded(a.values))

KnownFieldsInverted(unknown, strict) == strict \/ ~unknown

\* DisallowUnknownFields, when the schema is strict.
KnownFields(unknown, strict) == ~strict \/ ~unknown

\* decodeStrict of one answer, then judgmentFor's checks.
AnswerFits(q, a, strict) ==
    /\ a.decodable /\ KnownFields(a.unknown, strict)
    /\ GoodConfidence(a)
    /\ CASE Lower(q.type) = "noul"   -> NoulFits(q, a)
         [] Lower(q.type) = "choice" -> ChoiceFits(q, a)
         [] Lower(q.type) = "score"  -> ScoreFits(q, a)

\* The distribution an accepted answer carries, keyed by option or level name.
Distribution(q, a) ==
    IF Lower(q.type) = "choice" THEN Decoded(a.values)
    ELSE [n \in NamesOf(q) |->
            DecodedFloat(a.values[CHOOSE i \in DOMAIN q.names : q.names[i] = n])]

ConfidenceFromNoul(a) == IF a.confidence = Nil THEN a.noul ELSE a.confidence

ReportedConfidence(a) == a.confidence

\* The judgment an accepted answer becomes. Confidence is what was reported,
\* and a distribution that was not reported leaves no margin.
Judged(q, a) ==
    LET j == [EmptyJudgment(q.type, "ACCEPTABLE_CONFIDENCE")
                EXCEPT !.confidence = ReportedConfidence(a)]
        withDistribution(k) ==
            IF a.form = "absent" THEN k
            ELSE [k EXCEPT !.probabilities = {Distribution(q, a)},
                           !.margin = {MarginFromDistribution(Distribution(q, a))}]
    IN  CASE Lower(q.type) = "noul" ->
               [j EXCEPT !.probabilityYes = a.noul,
                         !.bool = {BoolFromProbabilityYes(p) : p \in a.noul},
                         !.margin = {MarginFromProbabilityYes(p) : p \in a.noul}]
          [] Lower(q.type) = "choice" -> withDistribution([j EXCEPT !.choice = a.choice])
          [] Lower(q.type) = "score"  -> withDistribution([j EXCEPT !.score = a.score])

Refused(why) == [accepted |-> FALSE, why |-> why, judgments |-> <<>>]

\* parseResponse: the envelope, then identity, then every answer; the first
\* failure refuses the whole body.
ParseResponse(req, body, strict) ==
    IF ~body.wellFormed \/ ~KnownFields(body.unknown, strict) THEN Refused("envelope")
    ELSE IF ~SameQuestions(req, body.answers) THEN Refused("identity")
    ELSE IF \E id \in DOMAIN req : ~AnswerFits(req[id], body.answers[id], strict)
         THEN Refused("answer")
    ELSE [accepted |-> TRUE, why |-> "",
          judgments |-> [id \in DOMAIN req |-> Judged(req[id], body.answers[id])]]
=============================================================================
