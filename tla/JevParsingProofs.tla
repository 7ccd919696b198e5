-------------------------- MODULE JevParsingProofs --------------------------
(***************************************************************************)
(* Proofs about one parse: for every request, body and schema setting,     *)
(* what parseResponse lets through.                                        *)
(***************************************************************************)
EXTENDS JevParsing, JudgmentProofs

\* The request is one that was validated, and the body is unread, or has been
\* parsed.
ParseInv ==
    /\ \A id \in DOMAIN req : AskedQuestion(req[id])
    /\ \A id \in DOMAIN body.answers : WireAnswer(body.answers[id])
    /\ strict \in BOOLEAN
    /\ \/ parsed = Refused("unread")
       \/ parsed = ParseResponse(req, body, strict)

LEMMA ParseInvInit == Init => ParseInv
BY ExchangesAssumption DEF Init, ParseInv

LEMMA ParseInvStep == ParseInv /\ [Next]_vars => ParseInv'
BY DEF ParseInv, Next, Parse, vars

\* The invariant holds of every reachable state.
THEOREM ParseInvariance == Spec => []ParseInv
BY ParseInvInit, ParseInvStep, PTL DEF Spec

---------------------------------------------------------------------------
\* What is let through, in a state the invariant describes.
LEMMA Accepted ==
    ASSUME ParseInv, parsed.accepted
    PROVE  /\ DOMAIN body.answers = DOMAIN req
           /\ parsed.judgments = [id \in DOMAIN req |-> Judged(req[id], body.answers[id])]
           /\ \A id \in DOMAIN req : /\ req[id].type \in DecisionTypes
                                     /\ AskedQuestion(req[id]) /\ WireAnswer(body.answers[id])
                                     /\ AnswerFits(req[id], body.answers[id], strict)
<1>1. ~Refused("unread").accepted
  BY DEF Refused
<1>2. parsed = ParseResponse(req, body, strict)
  BY <1>1 DEF ParseInv
<1>3. parsed.judgments = [id \in DOMAIN req |-> Judged(req[id], body.answers[id])]
  <2>. DEFINE told == [id \in DOMAIN req |-> Judged(req[id], body.answers[id])]
  <2>1. parsed = [accepted |-> TRUE, why |-> "", judgments |-> told]
    BY <1>2, AcceptedBody
  <2>. HIDE DEF told
  <2>. QED BY <2>1 DEF told
<1>4. /\ DOMAIN body.answers = DOMAIN req
      /\ \A id \in DOMAIN req : AnswerFits(req[id], body.answers[id], strict)
  BY <1>2, AcceptedBody
<1>5. ASSUME NEW id \in DOMAIN req
      PROVE  /\ req[id].type \in DecisionTypes
             /\ AskedQuestion(req[id]) /\ WireAnswer(body.answers[id])
  BY <1>4 DEF ParseInv, AskedQuestion
<1>. QED BY <1>3, <1>4, <1>5

LEMMA AnswersFromInv == ParseInv => AnswersWhatWasAsked
<1>. SUFFICES ASSUME ParseInv, parsed.accepted PROVE AnswersWhatWasAsked
  BY DEF AnswersWhatWasAsked
<1>1. ASSUME NEW id \in DOMAIN req
      PROVE  LET j == parsed.judgments[id] IN
             /\ j.bool # Nil   <=> Lower(req[id].type) = "noul"
             /\ j.choice # Nil <=> Lower(req[id].type) = "choice"
             /\ j.score # Nil  <=> Lower(req[id].type) = "score"
  <2>. DEFINE q == req[id]
              a == body.answers[id]
              j == Judged(q, a)
  <2>1. parsed.judgments[id] = j /\ q.type \in DecisionTypes /\ AnswerFits(q, a, strict)
    BY Accepted
  <2>. HIDE DEF j
  <2>2. CASE Lower(q.type) = "noul"
    <3>1. /\ j.bool = {BoolFromProbabilityYes(p) : p \in a.noul}
          /\ j.choice = Nil /\ j.score = Nil
      BY <2>1, <2>2, JudgedSays DEF Says, j
    <3>2. a.noul # {}
      BY <2>1, <2>2, FittingAnswer DEF Nil
    <3>. QED BY <2>1, <2>2, <3>1, <3>2 DEF Nil
  <2>3. CASE Lower(q.type) = "choice"
    <3>1. j.bool = Nil /\ j.choice = a.choice /\ j.score = Nil
      BY <2>1, <2>3, JudgedSays DEF Says, j
    <3>. QED BY <2>1, <2>3, <3>1, FittingAnswer
  <2>4. CASE Lower(q.type) = "score"
    <3>1. j.bool = Nil /\ j.choice = Nil /\ j.score = a.score
      BY <2>1, <2>4, JudgedSays DEF Says, j
    <3>. QED BY <2>1, <2>4, <3>1, FittingAnswer
  <2>5. Lower(q.type) \in {"noul", "choice", "score"}
    BY <2>1 DEF Lower, DecisionTypes
  <2>. QED BY <2>2, <2>3, <2>4, <2>5
<1>2. DOMAIN parsed.judgments = DOMAIN req /\ DOMAIN body.answers = DOMAIN req
  BY Accepted
<1>. QED BY <1>1, <1>2 DEF AnswersWhatWasAsked

\* Whatever the body, an accepted one answers exactly the questions asked, each
\* with exactly the value its type calls for.
THEOREM AnswersMatchQuestions == Spec => []AnswersWhatWasAsked
BY AnswersFromInv, ParseInvariance, PTL

---------------------------------------------------------------------------
LEMMA AbsentFromInv == ParseInv => AbsentStaysAbsent
<1>. SUFFICES ASSUME ParseInv, parsed.accepted, NEW id \in DOMAIN req
              PROVE  LET a == body.answers[id]  j == parsed.judgments[id] IN
                     /\ j.confidence = a.confidence
                     /\ j.probabilityYes = a.noul
                     /\ j.probabilities # Nil =>
                          a.form = IF Lower(req[id].type) = "score" THEN "array" ELSE "object"
                     /\ j.margin # Nil <=> j.probabilityYes # Nil \/ j.probabilities # Nil
  BY Zenon DEF AbsentStaysAbsent
<1>. DEFINE q == req[id]
            a == body.answers[id]
            j == Judged(q, a)
<1>1. parsed.judgments[id] = j /\ q.type \in DecisionTypes /\ AnswerFits(q, a, strict)
  BY Accepted
<1>. HIDE DEF j
<1>2. CASE Lower(q.type) = "noul"
  <2>1. /\ j.confidence = a.confidence /\ j.probabilityYes = a.noul /\ j.probabilities = Nil
        /\ j.margin = {MarginFromProbabilityYes(p) : p \in a.noul}
    BY <1>1, <1>2, JudgedSays DEF Says, j
  <2>. QED BY <1>1, <2>1 DEF Nil
<1>3. CASE Lower(q.type) \in {"choice", "score"}
  <2>1. /\ j.confidence = a.confidence /\ j.probabilityYes = Nil
        /\ j.probabilities = Spread(q, a) /\ j.margin = SpreadMargin(q, a)
    BY <1>1, <1>3, JudgedSays DEF Says, j
  <2>2. a.noul = Nil /\ a.form \in {"absent", IF Lower(q.type) = "score" THEN "array" ELSE "object"}
    BY <1>1, <1>3, FittingAnswer
  <2>. QED BY <1>1, <2>1, <2>2 DEF Spread, SpreadMargin, Nil
<1>4. Lower(q.type) \in {"noul", "choice", "score"}
  BY <1>1 DEF Lower, DecisionTypes
<1>. QED BY <1>2, <1>3, <1>4

\* Whatever the body, a value the provider did not report is absent.
THEOREM NothingInvented == Spec => []AbsentStaysAbsent
BY AbsentFromInv, ParseInvariance, PTL

---------------------------------------------------------------------------
\* An answer that fits a strict schema fits a relaxed one.
LEMMA RelaxedFits ==
    ASSUME NEW q, NEW a, AnswerFits(q, a, TRUE)
    PROVE  AnswerFits(q, a, FALSE)
BY DEF AnswerFits, KnownFields

LEMMA StrictFromInv == ParseInv => StrictOnlyRefuses
<1>. SUFFICES ASSUME ParseInv, parsed.accepted, strict
              PROVE  parsed = ParseResponse(req, body, FALSE)
  BY DEF StrictOnlyRefuses
<1>1. parsed = ParseResponse(req, body, strict) /\ strict = TRUE
  <2>1. ~Refused("unread").accepted
    BY DEF Refused
  <2>. QED BY <2>1 DEF ParseInv
<1>2. /\ body.wellFormed /\ DOMAIN body.answers = DOMAIN req
      /\ \A id \in DOMAIN req : AnswerFits(req[id], body.answers[id], strict)
  BY <1>1, AcceptedBody
<1>3. \A id \in DOMAIN req : AnswerFits(req[id], body.answers[id], FALSE)
  BY <1>2, RelaxedFits DEF AnswerFits, KnownFields
<1>4. ParseResponse(req, body, FALSE).accepted
  BY <1>2, <1>3, AcceptedBody DEF KnownFields
<1>. QED BY <1>1, <1>4, AcceptedBody

\* A strict schema only ever refuses more bodies, whatever they hold.
THEOREM StrictnessIsMonotone == Spec => []StrictOnlyRefuses
BY StrictFromInv, ParseInvariance, PTL
---------------------------------------------------------------------------
\* A set of at most one value is a pointer to one of a set that holds it.
LEMMA PointerFits ==
    ASSUME NEW p, NEW S, p \subseteq S, AtMostOne(p)
    PROVE  p \in Ptr(S)
<1>1. CASE p = {}
  BY <1>1 DEF Ptr, Nil
<1>2. CASE p # {}
  <2>1. PICK v : v \in p
    BY <1>2
  <2>2. p = {v} /\ v \in S
    BY <2>1 DEF AtMostOne
  <2>. QED BY <2>2 DEF Ptr
<1>. QED BY <1>1, <1>2

LEMMA NoPointerFits == ASSUME NEW S PROVE Nil \in Ptr(S)
BY DEF Ptr

LEMMA OnePointerFits == ASSUME NEW S, NEW v \in S PROVE {v} \in Ptr(S)
BY DEF Ptr

\* The distribution and the margin of a fitting answer are well formed.
LEMMA SpreadFits ==
    ASSUME NEW q, AskedQuestion(q), NEW a, WireAnswer(a), NEW s, AnswerFits(q, a, s),
           Lower(q.type) \in {"choice", "score"}
    PROVE  /\ Spread(q, a) \in Ptr([NamesOf(q) -> 0 .. Unit])
           /\ SpreadMargin(q, a) \in Ptr(0 .. Unit)
<1>1. CASE a.form = "absent"
  BY <1>1 DEF Spread, SpreadMargin, Ptr
<1>2. CASE a.form # "absent"
  <2>. DEFINE d == Distribution(q, a)
              m == MarginFromDistribution(d)
  <2>1. IsDistribution(d, NamesOf(q))
    BY <1>2, DistributionFits
  <2>2. Spread(q, a) = {d} /\ SpreadMargin(q, a) = {m}
    BY <1>2 DEF Spread, SpreadMargin
  <2>. HIDE DEF d
  <2>3. m \in 0 .. Unit
    BY <2>1, MarginReads
  <2>4. d \in [NamesOf(q) -> 0 .. Unit]
    BY <2>1 DEF IsDistribution
  <2>. HIDE DEF m
  <2>. QED BY <2>2, <2>3, <2>4, OnePointerFits, ZenonT(60)
<1>. QED BY <1>1, <1>2

LEMMA JudgmentFits ==
    ASSUME NEW q, AskedQuestion(q), NEW a, WireAnswer(a), NEW s, AnswerFits(q, a, s)
    PROVE  JudgmentOK(q, Judged(q, a))
<1>. DEFINE j == Judged(q, a)
            bool == {BoolFromProbabilityYes(p) : p \in a.noul}
            margin == {MarginFromProbabilityYes(p) : p \in a.noul}
            scores == 0 .. (Len(q.names) - 1) * Unit
            spreads == [NamesOf(q) -> 0 .. Unit]
<1>1. q.type \in DecisionTypes
  BY DEF AskedQuestion
<1>2. /\ AtMostOne(a.confidence) /\ a.confidence \subseteq 0 .. Unit
      /\ AtMostOne(a.noul) /\ AtMostOne(a.choice) /\ AtMostOne(a.score)
      /\ Lower(q.type) = "noul"   => a.noul \subseteq 0 .. Unit
      /\ Lower(q.type) = "choice" => a.choice \subseteq NamesOf(q)
      /\ Lower(q.type) = "score"  => a.score \subseteq scores
  BY FittingValues
<1>3. a.confidence \in Ptr(0 .. Unit)
  BY <1>2, PointerFits
<1>4. CASE Lower(q.type) = "noul"
  <2>1. Says(j, q.type, bool, Nil, Nil, a.noul, Nil, a.confidence, margin)
    BY <1>1, <1>4, JudgedSays
  <2>2. a.noul \in Ptr(0 .. Unit)
    BY <1>2, <1>4, PointerFits
  <2>3. bool \in Ptr(BOOLEAN)
    <3>1. \A v \in a.noul : BoolFromProbabilityYes(v) \in BOOLEAN
      BY DEF BoolFromProbabilityYes
    <3>2. bool \subseteq BOOLEAN /\ AtMostOne(bool)
      BY <1>2, <3>1 DEF AtMostOne
    <3>. HIDE DEF bool
    <3>. QED BY <3>2, PointerFits
  <2>4. margin \in Ptr(0 .. Unit)
    <3>1. \A v \in a.noul : MarginFromProbabilityYes(v) \in 0 .. Unit
      BY <1>2, <1>4, YesMarginReads
    <3>2. margin \subseteq 0 .. Unit /\ AtMostOne(margin)
      BY <1>2, <3>1 DEF AtMostOne
    <3>. HIDE DEF margin
    <3>. QED BY <3>2, PointerFits
  <2>. HIDE DEF j, bool, margin, scores, spreads
  <2>5. JudgmentOK(q, j)
    <3>. USE DEF scores, spreads
    <3>. QED BY <1>3, <2>1, <2>2, <2>3, <2>4, NoPointerFits, Zenon DEF Says, JudgmentOK
  <2>. QED BY <2>5 DEF j
<1>5. CASE Lower(q.type) = "choice"
  <2>1. Says(j, q.type, Nil, a.choice, Nil, Nil, Spread(q, a), a.confidence, SpreadMargin(q, a))
    BY <1>1, <1>5, JudgedSays
  <2>2. a.choice \in Ptr(NamesOf(q))
    BY <1>2, <1>5, PointerFits
  <2>3. Spread(q, a) \in Ptr(spreads) /\ SpreadMargin(q, a) \in Ptr(0 .. Unit)
    BY <1>5, SpreadFits
  <2>. HIDE DEF j
  <2>4. JudgmentOK(q, j)
    BY <1>3, <2>1, <2>2, <2>3, NoPointerFits, Zenon DEF Says, JudgmentOK
  <2>. QED BY <2>4 DEF j
<1>6. CASE Lower(q.type) = "score"
  <2>1. Says(j, q.type, Nil, Nil, a.score, Nil, Spread(q, a), a.confidence, SpreadMargin(q, a))
    BY <1>1, <1>6, JudgedSays
  <2>2. a.score \in Ptr(scores)
    BY <1>2, <1>6, PointerFits
  <2>3. Spread(q, a) \in Ptr(spreads) /\ SpreadMargin(q, a) \in Ptr(0 .. Unit)
    BY <1>6, SpreadFits
  <2>. HIDE DEF j
  <2>4. JudgmentOK(q, j)
    BY <1>3, <2>1, <2>2, <2>3, NoPointerFits, Zenon DEF Says, JudgmentOK
  <2>. QED BY <2>4 DEF j
<1>7. Lower(q.type) \in {"noul", "choice", "score"}
  BY <1>1 DEF Lower, DecisionTypes
<1>. QED BY <1>4, <1>5, <1>6, <1>7

LEMMA TypesFromInv == ParseInv => TypeOK
<1>. SUFFICES ASSUME ParseInv PROVE TypeOK
  OBVIOUS
<1>1. CASE parsed.accepted
  <2>1. parsed = [accepted |-> TRUE, why |-> "",
                  judgments |-> [id \in DOMAIN req |-> Judged(req[id], body.answers[id])]]
    <3>1. ~Refused("unread").accepted
      BY DEF Refused
    <3>2. parsed = ParseResponse(req, body, strict)
      BY <1>1, <3>1 DEF ParseInv
    <3>. QED BY <1>1, <3>2, AcceptedBody
  <2>2. parsed.why = "" /\ parsed.accepted
    BY <1>1, <2>1
  <2>3. \A id \in DOMAIN parsed.judgments :
          id \in DOMAIN req /\ parsed.judgments[id] = Judged(req[id], body.answers[id])
    BY <1>1, Accepted
  <2>4. ASSUME NEW id \in DOMAIN req PROVE JudgmentOK(req[id], Judged(req[id], body.answers[id]))
    BY <1>1, Accepted, JudgmentFits
  <2>5. \A id \in DOMAIN parsed.judgments : JudgmentOK(req[id], parsed.judgments[id])
    BY <2>3, <2>4
  <2>. QED BY <2>2, <2>5 DEF TypeOK, ParseInv
<1>2. CASE ~parsed.accepted
  <2>1. parsed \in {Refused("unread"), Refused("envelope"), Refused("identity"), Refused("answer")}
    BY <1>2, AcceptedBody DEF ParseInv, ParseResponse
  <2>2. /\ parsed.why \in {"unread", "envelope", "identity", "answer"}
        /\ DOMAIN parsed.judgments = {}
    BY <2>1 DEF Refused
  <2>. QED BY <1>2, <2>2 DEF TypeOK, ParseInv
<1>. QED BY <1>1, <1>2

\* Whatever the body, a judgment that is made of it holds only values of its
\* question and numbers in range.
THEOREM JudgmentsInRange == Spec => []TypeOK
BY TypesFromInv, ParseInvariance, PTL

---------------------------------------------------------------------------
LEMMA MarginFromInv == ParseInv => MarginReadsDistribution
<1>. SUFFICES ASSUME ParseInv, parsed.accepted, NEW id \in DOMAIN req
              PROVE  LET j == parsed.judgments[id] IN
                     /\ \A p \in j.probabilityYes, m \in j.margin :
                          /\ m = 0 <=> 2 * p = Unit
                          /\ m = 0 => j.bool = {FALSE}
                          /\ m = Unit <=> p \in {0, Unit}
                     /\ \A d \in j.probabilities, m \in j.margin :
                          /\ m = 0 <=> \E n1, n2 \in DOMAIN d :
                               n1 # n2 /\ d[n1] = d[n2] /\ \A n \in DOMAIN d : d[n] <= d[n1]
                          /\ m = Unit <=> \E n \in DOMAIN d : d[n] = Unit
  BY Zenon DEF MarginReadsDistribution
<1>. DEFINE q == req[id]
            a == body.answers[id]
            j == Judged(q, a)
<1>1. /\ parsed.judgments[id] = j /\ q.type \in DecisionTypes
      /\ AskedQuestion(q) /\ WireAnswer(a) /\ AnswerFits(q, a, strict)
  BY Accepted
<1>2. Lower(q.type) \in {"noul", "choice", "score"}
  BY <1>1 DEF Lower, DecisionTypes
<1>. HIDE DEF j, q, a
<1>3. CASE Lower(q.type) = "noul"
  <2>1. /\ j.bool = {BoolFromProbabilityYes(p) : p \in a.noul} /\ j.probabilityYes = a.noul
        /\ j.margin = {MarginFromProbabilityYes(p) : p \in a.noul} /\ j.probabilities = {}
    BY <1>1, <1>3, JudgedSays DEF Says, Nil, j
  <2>2. AtMostOne(a.noul) /\ a.noul \subseteq 0 .. Unit
    BY <1>1, <1>3, FittingValues
  <2>3. ASSUME NEW p \in j.probabilityYes, NEW m \in j.margin
        PROVE  /\ m = 0 <=> 2 * p = Unit
               /\ m = 0 => j.bool = {FALSE}
               /\ m = Unit <=> p \in {0, Unit}
    <3>1. p \in 0 .. Unit /\ a.noul = {p}
      BY <2>1, <2>2 DEF AtMostOne
    <3>2. m = MarginFromProbabilityYes(p) /\ j.bool = {BoolFromProbabilityYes(p)}
      BY <2>1, <3>1
    <3>3. BoolFromProbabilityYes(p) \in BOOLEAN
      BY DEF BoolFromProbabilityYes
    <3>4. /\ m = 0 <=> 2 * p = Unit
          /\ m = 0 => ~BoolFromProbabilityYes(p)
          /\ m = Unit <=> p \in {0, Unit}
      BY <3>1, <3>2, YesMarginReads
    <3>. QED BY <3>2, <3>3, <3>4
  <2>. QED BY <1>1, <2>1, <2>3
<1>4. CASE Lower(q.type) \in {"choice", "score"}
  <2>1. j.probabilityYes = {} /\ j.probabilities = Spread(q, a) /\ j.margin = SpreadMargin(q, a)
    BY <1>1, <1>4, JudgedSays DEF Says, Nil, j
  <2>2. ASSUME NEW d \in j.probabilities, NEW m \in j.margin
        PROVE  /\ m = 0 <=> \E n1, n2 \in DOMAIN d :
                    n1 # n2 /\ d[n1] = d[n2] /\ \A n \in DOMAIN d : d[n] <= d[n1]
               /\ m = Unit <=> \E n \in DOMAIN d : d[n] = Unit
    <3>1. a.form # "absent" /\ d = Distribution(q, a) /\ m = MarginFromDistribution(d)
      BY <2>1 DEF Spread, SpreadMargin, Nil
    <3>2. IsDistribution(d, NamesOf(q))
      BY <1>1, <1>4, <3>1, DistributionFits
    <3>3. DOMAIN d = NamesOf(q)
      BY <3>2, SharesOfOne
    <3>. QED BY <3>1, <3>2, <3>3, MarginReads
  <2>. QED BY <1>1, <2>1, <2>2
<1>. QED BY <1>2, <1>3, <1>4

\* Whatever the body, a margin reads what was reported: 0 exactly at a tie, the
\* whole exactly where there is nothing else.
THEOREM MarginsReadTruly == Spec => []MarginReadsDistribution
BY MarginFromInv, ParseInvariance, PTL
=============================================================================
