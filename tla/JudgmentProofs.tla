--------------------------- MODULE JudgmentProofs ---------------------------
(***************************************************************************)
(* Lemmas about judgments: which fields the operators that make and change *)
(* them leave alone, what escalation makes of one, and what the values of  *)
(* an accepted answer are.                                                 *)
(***************************************************************************)
EXTENDS Lowering, InductionFacts, TLAPS

JudgmentFields ==
    {"type", "compiledTo", "outcome", "bool", "choice", "score", "probabilityYes",
     "probabilities", "confidence", "margin", "escalate", "reason"}

IsJudgment(j) == j = [y \in JudgmentFields |-> j[y]]

\* A judgment no rule has been applied to yet.
Fresh(j) == IsJudgment(j) /\ j.outcome = "ACCEPTABLE_CONFIDENCE"

\* Told in the words of a question of type t.
InWordsOf(j, t) == IsJudgment(j) /\ j.type = t /\ j.compiledTo = CompiledTo(t)

---------------------------------------------------------------------------
\* Writing one field of a function keeps it a function over the same fields,
\* and writing what is there already changes nothing.
LEMMA ExceptIsFunction ==
    ASSUME NEW f, NEW x, NEW v
    PROVE  [f EXCEPT ![x] = v] = [y \in DOMAIN f |-> [f EXCEPT ![x] = v][y]]
OBVIOUS

LEMMA ExceptSame ==
    ASSUME NEW D, NEW f, f = [y \in D |-> f[y]], NEW x \in D, NEW v, f[x] = v
    PROVE  [f EXCEPT ![x] = v] = f
OBVIOUS

\* Writing a field of a judgment.
LEMMA ExceptIsJudgment ==
    ASSUME NEW j, IsJudgment(j), NEW x \in JudgmentFields, NEW v
    PROVE  /\ IsJudgment([j EXCEPT ![x] = v])
           /\ [j EXCEPT ![x] = v][x] = v
           /\ \A y \in JudgmentFields \ {x} : [j EXCEPT ![x] = v][y] = j[y]
<1>1. DOMAIN j = JudgmentFields
  BY DEF IsJudgment
<1>2. IsJudgment([j EXCEPT ![x] = v])
  BY <1>1, ExceptIsFunction DEF IsJudgment
<1>3. [j EXCEPT ![x] = v][x] = v /\ \A y \in JudgmentFields \ {x} : [j EXCEPT ![x] = v][y] = j[y]
  BY <1>1
<1>. QED BY <1>2, <1>3

LEMMA ExceptFresh ==
    ASSUME NEW j, Fresh(j), NEW x \in JudgmentFields \ {"outcome"}, NEW v
    PROVE  Fresh([j EXCEPT ![x] = v])
<1>1. "outcome" \in JudgmentFields \ {x}
  BY DEF JudgmentFields
<1>. QED BY <1>1, ExceptIsJudgment DEF Fresh

\* A judgment told in a question's words is not changed by telling it so again.
LEMMA ToldTwice ==
    ASSUME NEW j, NEW t, InWordsOf(j, t)
    PROVE  [j EXCEPT !.type = t, !.compiledTo = CompiledTo(t)] = j
<1>1. "type" \in JudgmentFields /\ "compiledTo" \in JudgmentFields
  BY DEF JudgmentFields
<1>2. [j EXCEPT !.type = t] = j
  BY <1>1, ExceptSame DEF IsJudgment, InWordsOf
<1>3. [j EXCEPT !.compiledTo = CompiledTo(t)] = j
  BY <1>1, ExceptSame DEF IsJudgment, InWordsOf
<1>. QED BY <1>2, <1>3

\* Telling a judgment in a question's words touches nothing else.
LEMMA Retold ==
    ASSUME NEW j, IsJudgment(j), NEW t
    PROVE  LET k == [j EXCEPT !.type = t, !.compiledTo = CompiledTo(t)]
           IN  InWordsOf(k, t) /\ \A y \in JudgmentFields \ {"type", "compiledTo"} : k[y] = j[y]
<1>. DEFINE i == [j EXCEPT !.type = t]
            k == [i EXCEPT !.compiledTo = CompiledTo(t)]
<1>1. "type" \in JudgmentFields /\ "compiledTo" \in JudgmentFields /\ "type" # "compiledTo"
  BY DEF JudgmentFields
<1>2. IsJudgment(i) /\ i.type = t /\ \A y \in JudgmentFields \ {"type"} : i[y] = j[y]
  BY <1>1, ExceptIsJudgment
<1>. HIDE DEF i
<1>3. /\ IsJudgment(k) /\ k.compiledTo = CompiledTo(t)
      /\ \A y \in JudgmentFields \ {"compiledTo"} : k[y] = i[y]
  BY <1>1, <1>2, ExceptIsJudgment
<1>. HIDE DEF k
<1>4. InWordsOf(k, t) /\ \A y \in JudgmentFields \ {"type", "compiledTo"} : k[y] = j[y]
  BY <1>1, <1>2, <1>3 DEF InWordsOf
<1>. QED BY <1>4 DEF i, k

\* An empty judgment is told in the words of its type.
LEMMA EmptyFits ==
    ASSUME NEW t, NEW o
    PROVE  InWordsOf(EmptyJudgment(t, o), t) /\ EmptyJudgment(t, o).outcome = o
<1>1. IsJudgment(EmptyJudgment(t, o))
  BY DEF EmptyJudgment, IsJudgment, JudgmentFields
<1>. QED BY <1>1 DEF EmptyJudgment, InWordsOf

\* What an acceptable judgment about a question of type t says, field by field.
Says(j, t, bool, choice, score, yes, probabilities, confidence, margin) ==
    /\ Fresh(j) /\ j.type = t /\ j.compiledTo = CompiledTo(t)
    /\ j.bool = bool /\ j.choice = choice /\ j.score = score
    /\ j.probabilityYes = yes /\ j.probabilities = probabilities
    /\ j.confidence = confidence /\ j.margin = margin

\* Writing a value says that value, and the others as before.
LEMMA SaysUpdated ==
    ASSUME NEW j, NEW t, NEW b, NEW c, NEW s, NEW y, NEW p, NEW k, NEW m, NEW v,
           Says(j, t, b, c, s, y, p, k, m)
    PROVE  /\ Says([j EXCEPT !.bool = v], t, v, c, s, y, p, k, m)
           /\ Says([j EXCEPT !.choice = v], t, b, v, s, y, p, k, m)
           /\ Says([j EXCEPT !.score = v], t, b, c, v, y, p, k, m)
           /\ Says([j EXCEPT !.probabilityYes = v], t, b, c, s, v, p, k, m)
           /\ Says([j EXCEPT !.probabilities = v], t, b, c, s, y, v, k, m)
           /\ Says([j EXCEPT !.confidence = v], t, b, c, s, y, p, v, m)
           /\ Says([j EXCEPT !.margin = v], t, b, c, s, y, p, k, v)
<1>1. DOMAIN j = JudgmentFields
  BY DEF Says, Fresh, IsJudgment
<1>2. \A x \in JudgmentFields \ {"outcome"} : Fresh([j EXCEPT ![x] = v])
  BY ExceptFresh DEF Says
<1>. QED BY <1>1, <1>2 DEF Says, JudgmentFields

\* The distribution and the margin a choice's or a score's answer carries.
Spread(q, a) == IF a.form = "absent" THEN Nil ELSE {Distribution(q, a)}

SpreadMargin(q, a) ==
    IF a.form = "absent" THEN Nil ELSE {MarginFromDistribution(Distribution(q, a))}

\* What parseResponse makes of an answer says what the answer said, in the field
\* its question's type calls for, and nothing it did not say.
LEMMA JudgedSays ==
    ASSUME NEW q, q.type \in DecisionTypes, NEW a
    PROVE  /\ Lower(q.type) = "noul" =>
                Says(Judged(q, a), q.type, {BoolFromProbabilityYes(p) : p \in a.noul},
                     Nil, Nil, a.noul, Nil, a.confidence,
                     {MarginFromProbabilityYes(p) : p \in a.noul})
           /\ Lower(q.type) = "choice" =>
                Says(Judged(q, a), q.type, Nil, a.choice, Nil, Nil,
                     Spread(q, a), a.confidence, SpreadMargin(q, a))
           /\ Lower(q.type) = "score" =>
                Says(Judged(q, a), q.type, Nil, Nil, a.score, Nil,
                     Spread(q, a), a.confidence, SpreadMargin(q, a))
<1>. DEFINE j == [EmptyJudgment(q.type, "ACCEPTABLE_CONFIDENCE")
                    EXCEPT !.confidence = ReportedConfidence(a)]
            spread(k) ==
              IF a.form = "absent" THEN k
              ELSE [k EXCEPT !.probabilities = {Distribution(q, a)},
                             !.margin = {MarginFromDistribution(Distribution(q, a))}]
            bool == {BoolFromProbabilityYes(p) : p \in a.noul}
            margin == {MarginFromProbabilityYes(p) : p \in a.noul}
            noul == [j EXCEPT !.probabilityYes = a.noul, !.bool = bool, !.margin = margin]
<1>1. Judged(q, a) = CASE Lower(q.type) = "noul"   -> noul
                       [] Lower(q.type) = "choice" -> spread([j EXCEPT !.choice = a.choice])
                       [] Lower(q.type) = "score"  -> spread([j EXCEPT !.score = a.score])
  BY DEF Judged
<1>2. Says(j, q.type, Nil, Nil, Nil, Nil, Nil, a.confidence, Nil)
  <2>. DEFINE e == EmptyJudgment(q.type, "ACCEPTABLE_CONFIDENCE")
  <2>1. Says(e, q.type, Nil, Nil, Nil, Nil, Nil, Nil, Nil)
    <3>1. InWordsOf(e, q.type) /\ e.outcome = "ACCEPTABLE_CONFIDENCE"
      BY EmptyFits
    <3>2. /\ e.bool = Nil /\ e.choice = Nil /\ e.score = Nil /\ e.probabilityYes = Nil
          /\ e.probabilities = Nil /\ e.confidence = Nil /\ e.margin = Nil
      BY DEF EmptyJudgment
    <3>. HIDE DEF e
    <3>. QED BY <3>1, <3>2 DEF Says, Fresh, InWordsOf
  <2>2. j = [e EXCEPT !.confidence = a.confidence]
    BY DEF ReportedConfidence
  <2>. HIDE DEF e, j
  <2>. QED BY <2>1, <2>2, SaysUpdated
<1>. HIDE DEF j, bool, margin
<1>3. Says(noul, q.type, bool, Nil, Nil, a.noul, Nil, a.confidence, margin)
  <2>. DEFINE k == [j EXCEPT !.probabilityYes = a.noul]
              l == [k EXCEPT !.bool = bool]
  <2>1. Says(k, q.type, Nil, Nil, Nil, a.noul, Nil, a.confidence, Nil)
    BY <1>2, SaysUpdated
  <2>2. noul = [l EXCEPT !.margin = margin]
    OBVIOUS
  <2>. HIDE DEF k
  <2>3. Says(l, q.type, bool, Nil, Nil, a.noul, Nil, a.confidence, Nil)
    BY <2>1, SaysUpdated
  <2>. HIDE DEF l, noul
  <2>. QED BY <2>2, <2>3, SaysUpdated
<1>4. /\ Says([j EXCEPT !.choice = a.choice],
              q.type, Nil, a.choice, Nil, Nil, Nil, a.confidence, Nil)
      /\ Says([j EXCEPT !.score = a.score],
              q.type, Nil, Nil, a.score, Nil, Nil, a.confidence, Nil)
  BY <1>2, SaysUpdated
<1>5. ASSUME NEW k, NEW c, NEW s,
             Says(k, q.type, Nil, c, s, Nil, Nil, a.confidence, Nil)
      PROVE  Says(spread(k), q.type, Nil, c, s, Nil,
                  Spread(q, a), a.confidence, SpreadMargin(q, a))
  <2>. DEFINE d == Distribution(q, a)
              m == MarginFromDistribution(d)
              l == [k EXCEPT !.probabilities = {d}]
  <2>1. CASE a.form = "absent"
    BY <1>5, <2>1 DEF Spread, SpreadMargin
  <2>2. CASE a.form # "absent"
    <3>1. Says(l, q.type, Nil, c, s, Nil, {d}, a.confidence, Nil)
      BY <1>5, SaysUpdated
    <3>2. spread(k) = [l EXCEPT !.margin = {m}]
      BY <2>2
    <3>3. Spread(q, a) = {d} /\ SpreadMargin(q, a) = {m}
      BY <2>2 DEF Spread, SpreadMargin
    <3>. HIDE DEF l, d, m
    <3>4. Says([l EXCEPT !.margin = {m}], q.type, Nil, c, s, Nil, {d}, a.confidence, {m})
      BY <3>1, SaysUpdated
    <3>. HIDE DEF spread
    <3>. QED BY <3>2, <3>3, <3>4
  <2>. QED BY <2>1, <2>2
<1>6. Lower(q.type) \in {"noul", "choice", "score"}
  BY DEF Lower, DecisionTypes
<1>. HIDE DEF noul, spread
<1>7. /\ Says(spread([j EXCEPT !.choice = a.choice]), q.type, Nil, a.choice, Nil, Nil,
              Spread(q, a), a.confidence, SpreadMargin(q, a))
      /\ Says(spread([j EXCEPT !.score = a.score]), q.type, Nil, Nil, a.score, Nil,
              Spread(q, a), a.confidence, SpreadMargin(q, a))
  BY <1>4, <1>5
<1>8. CASE Lower(q.type) = "noul"
  <2>1. Judged(q, a) = noul
    BY <1>1, <1>8
  <2>. QED BY <1>3, <1>8, <2>1 DEF bool, margin
<1>9. CASE Lower(q.type) = "choice"
  <2>1. Judged(q, a) = spread([j EXCEPT !.choice = a.choice])
    BY <1>1, <1>9
  <2>. QED BY <1>7, <1>9, <2>1
<1>10. CASE Lower(q.type) = "score"
  <2>1. Judged(q, a) = spread([j EXCEPT !.score = a.score])
    BY <1>1, <1>10
  <2>. QED BY <1>7, <1>10, <2>1
<1>. QED BY <1>6, <1>8, <1>9, <1>10

\* Whatever an answer says, what parseResponse makes of it is a fresh judgment.
LEMMA JudgedFresh ==
    ASSUME NEW q, q.type \in DecisionTypes, NEW a
    PROVE  Fresh(Judged(q, a))
<1>1. Lower(q.type) \in {"noul", "choice", "score"}
  BY DEF Lower, DecisionTypes
<1>. QED BY <1>1, JudgedSays DEF Says

---------------------------------------------------------------------------
\* A body is accepted exactly when its envelope, its identities and every answer
\* fit, and then each answer is judged.
LEMMA AcceptedBody ==
    ASSUME NEW r, NEW b, NEW s
    PROVE  /\ ParseResponse(r, b, s).accepted <=>
                /\ b.wellFormed /\ KnownFields(b.unknown, s)
                /\ DOMAIN b.answers = DOMAIN r
                /\ \A id \in DOMAIN r : AnswerFits(r[id], b.answers[id], s)
           /\ ParseResponse(r, b, s).accepted =>
                ParseResponse(r, b, s) =
                  [accepted |-> TRUE, why |-> "",
                   judgments |-> [id \in DOMAIN r |-> Judged(r[id], b.answers[id])]]
<1>. DEFINE told == [accepted |-> TRUE, why |-> "",
                     judgments |-> [id \in DOMAIN r |-> Judged(r[id], b.answers[id])]]
            fits == /\ b.wellFormed /\ KnownFields(b.unknown, s)
                    /\ DOMAIN b.answers = DOMAIN r
                    /\ \A id \in DOMAIN r : AnswerFits(r[id], b.answers[id], s)
<1>1. told.accepted /\ \A why : ~Refused(why).accepted
  BY DEF Refused
<1>2. CASE fits
  <2>1. ParseResponse(r, b, s) = told
    BY <1>2 DEF ParseResponse, SameQuestions
  <2>. HIDE DEF told
  <2>. QED BY <1>1, <1>2, <2>1 DEF told
<1>3. CASE ~fits
  <2>1. ParseResponse(r, b, s) \in {Refused("envelope"), Refused("identity"), Refused("answer")}
    BY <1>3 DEF ParseResponse, SameQuestions
  <2>2. ~ParseResponse(r, b, s).accepted
    BY <1>1, <2>1
  <2>. QED BY <1>3, <2>2
<1>. QED BY <1>2, <1>3

\* A fitting answer has the one value its question's type calls for, and a
\* distribution, if any, of its type's form.
LEMMA FittingAnswer ==
    ASSUME NEW q, NEW a, NEW s, AnswerFits(q, a, s)
    PROVE  /\ Lower(q.type) = "noul"   => a.noul # Nil
           /\ Lower(q.type) = "choice" =>
                a.choice # Nil /\ a.noul = Nil /\ a.form \in {"absent", "object"}
           /\ Lower(q.type) = "score"  =>
                a.score # Nil /\ a.noul = Nil /\ a.form \in {"absent", "array"}
<1>1. CASE Lower(q.type) = "noul"
  BY <1>1 DEF AnswerFits, NoulFits
<1>2. CASE Lower(q.type) = "choice"
  BY <1>2 DEF AnswerFits, ChoiceFits
<1>3. CASE Lower(q.type) = "score"
  BY <1>3 DEF AnswerFits, ScoreFits
<1>. QED BY <1>1, <1>2, <1>3

\* A judgment holds at most one value and one margin, and a noul that was made
\* holds a value.
Pointed(j) ==
    /\ j.type = "noul" /\ j.outcome \notin {"UNAVAILABLE", "ERROR"} => j.bool # Nil
    /\ j.bool \subseteq BOOLEAN /\ \A v, w \in j.bool : v = w
    /\ \A v, w \in j.margin : v = w

LEMMA EmptyPointed ==
    ASSUME NEW t, NEW o \in {"UNAVAILABLE", "ERROR"}
    PROVE  Pointed(EmptyJudgment(t, o))
<1>1. /\ EmptyJudgment(t, o).outcome = o /\ EmptyJudgment(t, o).bool = Nil
      /\ EmptyJudgment(t, o).margin = Nil
  BY DEF EmptyJudgment
<1>. QED BY <1>1 DEF Pointed, Nil

\* So does what is made of an answer that fits and has at most one noul value.
LEMMA JudgedPointed ==
    ASSUME NEW q, q.type \in DecisionTypes, NEW a, NEW s, AnswerFits(q, a, s),
           \A v, w \in a.noul : v = w
    PROVE  Pointed(Judged(q, a))
<1>. DEFINE j == Judged(q, a)
<1>1. CASE Lower(q.type) = "noul"
  <2>1. /\ j.bool = {BoolFromProbabilityYes(p) : p \in a.noul}
        /\ j.margin = {MarginFromProbabilityYes(p) : p \in a.noul}
    BY <1>1, JudgedSays DEF Says
  <2>2. a.noul # {}
    BY <1>1, FittingAnswer DEF Nil
  <2>3. \A p : BoolFromProbabilityYes(p) \in BOOLEAN
    BY DEF BoolFromProbabilityYes
  <2>. QED BY <2>1, <2>2, <2>3 DEF Pointed, Nil
<1>2. CASE Lower(q.type) \in {"choice", "score"}
  <2>1. j.bool = Nil /\ j.margin = SpreadMargin(q, a) /\ j.type = q.type
    BY <1>2, JudgedSays DEF Says
  <2>2. q.type # "noul" /\ \A v, w \in SpreadMargin(q, a) : v = w
    BY <1>2 DEF Lower, SpreadMargin, Nil
  <2>. QED BY <2>1, <2>2 DEF Pointed, Nil
<1>3. Lower(q.type) \in {"noul", "choice", "score"}
  BY DEF Lower, DecisionTypes
<1>. QED BY <1>1, <1>2, <1>3

---------------------------------------------------------------------------
\* The first verdict of a rule that is not empty.
Because(j, rule) ==
    IF Verdict(j.confidence, rule.confidence) # "" THEN Verdict(j.confidence, rule.confidence)
                                                   ELSE Verdict(j.margin, rule.margin)

\* A judgment e that was made of j by a rule, and is told in the words of type t.
Follows(e, j, rule, t) ==
    /\ InWordsOf(e, t)
    /\ e.outcome = IF Because(j, rule) = "" THEN "ACCEPTABLE_CONFIDENCE" ELSE "LOW_CONFIDENCE"
    /\ e.escalate = (Because(j, rule) # "") /\ e.reason = Because(j, rule)
    /\ e.confidence = j.confidence /\ e.margin = j.margin /\ e.bool = j.bool
    /\ e.choice = j.choice /\ e.score = j.score
    /\ e.probabilityYes = j.probabilityYes /\ e.probabilities = j.probabilities

\* Escalation writes what the rule says of a fresh judgment into three fields and
\* leaves the others as they are.
LEMMA EscalationFollows ==
    ASSUME NEW j, Fresh(j), NEW rule, NEW t, InWordsOf(j, t)
    PROVE  Follows(ApplyEscalation(j, rule), j, rule, t)
<1>. DEFINE reason == Because(j, rule)
            outcome == IF reason = "" THEN "ACCEPTABLE_CONFIDENCE" ELSE "LOW_CONFIDENCE"
            escalate == reason # ""
            k == [j EXCEPT !.outcome = outcome]
            l == [k EXCEPT !.escalate = escalate]
            m == [l EXCEPT !.reason = reason]
<1>1. ApplyEscalation(j, rule) = m
  BY DEF ApplyEscalation, Because, Fresh
<1>2. /\ outcome = (IF reason = "" THEN "ACCEPTABLE_CONFIDENCE" ELSE "LOW_CONFIDENCE")
      /\ escalate = (reason # "")
  OBVIOUS
<1>. HIDE DEF reason, outcome, escalate
<1>3. {"outcome", "escalate", "reason", "type", "compiledTo", "confidence", "margin", "bool",
        "choice", "score", "probabilityYes", "probabilities"} \subseteq JudgmentFields
  BY DEF JudgmentFields
<1>4. IsJudgment(j) /\ j.type = t /\ j.compiledTo = CompiledTo(t)
  BY DEF InWordsOf
<1>5. /\ IsJudgment(k) /\ k.outcome = outcome
      /\ \A y \in JudgmentFields \ {"outcome"} : k[y] = j[y]
  BY <1>3, <1>4, ExceptIsJudgment
<1>. HIDE DEF k
<1>6. /\ IsJudgment(l) /\ l.escalate = escalate
      /\ \A y \in JudgmentFields \ {"escalate"} : l[y] = k[y]
  BY <1>3, <1>5, ExceptIsJudgment
<1>. HIDE DEF l
<1>7. /\ IsJudgment(m) /\ m.reason = reason
      /\ \A y \in JudgmentFields \ {"reason"} : m[y] = l[y]
  BY <1>3, <1>6, ExceptIsJudgment
<1>. HIDE DEF m
<1>8. m.outcome = outcome /\ m.escalate = escalate
  <2>1. m.outcome = k.outcome /\ m.escalate = l.escalate
    BY <1>3, <1>6, <1>7
  <2>. QED BY <1>5, <1>6, <2>1
<1>9. /\ m.type = t /\ m.compiledTo = CompiledTo(t)
      /\ m.confidence = j.confidence /\ m.margin = j.margin /\ m.bool = j.bool
      /\ m.choice = j.choice /\ m.score = j.score
      /\ m.probabilityYes = j.probabilityYes /\ m.probabilities = j.probabilities
  BY <1>3, <1>4, <1>5, <1>6, <1>7
<1>10. InWordsOf(m, t)
  BY <1>7, <1>9 DEF InWordsOf
<1>11. Follows(m, j, rule, t)
  BY <1>2, <1>7, <1>8, <1>9, <1>10 DEF Follows, reason
<1>. QED BY <1>1, <1>11

\* What restoring and escalating make of a fresh judgment: it is told in the words
\* of its question and says what the rule says of what was reported.
LEMMA RestoredFollows ==
    ASSUME NEW j, Fresh(j), NEW rule, NEW t
    PROVE  Follows(ApplyEscalation([j EXCEPT !.type = t, !.compiledTo = CompiledTo(t)], rule),
                   j, rule, t)
<1>. DEFINE k == [j EXCEPT !.type = t, !.compiledTo = CompiledTo(t)]
<1>1. InWordsOf(k, t) /\ \A y \in JudgmentFields \ {"type", "compiledTo"} : k[y] = j[y]
  BY Retold DEF Fresh
<1>. HIDE DEF k
<1>2. /\ k.confidence = j.confidence /\ k.margin = j.margin /\ k.bool = j.bool
      /\ k.choice = j.choice /\ k.score = j.score
      /\ k.probabilityYes = j.probabilityYes /\ k.probabilities = j.probabilities
      /\ Fresh(k)
  BY <1>1 DEF Fresh, InWordsOf, JudgmentFields
<1>3. Because(k, rule) = Because(j, rule)
  BY <1>2 DEF Because
<1>4. Follows(ApplyEscalation(k, rule), k, rule, t)
  BY <1>1, <1>2, EscalationFollows
<1>5. Follows(ApplyEscalation(k, rule), j, rule, t)
  BY <1>2, <1>3, <1>4 DEF Follows
<1>. QED BY <1>5 DEF k
---------------------------------------------------------------------------
\* Probabilities of names, which make a whole.
IsDistribution(d, names) ==
    /\ d \in [names -> 0 .. Unit] /\ IsFiniteSet(names)
    /\ SumFunctionOnSet(d, names) = Unit

\* A decoded number, null or not, is a number.
LEMMA DecodedIsInt == ASSUME NEW p, Numeric(p) PROVE DecodedFloat(p) \in Int
<1>1. CASE p = {}
  BY <1>1 DEF DecodedFloat
<1>2. CASE p # {}
  <2>1. (CHOOSE v \in p : TRUE) \in p /\ p \subseteq Int
    BY <1>2 DEF Numeric
  <2>. QED BY <1>2, <2>1 DEF DecodedFloat
<1>. QED BY <1>1, <1>2

\* An object of good values is a distribution over its own names.
LEMMA GoodIsDistribution ==
    ASSUME NEW d, d = [n \in DOMAIN d |-> d[n]], IsFiniteSet(DOMAIN d),
           \A n \in DOMAIN d : d[n] \in Int, GoodDistribution(d)
    PROVE  IsDistribution(d, DOMAIN d)
<1>1. \A n \in DOMAIN d : d[n] \in 0 .. Unit
  BY UnitAssumption DEF GoodDistribution, InUnit
<1>2. SumFunctionOnSet(d, DOMAIN d) = Unit
  BY DEF GoodDistribution, SumFunction
<1>. QED BY <1>1, <1>2 DEF IsDistribution

\* The names of a question are finitely many.
LEMMA NamesAreFinite ==
    ASSUME NEW q, AskedQuestion(q)
    PROVE  /\ IsFiniteSet(NamesOf(q)) /\ Len(q.names) \in Nat
           /\ DOMAIN q.names = 1 .. Len(q.names) /\ IsFiniteSet(1 .. Len(q.names))
<1>1. q.names \in Seq(NamesOf(q))
  BY DEF AskedQuestion
<1>2. Len(q.names) \in Nat /\ DOMAIN q.names = 1 .. Len(q.names)
  BY <1>1
<1>3. IsFiniteSet(1 .. Len(q.names))
  BY <1>2, UptoIsFinite
<1>4. q.names \in Surjection(1 .. Len(q.names), NamesOf(q))
  <2>1. q.names \in [1 .. Len(q.names) -> NamesOf(q)]
    BY <1>1
  <2>. QED BY <1>2, <2>1 DEF Surjection, NamesOf
<1>5. IsFiniteSet(NamesOf(q))
  BY <1>3, <1>4, FS_Surjection
<1>. QED BY <1>2, <1>3, <1>5

\* The distribution of an accepted answer is one, over the question's own names.
LEMMA DistributionFits ==
    ASSUME NEW q, AskedQuestion(q), NEW a, WireAnswer(a), NEW s, AnswerFits(q, a, s),
           Lower(q.type) \in {"choice", "score"}, a.form # "absent"
    PROVE  IsDistribution(Distribution(q, a), NamesOf(q))
<1>. DEFINE d == Decoded(a.values)
<1>1. /\ d = [n \in DOMAIN a.values |-> d[n]] /\ DOMAIN d = DOMAIN a.values
      /\ \A n \in DOMAIN a.values : d[n] = DecodedFloat(a.values[n]) /\ d[n] \in Int
  BY DecodedIsInt DEF Decoded, WireAnswer
<1>2. CASE Lower(q.type) = "choice"
  <2>1. DOMAIN a.values = NamesOf(q) /\ GoodDistribution(d)
    BY <1>2 DEF AnswerFits, ChoiceFits
  <2>2. Distribution(q, a) = d
    BY <1>2 DEF Distribution
  <2>. HIDE DEF d
  <2>3. IsDistribution(d, DOMAIN d)
    BY <1>1, <2>1, NamesAreFinite, GoodIsDistribution
  <2>. QED BY <1>1, <2>1, <2>2, <2>3
<1>3. CASE Lower(q.type) = "score"
  <2>. DEFINE D == 1 .. Len(q.names)
              f == Distribution(q, a)
  <2>1. /\ a.form = "array" /\ Len(a.values) = Len(q.names) /\ GoodDistribution(d)
        /\ a.values \in Seq({a.values[n] : n \in DOMAIN a.values})
    BY <1>3 DEF AnswerFits, ScoreFits, WireAnswer
  <2>2. DOMAIN a.values = D /\ DOMAIN q.names = D /\ IsFiniteSet(D)
    BY <2>1, NamesAreFinite
  <2>3. f = [n \in NamesOf(q) |->
               DecodedFloat(a.values[CHOOSE i \in DOMAIN q.names : q.names[i] = n])]
    BY <1>3 DEF Distribution
  <2>. HIDE DEF d, f
  <2>4. IsDistribution(d, D)
    BY <1>1, <2>1, <2>2, GoodIsDistribution
  <2>5. ASSUME NEW i \in D PROVE q.names[i] \in NamesOf(q) /\ f[q.names[i]] = d[i]
    <3>1. q.names[i] \in NamesOf(q)
      BY <2>2 DEF NamesOf
    <3>2. (CHOOSE k \in DOMAIN q.names : q.names[k] = q.names[i]) = i
      BY <2>2 DEF AskedQuestion
    <3>. QED BY <1>1, <2>2, <2>3, <3>1, <3>2
  <2>6. NamesOf(q) = {q.names[i] : i \in D}
    BY <2>2 DEF NamesOf
  <2>7. f \in [NamesOf(q) -> 0 .. Unit]
    <3>1. ASSUME NEW n \in NamesOf(q) PROVE f[n] \in 0 .. Unit
      BY <2>4, <2>5, <2>6 DEF IsDistribution
    <3>. QED BY <2>3, <3>1
  <2>8. SumFunctionOnSet(f, NamesOf(q)) = Unit
    <3>1. \A x, y \in D : q.names[x] = q.names[y] => x = y
      BY <2>2 DEF AskedQuestion
    <3>2. \A x \in D : d[x] \in Int /\ f[q.names[x]] = d[x]
      BY <1>1, <2>2, <2>5
    <3>3. SumFunctionOnSet(f, NamesOf(q)) = SumFunctionOnSet(d, D)
      <4>. DEFINE k == q.names
      <4>1. \A x, y \in D : k[x] = k[y] => x = y
        BY <3>1
      <4>2. \A x \in D : d[x] \in Int /\ f[k[x]] = d[x]
        BY <3>2
      <4>3. NamesOf(q) = {k[x] : x \in D}
        BY <2>6
      <4>. HIDE DEF k, D
      <4>. QED BY <2>2, <4>1, <4>2, <4>3, SumRenamed
    <3>. QED BY <2>4, <2>6, <3>3 DEF IsDistribution
  <2>. QED BY <2>7, <2>8, NamesAreFinite DEF IsDistribution, f
<1>. QED BY <1>2, <1>3
\* Of the values of a distribution over some of its names, one is the largest.
LEMMA LargestExists ==
    ASSUME NEW d, NEW names, \A n \in names : d[n] \in 0 .. Unit, names # {}
    PROVE  \E n \in names : \A m \in names : d[m] <= d[n]
<1>. DEFINE S == {d[n] : n \in names}
<1>1. S \subseteq 0 .. Unit /\ S # {} /\ Unit \in Nat
  BY UnitAssumption
<1>2. PICK v \in S : \A k \in S : k <= v
  <2>. HIDE DEF S
  <2>. QED BY <1>1, GreatestNumber
<1>3. PICK n \in names : v = d[n]
  OBVIOUS
<1>. QED BY <1>2, <1>3

\* No two probabilities of a distribution exceed the whole, and there is one.
LEMMA SharesOfOne ==
    ASSUME NEW d, NEW names, IsDistribution(d, names)
    PROVE  /\ names # {} /\ DOMAIN d = names
           /\ \A n \in names : d[n] \in 0 .. Unit
           /\ \A n, m \in names : n # m => d[n] + d[m] <= Unit
           /\ \A n \in names : names = {n} => d[n] = Unit
<1>1. /\ DOMAIN d = names /\ IsFiniteSet(names) /\ SumFunctionOnSet(d, names) = Unit
      /\ Unit \in Nat /\ Unit # 0
      /\ \A n \in names : d[n] \in 0 .. Unit /\ d[n] \in Nat /\ d[n] \in Int
  BY UnitAssumption DEF IsDistribution
<1>2. names # {}
  BY <1>1, SumOfNone
<1>3. ASSUME NEW n \in names, NEW m \in names, n # m PROVE d[n] + d[m] <= Unit
  <2>1. m \in names \ {n}
    BY <1>3
  <2>2. d[n] + d[m] <= SumFunctionOnSet(d, names)
    BY <1>1, <2>1, SumHoldsMembers
  <2>. QED BY <1>1, <2>2
<1>4. ASSUME NEW n \in names, names = {n} PROVE d[n] = Unit
  <2>1. SumFunctionOnSet(d, names) = d[n] + SumFunctionOnSet(d, names \ {n})
    BY <1>1, SumTakesOut
  <2>2. names \ {n} = {}
    BY <1>4
  <2>3. SumFunctionOnSet(d, names \ {n}) = 0
    BY <2>2, SumOfNone
  <2>4. d[n] \in Int /\ SumFunctionOnSet(d, names) = Unit
    BY <1>1
  <2>. QED BY ONLY <2>1, <2>3, <2>4
<1>. QED BY <1>1, <1>2, <1>3, <1>4

\* The margin of a distribution is a probability, 0 exactly when two names share the
\* top, and the whole exactly when one name has it.
LEMMA MarginReads ==
    ASSUME NEW d, NEW names, IsDistribution(d, names), NEW m, m = MarginFromDistribution(d)
    PROVE  /\ m \in 0 .. Unit
           /\ m = 0 <=> \E n1, n2 \in names :
                n1 # n2 /\ d[n1] = d[n2] /\ \A n \in names : d[n] <= d[n1]
           /\ m = Unit <=> \E n \in names : d[n] = Unit
<1>. DEFINE top  == CHOOSE n \in names : \A k \in names : d[k] <= d[n]
            rest == {d[k] : k \in names \ {top}}
            next == IF rest = {} THEN 0 ELSE CHOOSE v \in rest : \A w \in rest : w <= v
<1>1. /\ names # {} /\ DOMAIN d = names /\ Unit \in Nat /\ Unit # 0
      /\ \A n \in names : d[n] \in 0 .. Unit
      /\ \A n, k \in names : n # k => d[n] + d[k] <= Unit
      /\ \A n \in names : names = {n} => d[n] = Unit
  BY SharesOfOne, UnitAssumption
<1>2. m = d[top] - next
  BY <1>1 DEF MarginFromDistribution
<1>3. top \in names /\ \A k \in names : d[k] <= d[top]
  BY <1>1, LargestExists
<1>. HIDE DEF top
<1>4. /\ names = {top} => next = 0
      /\ names # {top} => \E z \in names \ {top} : next = d[z]
      /\ \A k \in names \ {top} : d[k] <= next
  <2>1. CASE names = {top}
    <3>1. rest = {} /\ names \ {top} = {}
      BY <2>1
    <3>. QED BY <2>1, <3>1
  <2>2. CASE names # {top}
    <3>1. names \ {top} # {} /\ \A n \in names \ {top} : d[n] \in 0 .. Unit
      BY <1>1, <1>3, <2>2
    <3>2. PICK z \in names \ {top} : \A k \in names \ {top} : d[k] <= d[z]
      BY <3>1, LargestExists
    <3>3. d[z] \in rest /\ \A w \in rest : w <= d[z]
      BY <3>2
    <3>4. next \in rest /\ \A w \in rest : w <= next
      BY <3>3
    <3>. HIDE DEF next
    <3>. QED BY <2>2, <3>4
  <2>. QED BY <2>1, <2>2
<1>. HIDE DEF next, rest
<1>5. d[top] \in 0 .. Unit /\ next \in 0 .. Unit /\ next <= d[top] /\ next + d[top] <= Unit
      /\ (names = {top} => d[top] = Unit)
  <2>1. CASE names = {top}
    BY <1>1, <1>3, <1>4, <2>1
  <2>2. CASE names # {top}
    <3>1. PICK z \in names \ {top} : next = d[z]
      BY <1>4, <2>2
    <3>2. d[z] + d[top] <= Unit /\ d[z] <= d[top]
      BY <1>1, <1>3
    <3>. QED BY <1>1, <1>3, <2>2, <3>1, <3>2
  <2>. QED BY <2>1, <2>2
<1>6. ASSUME m = 0
      PROVE  \E n1, n2 \in names : n1 # n2 /\ d[n1] = d[n2] /\ \A n \in names : d[n] <= d[n1]
  <2>1. d[top] = next
    BY <1>2, <1>5, <1>6
  <2>2. names # {top}
    BY <1>1, <1>4, <1>5, <2>1
  <2>3. PICK z \in names \ {top} : next = d[z]
    BY <1>4, <2>2
  <2>. QED BY <1>3, <2>1, <2>3
<1>7. ASSUME NEW n1 \in names, NEW n2 \in names, n1 # n2, d[n1] = d[n2],
             \A n \in names : d[n] <= d[n1]
      PROVE  m = 0
  <2>1. d[n1] = d[top]
    BY <1>1, <1>3, <1>7
  <2>2. PICK z \in names : z # top /\ d[z] = d[top]
    <3>1. CASE n1 = top
      BY <1>7, <3>1
    <3>2. CASE n1 # top
      BY <2>1, <3>2
    <3>. QED BY <3>1, <3>2
  <2>3. d[z] <= next
    BY <1>4, <2>2
  <2>. QED BY <1>2, <1>5, <2>2, <2>3
<1>8. ASSUME m = Unit PROVE d[top] = Unit
  BY <1>1, <1>2, <1>5, <1>8
<1>9. ASSUME NEW n \in names, d[n] = Unit PROVE m = Unit
  <2>1. d[n] <= d[top]
    BY <1>3
  <2>2. d[top] = Unit
    BY <1>5, <1>9, <2>1, <1>1
  <2>. QED BY <1>1, <1>2, <1>5, <2>2
<1>10. m \in 0 .. Unit
  BY <1>1, <1>2, <1>5
<1>. QED BY <1>3, <1>6, <1>7, <1>8, <1>9, <1>10
---------------------------------------------------------------------------
\* The values of a fitting answer are in range, and its names are its question's.
LEMMA FittingValues ==
    ASSUME NEW q, AskedQuestion(q), NEW a, WireAnswer(a), NEW s, AnswerFits(q, a, s)
    PROVE  /\ AtMostOne(a.confidence) /\ a.confidence \subseteq 0 .. Unit
           /\ AtMostOne(a.noul) /\ AtMostOne(a.choice) /\ AtMostOne(a.score)
           /\ Lower(q.type) = "noul"   => a.noul \subseteq 0 .. Unit
           /\ Lower(q.type) = "choice" => a.choice \subseteq NamesOf(q)
           /\ Lower(q.type) = "score"  => a.score \subseteq 0 .. (Len(q.names) - 1) * Unit
<1>1. Numeric(a.noul) /\ Numeric(a.score) /\ Numeric(a.confidence) /\ AtMostOne(a.choice)
  BY DEF WireAnswer
<1>2. /\ AtMostOne(a.confidence) /\ AtMostOne(a.noul) /\ AtMostOne(a.score)
      /\ a.confidence \subseteq Int /\ a.noul \subseteq Int /\ a.score \subseteq Int
  BY <1>1 DEF Numeric
<1>3. Unit \in Nat /\ Len(q.names) \in Nat /\ (Len(q.names) - 1) * Unit \in Int
  BY NamesAreFinite, UnitAssumption
<1>4. a.confidence \subseteq 0 .. Unit
  <2>1. \A v \in a.confidence : InUnit(v)
    BY DEF AnswerFits, GoodConfidence
  <2>. QED BY <1>2, <1>3, <2>1 DEF InUnit
<1>5. ASSUME Lower(q.type) = "noul" PROVE a.noul \subseteq 0 .. Unit
  <2>1. \A v \in a.noul : InUnit(v)
    BY <1>5 DEF AnswerFits, NoulFits
  <2>. QED BY <1>2, <1>3, <2>1 DEF InUnit
<1>6. ASSUME Lower(q.type) = "choice" PROVE a.choice \subseteq NamesOf(q)
  BY <1>6 DEF AnswerFits, ChoiceFits
<1>7. ASSUME Lower(q.type) = "score" PROVE a.score \subseteq 0 .. (Len(q.names) - 1) * Unit
  <2>1. \A v \in a.score : 0 <= v /\ v <= (Len(q.names) - 1) * Unit
    BY <1>7 DEF AnswerFits, ScoreFits
  <2>2. \A v \in a.score : v \in Int
    BY <1>2
  <2>. DEFINE widest == (Len(q.names) - 1) * Unit
  <2>3. widest \in Int /\ \A v \in a.score : v \in Int /\ 0 <= v /\ v <= widest
    BY <1>3, <2>1, <2>2
  <2>. HIDE DEF widest
  <2>4. a.score \subseteq 0 .. widest
    BY <2>3
  <2>. QED BY <2>4 DEF widest
<1>. QED BY <1>1, <1>2, <1>4, <1>5, <1>6, <1>7

\* The margin of a probability of yes is a probability: 0 exactly at the tie, which
\* is a no, and the whole exactly at the ends.
LEMMA YesMarginReads ==
    ASSUME NEW p \in 0 .. Unit, NEW m, m = MarginFromProbabilityYes(p)
    PROVE  /\ m \in 0 .. Unit
           /\ m = 0 <=> 2 * p = Unit
           /\ m = 0 => ~BoolFromProbabilityYes(p)
           /\ m = Unit <=> p \in {0, Unit}
BY UnitAssumption DEF MarginFromProbabilityYes, BoolFromProbabilityYes
=============================================================================
