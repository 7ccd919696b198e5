------------------------------- MODULE Metrics -------------------------------
(***************************************************************************)
(* What an evaluation makes of the judgments it gets                       *)
(* (internal/eval/run.go, score; internal/eval/metrics.go).                *)
(*                                                                         *)
(* A ratio is [sum, of].  Squared errors are in units of 1/Unit^2 and      *)
(* absolute ones in units of 1/Unit.  Log loss is left to its guard, which *)
(* is Brier's: the two are computed or withheld together.                  *)
(***************************************************************************)
EXTENDS Datasets

\* math.Round, for a score that is not negative.
Rounded(s) == (2 * s + Unit) \div (2 * Unit)

\* The label a judgment amounts to. A score is the nearest level's.
Predicted(q, j) ==
    CASE Lower(q.type) = "noul"   -> BoolLabel(j.bool = {TRUE})
      [] Lower(q.type) = "choice" -> CHOOSE n \in j.choice : TRUE
      [] Lower(q.type) = "score"  -> q.names[1 + CHOOSE i \in {Rounded(s) : s \in j.score} : TRUE]

\* score: a case reduced to what the metrics need. P(yes) alone is a
\* distribution over both answers.
Scored(q, expected, j, latency) ==
    [expected     |-> expected,
     predicted    |-> Predicted(q, j),
     correct      |-> Predicted(q, j) = expected.label,
     distribution |-> IF Lower(q.type) = "noul"
                      THEN {[true |-> p, false |-> Unit - p] : p \in j.probabilityYes}
                      ELSE j.probabilities,
     score        |-> j.score,
     escalated    |-> j.escalate,
     latency      |-> latency]

---------------------------------------------------------------------------
Count(scored, P(_)) == Cardinality({i \in DOMAIN scored : P(scored[i])})

\* The sum of f over the cases for which P holds.
Sum(scored, P(_), f(_)) ==
    SumFunctionOnSet([i \in DOMAIN scored |-> IF P(scored[i]) THEN f(scored[i]) ELSE 0],
                     DOMAIN scored)

HasDistribution(c) == c.distribution # Nil

\* Brier, log loss and calibration are computed only when every scored case
\* has a distribution, so that they describe the cases accuracy describes.
AllDistributions(scored) == \A i \in DOMAIN scored : HasDistribution(scored[i])

BrierOfPrediction(c) ==
    LET d == CHOOSE dist \in c.distribution : TRUE
        diff(n) == d[n] - (IF n = c.predicted THEN Unit ELSE 0)
    IN  SumFunction([n \in DOMAIN d |-> diff(n) * diff(n)])

\* probabilisticScores: the squared error of one case against its one-hot truth.
CaseBrier(c) ==
    LET d == CHOOSE dist \in c.distribution : TRUE
        diff(n) == d[n] - (IF n = c.expected.label THEN Unit ELSE 0)
    IN  SumFunction([n \in DOMAIN d |-> diff(n) * diff(n)])

BucketUnclamped(p) == (10 * p) \div Unit

\* The calibration bin of a probability: ten of them, 1.0 in the last.
Bucket(p) == IF p = Unit THEN 9 ELSE (10 * p) \div Unit

\* calibration: per bin, the predictions whose probability fell there and how
\* many were right. A prediction the distribution does not mention is skipped,
\* and so is a bin nothing fell in.
Calibration(scored) ==
    LET placed(b) == {i \in DOMAIN scored : \E d \in scored[i].distribution :
                        scored[i].predicted \in DOMAIN d /\ Bucket(d[scored[i].predicted]) = b}
    IN  [b \in {k \in 0 .. 9 : placed(k) # {}} |->
           [count   |-> Cardinality(placed(b)),
            correct |-> Cardinality({i \in placed(b) : scored[i].correct})]]

RankRoundedDown(percent, n) == IF percent * n < 100 THEN 1 ELSE (percent * n) \div 100

\* Nearest rank, from 1.
NearestRank(percent, n) == (percent * n + 99) \div 100

\* percentile: the latency at that rank among the sorted latencies.
Percentile(scored, percent) ==
    LET seen == {scored[i].latency : i \in DOMAIN scored}
        atMost(v) == Count(scored, LAMBDA c : c.latency <= v)
    IN  CHOOSE v \in seen :
          /\ atMost(v) >= NearestRank(percent, Len(scored))
          /\ \A w \in seen : w < v => atMost(w) < NearestRank(percent, Len(scored))

AbsoluteError(c) ==
    LET s == CHOOSE v \in c.score : TRUE
        truth == c.expected.index * Unit
    IN  IF s > truth THEN s - truth ELSE truth - s

\* Nothing was scored: what is a pointer is nil, what is not is zero.
NoMetrics(total, errored) ==
    [cases |-> total, scored |-> 0, errored |-> errored,
     accuracy |-> Nil, accuracyWhy |-> "nothing scored", confusion |-> <<>>,
     brier |-> Nil, calibration |-> <<>>, distributionWhy |-> "nothing scored",
     escalationRate |-> [sum |-> 0, of |-> 1], mae |-> Nil, maeWhy |-> "nothing scored",
     latency |-> [count |-> 0, p50 |-> 0, p95 |-> 0, max |-> 0]]

\* computeMetrics
ComputeMetrics(scored, total, errored, scoreType) ==
    LET yes(c) == TRUE
        one(c) == 1
        rated(c) == c.score # Nil
        n == Len(scored)
        pairs == {<<scored[i].expected.label, scored[i].predicted>> : i \in DOMAIN scored}
    IN  IF n = 0 THEN NoMetrics(total, errored)
        ELSE [cases |-> total, scored |-> n, errored |-> errored,
              accuracy |-> {[sum |-> Count(scored, LAMBDA c : c.correct),
                             of  |-> n]},
              accuracyWhy |-> "",
              confusion |-> [p \in pairs |-> Count(scored, LAMBDA c :
                               p = <<c.expected.label, c.predicted>>)],
              brier |-> IF AllDistributions(scored)
                        THEN {[sum |-> Sum(scored, yes, CaseBrier), of |-> n]} ELSE Nil,
              calibration |-> IF AllDistributions(scored) THEN Calibration(scored) ELSE <<>>,
              distributionWhy |-> IF AllDistributions(scored) THEN "" ELSE "missing",
              escalationRate |-> [sum |-> Count(scored, LAMBDA c : c.escalated), of |-> n],
              mae |-> IF scoreType /\ Count(scored, rated) > 0
                      THEN {[sum |-> Sum(scored, rated, AbsoluteError),
                             of  |-> Count(scored, rated)]} ELSE Nil,
              maeWhy |-> IF ~scoreType THEN "not a score"
                         ELSE IF Count(scored, rated) = 0 THEN "no score" ELSE "",
              latency |-> [count |-> n, p50 |-> Percentile(scored, 50),
                           p95 |-> Percentile(scored, 95), max |-> Percentile(scored, 100)]]
=============================================================================
