--------------------------- MODULE EvaluationProofs ---------------------------
(***************************************************************************)
(* Proofs about the evaluation harness: for every dataset, rule, gate and  *)
(* answer, how a run accounts for its cases, what its metrics say of them  *)
(* and what its gate lets through.                                         *)
(***************************************************************************)
EXTENDS Evaluation, JudgmentProofs

\* The cases whose prediction was right.
RightOnes(s) == Cardinality({i \in DOMAIN s : s[i].correct})

\* A list of whatever members.
IsList(s) == \E S : s \in Seq(S)

LEMMA ListGrows ==
    ASSUME NEW s, IsList(s), NEW e
    PROVE  /\ IsList(Append(s, e)) /\ Len(s) \in Nat /\ Len(Append(s, e)) = Len(s) + 1
           /\ DOMAIN s = 1 .. Len(s) /\ DOMAIN Append(s, e) = 1 .. Len(s) + 1
           /\ \A i \in 1 .. Len(s) : Append(s, e)[i] = s[i]
           /\ Append(s, e)[Len(s) + 1] = e
<1>1. PICK S : s \in Seq(S)
  BY DEF IsList
<1>2. s \in Seq(S \cup {e}) /\ e \in S \cup {e}
  BY <1>1
<1>3. Append(s, e) \in Seq(S \cup {e})
  BY <1>2
<1>4. /\ Len(s) \in Nat /\ Len(Append(s, e)) = Len(s) + 1
      /\ DOMAIN s = 1 .. Len(s) /\ DOMAIN Append(s, e) = 1 .. Len(s) + 1
      /\ \A i \in 1 .. Len(s) : Append(s, e)[i] = s[i]
      /\ Append(s, e)[Len(s) + 1] = e
  BY <1>1, <1>2
<1>. QED BY <1>3, <1>4 DEF IsList

\* The right ones are counted.
LEMMA RightOnesNumber ==
    ASSUME NEW s, IsList(s)
    PROVE  RightOnes(s) \in Nat /\ Len(s) \in Nat
<1>1. PICK S : s \in Seq(S)
  BY DEF IsList
<1>2. Len(s) \in Nat /\ DOMAIN s = 1 .. Len(s)
  BY <1>1
<1>3. IsFiniteSet(1 .. Len(s))
  BY <1>2, FS_Interval
<1>4. IsFiniteSet({i \in DOMAIN s : s[i].correct})
  BY <1>2, <1>3, FS_Subset
<1>. QED BY <1>2, <1>4, FS_CardinalityType DEF RightOnes

---------------------------------------------------------------------------
\* A quotient is less than any number whose product with the divisor is more than
\* what is divided.
LEMMA QuotientBounded ==
    ASSUME NEW a \in Nat, NEW b \in Nat \ {0}, NEW m \in Nat, a < b * (m + 1)
    PROVE  a \div b \in 0 .. m
<1>. DEFINE r == a \div b
<1>1. r \in Nat /\ b * r <= a
  OBVIOUS
<1>. HIDE DEF r
<1>2. CASE r <= m
  BY <1>1, <1>2 DEF r
<1>3. CASE r > m
  <2>1. PICK t \in Nat : r = (m + 1) + t
    <3>1. r - (m + 1) \in Nat /\ r = (m + 1) + (r - (m + 1))
      BY <1>1, <1>3
    <3>. QED BY <3>1
  <2>2. b * r = b * (m + 1) + b * t /\ b * t \in Nat /\ b * (m + 1) \in Nat
    BY <2>1
  <2>. QED BY <1>1, <2>2
<1>. QED BY <1>1, <1>2, <1>3

\* A score in range is rounded to a level.
LEMMA RoundedInRange ==
    ASSUME NEW m \in Nat, NEW s \in 0 .. m * Unit
    PROVE  Rounded(s) \in 0 .. m
<1>1. Unit \in Nat \ {0} /\ 2 * Unit \in Nat \ {0} /\ m * Unit \in Nat /\ s \in Nat /\ s <= m * Unit
  BY UnitAssumption
<1>. DEFINE wide == m * Unit
            a == 2 * s + Unit
            b == 2 * Unit
<1>2. b * (m + 1) = 2 * wide + 2 * Unit
  BY <1>1
<1>3. a \in Nat /\ b \in Nat \ {0} /\ a < b * (m + 1)
  <2>. HIDE DEF wide
  <2>1. wide \in Nat /\ s <= wide
    BY <1>1 DEF wide
  <2>. QED BY <1>1, <1>2, <2>1
<1>. HIDE DEF a, b
<1>4. a \div b \in 0 .. m
  BY <1>3, QuotientBounded
<1>. QED BY <1>4 DEF Rounded, a, b

\* A probability falls into one of the ten bins.
LEMMA BucketInRange ==
    ASSUME NEW p \in 0 .. Unit
    PROVE  Bucket(p) \in 0 .. 9
<1>1. Unit \in Nat \ {0} /\ p \in Nat /\ p <= Unit
  BY UnitAssumption
<1>2. CASE p = Unit
  BY <1>2 DEF Bucket
<1>3. CASE p # Unit
  <2>1. 10 * p \in Nat /\ 10 * p < Unit * (9 + 1) /\ 9 \in Nat
    BY <1>1, <1>3
  <2>2. (10 * p) \div Unit \in 0 .. 9
    BY <1>1, <2>1, QuotientBounded
  <2>. QED BY <1>3, <2>2 DEF Bucket
<1>. QED BY <1>2, <1>3

\* The rank of a percentage of n calls: one of them, at least that percentage, all
\* of them for the whole, and no lower for a higher percentage.
LEMMA RankFits ==
    ASSUME NEW n \in Nat, n > 0
    PROVE  /\ NearestRank(50, n) \in Nat /\ NearestRank(50, n) <= NearestRank(95, n)
           /\ NearestRank(95, n) \in Nat /\ NearestRank(95, n) <= n
           /\ 2 * NearestRank(50, n) >= n /\ 100 * NearestRank(95, n) >= 95 * n
           /\ NearestRank(100, n) = n
BY DEF NearestRank

\* What a quotient is, for any divisor.
LEMMA QuotientIs ==
    ASSUME NEW a \in Nat, NEW b \in Nat \ {0}
    PROVE  a \div b \in Nat /\ b * (a \div b) <= a /\ a < b * (a \div b) + b
OBVIOUS

\* Ahead of a level, the next one is a whole unit further, or more.
LEMMA LevelsApart ==
    ASSUME NEW u \in Nat, NEW j \in Nat, NEW k \in Nat, j < k
    PROVE  k * u >= j * u + u
<1>1. PICK t \in Nat : k = j + 1 + t
  <2>1. k - j - 1 \in Nat /\ k = j + 1 + (k - j - 1)
    OBVIOUS
  <2>. QED BY <2>1
<1>2. k * u = j * u + u + t * u /\ t * u \in Nat /\ j * u \in Nat
  BY <1>1
<1>. QED BY <1>2

\* The level that a score is rounded to is the nearest there is, and of two equally
\* near the higher (score, math.Round).
THEOREM RoundsToNearest ==
    ASSUME NEW s \in Nat, NEW k \in Nat, k # Rounded(s)
    PROVE  LET off(l) == IF s >= l * Unit THEN s - l * Unit ELSE l * Unit - s
           IN  off(Rounded(s)) < off(k) \/ (off(Rounded(s)) = off(k) /\ k < Rounded(s))
<1>. DEFINE r == Rounded(s)
            at == r * Unit
            other == k * Unit
<1>1. Unit \in Nat \ {0} /\ 2 * Unit \in Nat \ {0} /\ 2 * s + Unit \in Nat
  BY UnitAssumption
<1>2. r \in Nat /\ (2 * Unit) * r <= 2 * s + Unit /\ 2 * s + Unit < (2 * Unit) * r + 2 * Unit
  BY <1>1, QuotientIs DEF Rounded
<1>3. at \in Nat /\ other \in Nat /\ (2 * Unit) * r = 2 * at
  <2>. HIDE DEF r
  <2>. QED BY <1>1, <1>2
<1>4. (k > r => other >= at + Unit) /\ (k < r => at >= other + Unit)
  <2>. HIDE DEF r
  <2>. QED BY <1>1, <1>2, LevelsApart
<1>5. k < r \/ k > r
  BY <1>2
<1>. HIDE DEF at, other
<1>6. \/ (IF s >= at THEN s - at ELSE at - s) < (IF s >= other THEN s - other ELSE other - s)
      \/ /\ (IF s >= at THEN s - at ELSE at - s) = (IF s >= other THEN s - other ELSE other - s)
         /\ k < r
  <2>. HIDE DEF r
  <2>. QED BY <1>1, <1>2, <1>3, <1>4, <1>5
<1>. QED BY <1>6 DEF at, other

\* A probability lies within the bounds of its calibration bin: b tenths are its
\* lower bound, and only 1 lies on the upper one (calibration).
THEOREM BinHoldsProbability ==
    ASSUME NEW p \in 0 .. Unit
    PROVE  /\ Bucket(p) \in 0 .. 9
           /\ Unit * Bucket(p) <= 10 * p
           /\ 10 * p < Unit * Bucket(p) + Unit \/ (p = Unit /\ Bucket(p) = 9)
<1>1. Unit \in Nat \ {0} /\ 10 * p \in Nat
  BY UnitAssumption
<1>2. CASE p = Unit
  BY <1>1, <1>2 DEF Bucket
<1>3. CASE p # Unit
  <2>. DEFINE tenths == 10 * p
  <2>1. Bucket(p) = tenths \div Unit
    BY <1>3 DEF Bucket
  <2>. HIDE DEF tenths
  <2>2. Unit * Bucket(p) <= tenths /\ tenths < Unit * Bucket(p) + Unit
    BY <1>1, <2>1, QuotientIs DEF tenths
  <2>3. Bucket(p) \in 0 .. 9
    BY BucketInRange
  <2>. QED BY <2>2, <2>3, Zenon DEF tenths
<1>. QED BY <1>2, <1>3, BucketInRange

\* The nearest rank is the least that covers its percentage of the calls (percentile).
THEOREM RankIsLeast ==
    ASSUME NEW percent \in Nat, NEW n \in Nat
    PROVE  /\ NearestRank(percent, n) \in Nat
           /\ 100 * NearestRank(percent, n) >= percent * n
           /\ \A k \in Nat : 100 * k >= percent * n => k >= NearestRank(percent, n)
<1>. DEFINE share == percent * n
<1>1. share \in Nat
  OBVIOUS
<1>. HIDE DEF share
<1>2. LET q == (share + 99) \div 100
      IN  q \in Nat /\ 100 * q >= share /\ \A k \in Nat : 100 * k >= share => k >= q
  BY <1>1
<1>. QED BY <1>2 DEF NearestRank, share

---------------------------------------------------------------------------
\* The labels a question can be answered with.
Labels(q) == IF Lower(q.type) = "noul" THEN {"true", "false"} ELSE NamesOf(q)

\* A distribution of a scored case speaks of what was expected and predicted.
Covers(d, c) == IsDistribution(d, DOMAIN d) /\ {c.expected.label, c.predicted} \subseteq DOMAIN d

\* What the metrics need of a scored case.
WellScored(c) ==
    /\ c.correct = (c.predicted = c.expected.label)
    /\ c.latency \in Nat
    /\ AtMostOne(c.distribution) /\ \A d \in c.distribution : Covers(d, c)

\* What one question becomes on its way to the provider.
LoweredTo(q, p) == p.type = Lower(q.type) /\ p.names = q.names

LEMMA LoweredAsked ==
    ASSUME NEW q, AskedQuestion(q), NEW p, LoweredTo(q, p)
    PROVE  /\ AskedQuestion(p) /\ NamesOf(p) = NamesOf(q) /\ p.type \in DecisionTypes
           /\ Lower(p.type) = Lower(q.type)
<1>1. Lower(q.type) \in DecisionTypes /\ Lower(Lower(q.type)) = Lower(q.type)
  BY DEF AskedQuestion, Lower, DecisionTypes
<1>2. NamesOf(p) = NamesOf(q)
  BY DEF NamesOf, LoweredTo
<1>. QED BY <1>1, <1>2 DEF AskedQuestion, LoweredTo

\* What is expected of a question is one of its labels.
LEMMA ExpectedIsLabel ==
    ASSUME NEW q, q.type \in DecisionTypes, NEW raw, NEW e \in NormalizeExpected(q, raw)
    PROVE  e.label \in Labels(q)
<1>1. CASE Lower(q.type) = "noul"
  <2>1. e.label \in DOMAIN Spellings
    BY <1>1 DEF NormalizeExpected
  <2>. QED BY <1>1, <2>1 DEF Spellings, Labels
<1>2. CASE Lower(q.type) = "choice"
  BY <1>2 DEF NormalizeExpected, Labels
<1>3. CASE Lower(q.type) = "score"
  BY <1>3 DEF NormalizeExpected, Labels, NamesOf
<1>4. Lower(q.type) \in {"noul", "choice", "score"}
  BY DEF Lower, DecisionTypes
<1>. QED BY <1>1, <1>2, <1>3, <1>4

\* P(yes) alone is a distribution over both answers.
LEMMA YesIsDistribution ==
    ASSUME NEW p \in 0 .. Unit, NEW d, d = [true |-> p, false |-> Unit - p]
    PROVE  IsDistribution(d, {"true", "false"}) /\ DOMAIN d = {"true", "false"}
<1>. DEFINE both == {"true", "false"}
<1>1. DOMAIN d = both /\ d["true"] = p /\ d["false"] = Unit - p
  OBVIOUS
<1>2. Unit \in Nat /\ Unit - p \in 0 .. Unit /\ p \in Int /\ Unit - p \in Int
  BY UnitAssumption
<1>3. d \in [both -> 0 .. Unit]
  BY <1>2
<1>4. IsFiniteSet({"true"}) /\ IsFiniteSet({"false"}) /\ both = {"true"} \cup {"false"}
  BY FS_Singleton
<1>5. IsFiniteSet(both)
  BY <1>4, FS_Union
<1>6. SumFunctionOnSet(d, both) = d["true"] + (d["false"] + 0)
  <2>1. \A x \in both : d[x] \in Int
    BY <1>1, <1>2
  <2>2. SumFunctionOnSet(d, both) = d["true"] + SumFunctionOnSet(d, both \ {"true"})
    BY <1>5, <2>1, SumTakesOut
  <2>3. both \ {"true"} = {"false"} /\ {"false"} \ {"false"} = {}
    OBVIOUS
  <2>4. d["false"] \in Int
    BY <1>1, <1>2
  <2>5. SumFunctionOnSet(d, {"false"}) = d["false"] + SumFunctionOnSet(d, {"false"} \ {"false"})
    BY <1>4, <2>4, SumTakesOut
  <2>6. SumFunctionOnSet(d, {}) = 0
    BY SumOfNone
  <2>. QED BY <2>2, <2>3, <2>5, <2>6
<1>7. SumFunctionOnSet(d, both) = Unit
  BY <1>1, <1>2, <1>6
<1>. QED BY <1>1, <1>3, <1>5, <1>7 DEF IsDistribution

\* The one value a pointer holds.
LEMMA HeldValue ==
    ASSUME NEW p, p # {}
    PROVE  (CHOOSE v \in p : TRUE) \in p
OBVIOUS

\* A case that was answered is scored well, with labels of its question.
LEMMA ScoredWell ==
    ASSUME NEW q, AskedQuestion(q), NEW p, LoweredTo(q, p),
           NEW a, WireAnswer(a), NEW s, AnswerFits(p, a, s),
           NEW by, NEW j, Follows(j, Judged(p, a), by, q.type),
           NEW e, e.label \in Labels(q), NEW latency \in Nat
    PROVE  LET c == Scored(q, e, j, latency)
           IN  WellScored(c) /\ {c.expected.label, c.predicted} \subseteq Labels(q)
<1>. DEFINE c == Scored(q, e, j, latency)
            k == Judged(p, a)
<1>1. /\ AskedQuestion(p) /\ NamesOf(p) = NamesOf(q) /\ p.type \in DecisionTypes
      /\ Lower(p.type) = Lower(q.type) /\ p.names = q.names
  BY LoweredAsked DEF LoweredTo
<1>2. /\ j.bool = k.bool /\ j.choice = k.choice /\ j.score = k.score
      /\ j.probabilityYes = k.probabilityYes /\ j.probabilities = k.probabilities
  BY DEF Follows
<1>3. /\ c.expected = e /\ c.predicted = Predicted(q, j)
      /\ c.correct = (Predicted(q, j) = e.label) /\ c.latency = latency
      /\ c.distribution = IF Lower(q.type) = "noul"
                          THEN {[true |-> y, false |-> Unit - y] : y \in j.probabilityYes}
                          ELSE j.probabilities
  BY DEF Scored
<1>. HIDE DEF c
<1>4. ASSUME Lower(q.type) = "noul"
      PROVE  WellScored(c) /\ {c.expected.label, c.predicted} \subseteq Labels(q)
  <2>1. k.probabilityYes = a.noul /\ AtMostOne(a.noul) /\ a.noul \subseteq 0 .. Unit
    BY <1>1, <1>4, JudgedSays, FittingValues DEF Says
  <2>2. Predicted(q, j) \in {"true", "false"}
    BY <1>4 DEF Predicted, BoolLabel
  <2>3. AtMostOne(c.distribution)
    BY <1>2, <1>3, <1>4, <2>1 DEF AtMostOne
  <2>4. ASSUME NEW d \in c.distribution PROVE Covers(d, c)
    <3>1. PICK y \in 0 .. Unit : d = [true |-> y, false |-> Unit - y]
      BY <1>2, <1>3, <1>4, <2>1
    <3>2. IsDistribution(d, {"true", "false"}) /\ DOMAIN d = {"true", "false"}
      BY <3>1, YesIsDistribution
    <3>. QED BY <1>3, <1>4, <2>2, <3>2 DEF Covers, Labels
  <2>. QED BY <1>3, <1>4, <2>2, <2>3, <2>4 DEF WellScored, Labels
<1>5. ASSUME Lower(q.type) \in {"choice", "score"}, Predicted(q, j) \in NamesOf(q)
      PROVE  WellScored(c) /\ {c.expected.label, c.predicted} \subseteq Labels(q)
  <2>1. c.distribution = Spread(p, a)
    BY <1>1, <1>2, <1>3, <1>5, JudgedSays DEF Says
  <2>2. AtMostOne(c.distribution)
    BY <2>1 DEF Spread, AtMostOne, Nil
  <2>3. ASSUME NEW d \in c.distribution PROVE Covers(d, c)
    <3>1. a.form # "absent" /\ d = Distribution(p, a)
      BY <2>1 DEF Spread, Nil
    <3>2. IsDistribution(d, NamesOf(p))
      BY <1>1, <1>5, <3>1, DistributionFits
    <3>3. IsDistribution(d, NamesOf(q)) /\ DOMAIN d = NamesOf(q)
      BY <1>1, <3>2, SharesOfOne
    <3>. QED BY <1>3, <1>5, <3>3 DEF Covers, Labels
  <2>. QED BY <1>3, <1>5, <2>2, <2>3 DEF WellScored, Labels
<1>6. CASE Lower(q.type) = "choice"
  <2>1. j.choice = a.choice /\ a.choice \subseteq NamesOf(q) /\ a.choice # {}
    BY <1>1, <1>2, <1>6, JudgedSays, FittingValues, FittingAnswer DEF Says, Nil
  <2>2. Predicted(q, j) \in NamesOf(q)
    BY <1>6, <2>1, HeldValue DEF Predicted
  <2>. QED BY <1>5, <1>6, <2>2 DEF c
<1>7. CASE Lower(q.type) = "score"
  <2>. DEFINE top == Len(q.names) - 1
              levels == {Rounded(v) : v \in a.score}
              i == CHOOSE v \in levels : TRUE
  <2>1. /\ j.score = a.score /\ a.score # {}
        /\ a.score \subseteq 0 .. top * Unit
    BY <1>1, <1>2, <1>7, JudgedSays, FittingValues, FittingAnswer, SMTT(60) DEF Says, Nil
  <2>2. Len(q.names) \in Nat /\ DOMAIN q.names = 1 .. Len(q.names)
    BY NamesAreFinite
  <2>3. top \in Nat
    <3>1. PICK v \in a.score : v \in 0 .. top * Unit
      BY <2>1
    <3>2. v \in Int /\ 0 <= v /\ v <= top * Unit /\ top \in Int /\ Unit \in Nat \ {0}
      BY <2>2, <3>1, UnitAssumption
    <3>3. ASSUME NEW t \in Int, NEW u \in Nat \ {0}, 0 <= t * u PROVE 0 <= t
      BY <3>3
    <3>. HIDE DEF top
    <3>4. 0 <= top * Unit
      BY <3>2
    <3>. QED BY <3>2, <3>3, <3>4
  <2>4. levels \subseteq 0 .. top /\ levels # {}
    <3>. HIDE DEF top
    <3>. QED BY <2>1, <2>3, RoundedInRange
  <2>5. i \in 0 .. top
    <3>. HIDE DEF levels, top
    <3>. QED BY <2>4, HeldValue
  <2>6. Predicted(q, j) = q.names[1 + i]
    BY <1>7, <2>1 DEF Predicted
  <2>7. 1 + i \in DOMAIN q.names
    <3>. HIDE DEF i
    <3>. QED BY <2>2, <2>5
  <2>8. Predicted(q, j) \in NamesOf(q)
    <3>. HIDE DEF i
    <3>. QED BY <2>6, <2>7 DEF NamesOf
  <2>. QED BY <1>5, <1>7, <2>8 DEF c
<1>8. Lower(q.type) \in {"noul", "choice", "score"}
  BY DEF AskedQuestion, Lower, DecisionTypes
<1>. QED BY <1>4, <1>5, <1>6, <1>7, <1>8 DEF c

---------------------------------------------------------------------------
\* A list of scored cases.
WellList(s) == IsList(s) /\ \A i \in DOMAIN s : WellScored(s[i])

LEMMA ListIsFinite ==
    ASSUME NEW s, IsList(s)
    PROVE  /\ Len(s) \in Nat /\ DOMAIN s = 1 .. Len(s)
           /\ IsFiniteSet(DOMAIN s) /\ Cardinality(DOMAIN s) = Len(s)
<1>1. PICK S : s \in Seq(S)
  BY DEF IsList
<1>2. Len(s) \in Nat /\ DOMAIN s = 1 .. Len(s)
  BY <1>1
<1>. QED BY <1>2, UptoIsFinite

\* Of a list, those that are counted are some of it.
LEMMA CountFits ==
    ASSUME NEW s, IsList(s), NEW B, B \subseteq DOMAIN s
    PROVE  IsFiniteSet(B) /\ Cardinality(B) \in Nat /\ Cardinality(B) <= Len(s)
<1>1. IsFiniteSet(DOMAIN s) /\ Cardinality(DOMAIN s) = Len(s)
  BY ListIsFinite
<1>2. IsFiniteSet(B) /\ Cardinality(B) <= Cardinality(DOMAIN s)
  BY <1>1, FS_Subset
<1>. QED BY <1>1, <1>2, FS_CardinalityType

\* The calls that took no longer than v.
NoLonger(s, v) == Cardinality({i \in DOMAIN s : s[i].latency <= v})

Seen(s) == {s[i].latency : i \in DOMAIN s}

\* The latencies of a list have a greatest, and everything is within it.
LEMMA LongestSeen ==
    ASSUME NEW s, WellList(s), Len(s) # 0
    PROVE  /\ Seen(s) \subseteq Nat
           /\ \E v \in Seen(s) : NoLonger(s, v) = Len(s)
           /\ \A v : NoLonger(s, v) \in Nat /\ NoLonger(s, v) <= Len(s)
<1>. DEFINE D == DOMAIN s
            f == [i \in D |-> s[i].latency]
            N == SumFunctionOnSet(f, D)
<1>1. IsFiniteSet(D) /\ D = 1 .. Len(s) /\ Cardinality(D) = Len(s) /\ Len(s) \in Nat
  BY ListIsFinite DEF WellList
<1>2. /\ \A i \in D : f[i] = s[i].latency /\ f[i] \in Nat
      /\ Seen(s) \subseteq Nat /\ Seen(s) = {f[i] : i \in D}
  BY DEF WellList, WellScored, Seen
<1>. HIDE DEF f
<1>3. N \in Nat /\ \A i \in D : f[i] <= N
  BY <1>1, <1>2, SumIsNat, SumHoldsMembers
<1>. HIDE DEF N
<1>4. Seen(s) \subseteq 0 .. N /\ Seen(s) # {}
  <2>1. 1 \in D
    BY <1>1
  <2>2. Seen(s) # {}
    BY <1>2, <2>1
  <2>3. Seen(s) \subseteq 0 .. N
    BY <1>2, <1>3
  <2>. QED BY <2>2, <2>3
<1>5. PICK v \in Seen(s) : \A w \in Seen(s) : w <= v
  BY <1>3, <1>4, GreatestNumber
<1>6. {i \in D : s[i].latency <= v} = D
  BY <1>5 DEF Seen
<1>7. NoLonger(s, v) = Len(s)
  BY <1>1, <1>6 DEF NoLonger
<1>8. ASSUME NEW w PROVE NoLonger(s, w) \in Nat /\ NoLonger(s, w) <= Len(s)
  <2>. DEFINE B == {i \in D : s[i].latency <= w}
  <2>1. B \subseteq DOMAIN s
    OBVIOUS
  <2>. HIDE DEF B
  <2>2. Cardinality(B) \in Nat /\ Cardinality(B) <= Len(s)
    BY <2>1, CountFits DEF WellList
  <2>. QED BY <2>2 DEF B, NoLonger
<1>. QED BY <1>2, <1>7, <1>8

\* The least latency seen that enough of the calls are within.
IsPercentile(s, v, rank) ==
    /\ v \in Seen(s) /\ v \in Nat /\ NoLonger(s, v) >= rank
    /\ \A w \in Seen(s) : w < v => NoLonger(s, w) < rank

\* There is one, and a percentile is it.
LEMMA PercentileFits ==
    ASSUME NEW s, WellList(s), Len(s) # 0, NEW percent,
           NEW rank \in Nat, rank = NearestRank(percent, Len(s)), rank <= Len(s),
           NEW v, v = Percentile(s, percent)
    PROVE  IsPercentile(s, v, rank)
<1>. DEFINE R == {w \in Seen(s) : NoLonger(s, w) >= rank}
            Good(x) == /\ NoLonger(s, x) >= rank
                       /\ \A w \in Seen(s) : w < x => NoLonger(s, w) < rank
<1>1. /\ Seen(s) \subseteq Nat /\ Len(s) \in Nat
      /\ \A x : NoLonger(s, x) \in Nat /\ NoLonger(s, x) <= Len(s)
  BY LongestSeen, ListIsFinite DEF WellList
<1>2. R # {} /\ R \subseteq Nat
  <2>1. PICK x \in Seen(s) : NoLonger(s, x) = Len(s)
    BY LongestSeen
  <2>2. NoLonger(s, x) >= rank
    BY <1>1, <2>1
  <2>. QED BY <1>1, <2>1, <2>2
<1>3. PICK least \in R : \A w \in R : least <= w
  <2>. HIDE DEF R
  <2>. QED BY <1>2, LeastNumber
<1>4. least \in Seen(s) /\ Good(least)
  <2>1. ASSUME NEW w \in Seen(s), w < least PROVE NoLonger(s, w) < rank
    <3>1. w \in Nat /\ least \in Nat /\ NoLonger(s, w) \in Nat
      BY <1>1, <1>2
    <3>2. w \notin R
      BY <1>3, <2>1, <3>1
    <3>. QED BY <2>1, <3>1, <3>2
  <2>. QED BY <2>1
<1>5. v = CHOOSE x \in Seen(s) : Good(x)
  BY DEF Percentile, Count, NoLonger, Seen
<1>6. v \in Seen(s) /\ Good(v)
  <2>. HIDE DEF Good
  <2>. QED BY <1>4, <1>5
<1>. QED BY <1>1, <1>6 DEF IsPercentile

\* The three percentiles of a report.
LEMMA PercentilesFit ==
    ASSUME NEW s, WellList(s), Len(s) # 0,
           NEW l, l.count = Len(s), l.p50 = Percentile(s, 50), l.p95 = Percentile(s, 95),
           l.max = Percentile(s, 100)
    PROVE  /\ {l.p50, l.p95, l.max} \subseteq Seen(s)
           /\ 2 * NoLonger(s, l.p50) >= l.count /\ 100 * NoLonger(s, l.p95) >= 95 * l.count
           /\ \A v \in Seen(s) : /\ v < l.p50 => 2 * NoLonger(s, v) < l.count
                                 /\ v < l.p95 => 100 * NoLonger(s, v) < 95 * l.count
           /\ l.p50 <= l.p95 /\ l.p95 <= l.max /\ NoLonger(s, l.max) = l.count
<1>. DEFINE n == Len(s)
            r50 == NearestRank(50, n)
            r95 == NearestRank(95, n)
            r100 == NearestRank(100, n)
<1>1. n \in Nat /\ n > 0
  BY ListIsFinite DEF WellList
<1>2. /\ r50 \in Nat /\ r50 <= r95 /\ r95 \in Nat /\ r95 <= n /\ r50 <= n
      /\ 2 * r50 >= n /\ 100 * r95 >= 95 * n /\ r100 = n
  <2>. HIDE DEF n
  <2>1. /\ r50 \in Nat /\ r50 <= r95 /\ r95 \in Nat /\ r95 <= n
        /\ 2 * r50 >= n /\ 100 * r95 >= 95 * n /\ r100 = n
    BY <1>1, RankFits, ZenonT(60)
  <2>. HIDE DEF r50, r95, r100
  <2>. QED BY <1>1, <2>1
<1>0. \A k \in Nat : (k < r50 => 2 * k < n) /\ (k < r95 => 100 * k < 95 * n)
  <2>. HIDE DEF n
  <2>. TAKE k \in Nat
  <2>1. 100 * k >= 50 * n => k >= r50
    BY <1>1, RankIsLeast
  <2>2. 100 * k >= 95 * n => k >= r95
    BY <1>1, RankIsLeast
  <2>3. r50 \in Nat /\ r95 \in Nat
    BY <1>2
  <2>. HIDE DEF r50, r95, r100
  <2>. QED BY <1>1, <2>1, <2>2, <2>3
<1>. HIDE DEF r50, r95, r100
<1>3. /\ l.p50 \in Seen(s) /\ l.p50 \in Nat /\ NoLonger(s, l.p50) >= r50
      /\ \A w \in Seen(s) : w < l.p50 => NoLonger(s, w) < r50
  <2>1. r50 \in Nat /\ r50 <= Len(s) /\ r50 = NearestRank(50, Len(s))
    BY <1>1, <1>2 DEF r50, n
  <2>2. IsPercentile(s, l.p50, r50)
    BY ONLY <2>1, WellList(s), Len(s) # 0, l.p50 = Percentile(s, 50), PercentileFits
  <2>. QED BY <2>2, Zenon DEF IsPercentile
<1>4. /\ l.p95 \in Seen(s) /\ l.p95 \in Nat /\ NoLonger(s, l.p95) >= r95
      /\ \A w \in Seen(s) : w < l.p95 => NoLonger(s, w) < r95
  <2>1. r95 \in Nat /\ r95 <= Len(s) /\ r95 = NearestRank(95, Len(s))
    BY <1>1, <1>2 DEF r95, n
  <2>2. IsPercentile(s, l.p95, r95)
    BY ONLY <2>1, WellList(s), Len(s) # 0, l.p95 = Percentile(s, 95), PercentileFits
  <2>. QED BY <2>2, Zenon DEF IsPercentile
<1>5. /\ l.max \in Seen(s) /\ l.max \in Nat /\ NoLonger(s, l.max) >= r100
  <2>1. r100 \in Nat /\ r100 <= Len(s) /\ r100 = NearestRank(100, Len(s))
    BY <1>1, <1>2 DEF r100, n
  <2>2. IsPercentile(s, l.max, r100)
    BY ONLY <2>1, WellList(s), Len(s) # 0, l.max = Percentile(s, 100), PercentileFits
  <2>. QED BY <2>2, Zenon DEF IsPercentile
<1>6. \A w : NoLonger(s, w) \in Nat /\ NoLonger(s, w) <= n
  BY LongestSeen
<1>. HIDE DEF n
<1>7. 2 * NoLonger(s, l.p50) >= n /\ 100 * NoLonger(s, l.p95) >= 95 * n
  BY <1>1, <1>2, <1>3, <1>4, <1>6
<1>8. l.p50 <= l.p95
  <2>1. ~(NoLonger(s, l.p95) < r50)
    BY <1>2, <1>4, <1>6
  <2>2. ~(l.p95 < l.p50)
    BY <1>3, <1>4, <2>1
  <2>. QED BY <1>3, <1>4, <2>2
<1>9. l.p95 <= l.max
  <2>1. ~(NoLonger(s, l.max) < r95)
    BY <1>1, <1>2, <1>5, <1>6
  <2>2. ~(l.max < l.p95)
    BY <1>4, <1>5, <2>1
  <2>. QED BY <1>4, <1>5, <2>2
<1>10. NoLonger(s, l.max) = n
  BY <1>1, <1>2, <1>5, <1>6
<1>11. \A v \in Seen(s) : /\ v < l.p50 => 2 * NoLonger(s, v) < n
                          /\ v < l.p95 => 100 * NoLonger(s, v) < 95 * n
  <2>. TAKE v \in Seen(s)
  <2>1. NoLonger(s, v) \in Nat
    BY <1>6, Zenon
  <2>2. (v < l.p50 => NoLonger(s, v) < r50) /\ (v < l.p95 => NoLonger(s, v) < r95)
    BY <1>3, <1>4, Zenon
  <2>. QED BY ONLY <1>0, <2>1, <2>2, Zenon
<1>. QED BY <1>3, <1>4, <1>5, <1>7, <1>8, <1>9, <1>10, <1>11 DEF n

---------------------------------------------------------------------------
\* The labels expected and predicted together, and the cases of each pair.
Pairs(s) == {<<s[i].expected.label, s[i].predicted>> : i \in DOMAIN s}

Confusion(s) ==
    [p \in Pairs(s) |-> Cardinality({i \in DOMAIN s :
                          p = <<s[i].expected.label, s[i].predicted>>})]

\* The confusion counts are of every case once, and those of a label predicted as
\* itself are of the cases that were right.
LEMMA ConfusionFits ==
    ASSUME NEW s, WellList(s), NEW f, f = Confusion(s)
    PROVE  /\ SumFunction(f) = Len(s)
           /\ SumFunction([p \in {q \in DOMAIN f : q[1] = q[2]} |-> f[p]]) = RightOnes(s)
<1>. DEFINE D == DOMAIN s
            pairs == Pairs(s)
            k == [i \in D |-> <<s[i].expected.label, s[i].predicted>>]
            diagonal == {q \in DOMAIN f : q[1] = q[2]}
            g == [p \in diagonal |-> f[p]]
<1>0. f = [p \in pairs |-> Cardinality({i \in DOMAIN s :
                              p = <<s[i].expected.label, s[i].predicted>>})]
  BY DEF Confusion
<1>1. IsFiniteSet(D) /\ Cardinality(D) = Len(s)
  BY ListIsFinite DEF WellList
<1>2. \A i \in D : /\ k[i] = <<s[i].expected.label, s[i].predicted>> /\ k[i] \in pairs
                   /\ k[i][1] = s[i].expected.label /\ k[i][2] = s[i].predicted
  BY DEF Pairs
<1>3. IsFiniteSet(pairs)
  <2>1. k \in Surjection(D, pairs)
    BY DEF Surjection, Pairs
  <2>. HIDE DEF k, D, pairs
  <2>. QED BY <1>1, <2>1, FS_Surjection
<1>4. \A p \in pairs : f[p] = Cardinality(Keyed(D, k, {p}))
  <2>. SUFFICES ASSUME NEW p \in pairs PROVE f[p] = Cardinality(Keyed(D, k, {p}))
    OBVIOUS
  <2>1. Keyed(D, k, {p}) = {i \in D : p = <<s[i].expected.label, s[i].predicted>>}
    BY <1>2 DEF Keyed
  <2>. QED BY <1>0, <2>1
<1>5. DOMAIN f = pairs /\ DOMAIN g = diagonal /\ \A p \in diagonal : g[p] = f[p]
  BY <1>0
<1>. HIDE DEF k, D, g
<1>6. SumFunction(f) = Len(s)
  <2>1. SumFunctionOnSet(f, pairs) = Cardinality(Keyed(D, k, pairs))
    <3>1. IsFiniteSet(D)
      BY <1>1
    <3>. HIDE DEF diagonal, pairs
    <3>. QED BY ONLY <1>3, <1>4, <3>1, CountedByKey
  <2>2. Keyed(D, k, pairs) = D
    BY <1>2 DEF Keyed
  <2>. QED BY <1>1, <1>5, <2>1, <2>2 DEF SumFunction
<1>7. SumFunction(g) = RightOnes(s)
  <2>1. IsFiniteSet(diagonal) /\ diagonal \subseteq pairs
    BY <1>3, <1>5, FS_Subset
  <2>2. \A p \in diagonal : g[p] = Cardinality(Keyed(D, k, {p}))
    BY <1>4, <1>5, <2>1
  <2>3. SumFunctionOnSet(g, diagonal) = Cardinality(Keyed(D, k, diagonal))
    <3>. HIDE DEF diagonal
    <3>. QED BY <1>1, <2>1, <2>2, CountedByKey
  <2>4. \A i \in D : k[i] \in diagonal <=> s[i].correct
    <3>1. \A i \in D : s[i].correct <=> s[i].predicted = s[i].expected.label
      BY DEF WellList, WellScored, D
    <3>. QED BY <1>2, <1>5, <3>1
  <2>5. Keyed(D, k, diagonal) = {i \in D : s[i].correct}
    BY <2>4 DEF Keyed
  <2>. QED BY <1>5, <2>3, <2>5 DEF SumFunction, RightOnes, D
<1>. QED BY <1>6, <1>7 DEF g

---------------------------------------------------------------------------
\* The squared error of a distribution that gives d of the whole to what was
\* expected: at least the square of the rest, and at most twice that.
LEMMA SquaredError ==
    ASSUME NEW d, NEW names, IsDistribution(d, names), NEW e \in names,
           NEW f, f = [n \in names |-> (d[n] - (IF n = e THEN Unit ELSE 0))
                                        * (d[n] - (IF n = e THEN Unit ELSE 0))]
    PROVE  /\ SumFunctionOnSet(f, names) \in Nat /\ Unit - d[e] \in 0 .. Unit
           /\ (Unit - d[e]) * (Unit - d[e]) <= SumFunctionOnSet(f, names)
           /\ SumFunctionOnSet(f, names) <= 2 * ((Unit - d[e]) * (Unit - d[e]))
<1>. DEFINE r == Unit - d[e]
            others == names \ {e}
<1>1. /\ IsFiniteSet(names) /\ SumFunctionOnSet(d, names) = Unit /\ Unit \in Nat
      /\ \A n \in names : d[n] \in 0 .. Unit /\ d[n] \in Nat /\ d[n] \in Int
      /\ \A n, m \in names : n # m => d[n] + d[m] <= Unit
  BY SharesOfOne, UnitAssumption DEF IsDistribution
<1>2. r \in 0 .. Unit /\ r \in Nat /\ r * r \in Nat
  BY <1>1
<1>3. f[e] = r * r
  <2>1. f[e] = (d[e] - Unit) * (d[e] - Unit)
    OBVIOUS
  <2>2. ASSUME NEW x \in Int, NEW u \in Int PROVE (x - u) * (x - u) = (u - x) * (u - x)
    OBVIOUS
  <2>. QED BY <1>1, <2>1, <2>2
<1>4. \A n \in others : f[n] = d[n] * d[n] /\ f[n] \in Nat /\ d[n] \in Nat /\ f[n] <= r * d[n]
  <2>. SUFFICES ASSUME NEW n \in others
                PROVE  f[n] = d[n] * d[n] /\ f[n] \in Nat /\ d[n] \in Nat /\ f[n] <= r * d[n]
    OBVIOUS
  <2>1. f[n] = (d[n] - 0) * (d[n] - 0) /\ d[n] \in Nat /\ d[n] <= r
    <3>1. d[n] + d[e] <= Unit /\ d[n] \in Nat /\ d[e] \in Nat
      BY <1>1
    <3>. QED BY <1>1, <3>1
  <2>2. ASSUME NEW x \in Nat, NEW y \in Nat, x <= y
        PROVE  (x - 0) * (x - 0) = x * x /\ x * x \in Nat /\ x * x <= y * x
    BY <2>2
  <2>. HIDE DEF r
  <2>. QED BY <1>2, <2>1, <2>2
<1>. HIDE DEF r
<1>5. IsFiniteSet(others)
  BY <1>1, FS_RemoveElement
<1>6. SumFunctionOnSet(f, names) = r * r + SumFunctionOnSet(f, others)
  <2>1. \A n \in names : f[n] \in Int
    BY <1>2, <1>3, <1>4
  <2>. HIDE DEF others
  <2>. USE DEF others
  <2>. QED BY <1>1, <1>3, <2>1, SumTakesOut
<1>7. SumFunctionOnSet(d, others) = r
  <2>1. SumFunctionOnSet(d, names) = d[e] + SumFunctionOnSet(d, others)
    BY <1>1, SumTakesOut
  <2>2. SumFunctionOnSet(d, others) \in Int
    BY <1>4, <1>5, SumIsInt
  <2>. QED BY <1>1, <2>1, <2>2 DEF r
<1>8. SumFunctionOnSet(f, others) <= r * r /\ SumFunctionOnSet(f, others) \in Nat
  <2>1. r \in Int /\ \A n \in others : f[n] \in Int /\ d[n] \in Int /\ f[n] <= r * d[n]
    BY <1>2, <1>4
  <2>2. SumFunctionOnSet(f, others) <= r * SumFunctionOnSet(d, others)
    <3>. HIDE DEF others
    <3>. QED BY <1>5, <2>1, SumDominated
  <2>3. SumFunctionOnSet(f, others) \in Nat
    BY <1>4, <1>5, SumIsNat
  <2>. QED BY <1>7, <2>2, <2>3
<1>9. /\ SumFunctionOnSet(f, names) \in Nat /\ r * r <= SumFunctionOnSet(f, names)
      /\ SumFunctionOnSet(f, names) <= 2 * (r * r)
  BY <1>2, <1>6, <1>8
<1>. QED BY <1>2, <1>9 DEF r

\* The squared error of a case is 0 exactly when all of the probability went to
\* what was expected, and never more than 2.
LEMMA CaseBrierFits ==
    ASSUME NEW c, WellScored(c), c.distribution # {}
    PROVE  /\ CaseBrier(c) \in Nat /\ CaseBrier(c) <= 2 * Unit * Unit
           /\ CaseBrier(c) = 0 <=> \A d \in c.distribution : d[c.expected.label] = Unit
<1>. DEFINE d == CHOOSE dist \in c.distribution : TRUE
            e == c.expected.label
            f == [n \in DOMAIN d |-> (d[n] - (IF n = e THEN Unit ELSE 0))
                                      * (d[n] - (IF n = e THEN Unit ELSE 0))]
            r == Unit - d[e]
            b == SumFunctionOnSet(f, DOMAIN d)
<1>1. CaseBrier(c) = b
  BY DEF CaseBrier, SumFunction
<1>2. d \in c.distribution /\ c.distribution = {d}
  BY HeldValue DEF WellScored, AtMostOne
<1>. HIDE DEF d
<1>3. IsDistribution(d, DOMAIN d) /\ e \in DOMAIN d
  BY <1>2 DEF WellScored, Covers
<1>4. b \in Nat /\ r \in 0 .. Unit /\ r * r <= b /\ b <= 2 * (r * r)
  <2>. HIDE DEF e
  <2>. QED BY <1>3, SquaredError
<1>5. d[e] \in 0 .. Unit /\ Unit \in Nat
  BY <1>3, SharesOfOne, UnitAssumption
<1>6. r = 0 <=> d[e] = Unit
  BY <1>5
<1>. HIDE DEF b, r
<1>7. ASSUME NEW x \in Nat, NEW u \in Nat, x <= u
      PROVE  x * x <= u * u /\ x * x \in Nat /\ 2 * (u * u) = 2 * u * u /\ (x * x = 0 <=> x = 0)
  BY <1>7
<1>8. /\ r * r <= Unit * Unit /\ r * r \in Nat /\ 2 * (Unit * Unit) = 2 * Unit * Unit
      /\ Unit * Unit \in Nat
      /\ r * r = 0 <=> r = 0
  BY <1>4, <1>5, <1>7
<1>9. b <= 2 * Unit * Unit /\ (b = 0 <=> r = 0)
  BY <1>4, <1>8
<1>. QED BY <1>1, <1>2, <1>4, <1>6, <1>9

\* So is the sum over a list of cases that all have a distribution.
LEMMA BrierFits ==
    ASSUME NEW s, WellList(s), AllDistributions(s),
           NEW f, f = [i \in DOMAIN s |-> CaseBrier(s[i])],
           NEW b, b = SumFunctionOnSet(f, DOMAIN s)
    PROVE  /\ 0 <= b /\ b <= 2 * Unit * Unit * Len(s)
           /\ b = 0 <=> \A i \in DOMAIN s : \A d \in s[i].distribution :
                          d[s[i].expected.label] = Unit
<1>. DEFINE D == DOMAIN s
            most == 2 * Unit * Unit
<1>1. IsFiniteSet(D) /\ Cardinality(D) = Len(s) /\ most \in Int
  BY ListIsFinite, UnitAssumption DEF WellList
<1>2. ASSUME NEW i \in D
      PROVE  /\ f[i] \in Nat /\ f[i] <= most
             /\ f[i] = 0 <=> \A d \in s[i].distribution : d[s[i].expected.label] = Unit
  <2>1. WellScored(s[i]) /\ s[i].distribution # {} /\ f[i] = CaseBrier(s[i])
    BY DEF WellList, AllDistributions, HasDistribution, Nil
  <2>. QED BY <2>1, CaseBrierFits
<1>. HIDE DEF most, D
<1>3. b \in Nat
  BY <1>1, <1>2, SumIsNat DEF D
<1>4. b <= most * Len(s)
  <2>1. SumFunctionOnSet(f, D) <= most * Cardinality(D)
    <3>1. \A i \in D : f[i] \in Int /\ f[i] <= most
      BY <1>2
    <3>. QED BY <1>1, <3>1, SumBounded
  <2>. QED BY <1>1, <2>1 DEF D
<1>5. b = 0 <=> \A i \in D : f[i] = 0
  BY <1>1, <1>2, SumIsZero DEF D
<1>. QED BY <1>2, <1>3, <1>4, <1>5 DEF D, most

---------------------------------------------------------------------------
\* The calibration bins hold every case of the list once, if all have a
\* distribution.
LEMMA CalibrationFits ==
    ASSUME NEW s, WellList(s), AllDistributions(s), NEW cal, cal = Calibration(s)
    PROVE  /\ SumFunction([k \in DOMAIN cal |-> cal[k].count]) = Len(s)
           /\ SumFunction([k \in DOMAIN cal |-> cal[k].correct]) = RightOnes(s)
           /\ Len(s) # 0 => DOMAIN cal # {}
<1>. DEFINE D == DOMAIN s
            right == {i \in D : s[i].correct}
            placed(b) == {i \in DOMAIN s : \E d \in s[i].distribution :
                            s[i].predicted \in DOMAIN d /\ Bucket(d[s[i].predicted]) = b}
            K == {k \in 0 .. 9 : placed(k) # {}}
            bin == [i \in D |-> Bucket((CHOOSE d \in s[i].distribution : TRUE)[s[i].predicted])]
            count == [k \in DOMAIN cal |-> cal[k].count]
            correct == [k \in DOMAIN cal |-> cal[k].correct]
<1>1. IsFiniteSet(D) /\ Cardinality(D) = Len(s) /\ D = 1 .. Len(s) /\ Len(s) \in Nat
  BY ListIsFinite DEF WellList
<1>2. cal = [b \in K |-> [count |-> Cardinality(placed(b)),
                          correct |-> Cardinality({i \in placed(b) : s[i].correct})]]
  BY DEF Calibration
<1>3. ASSUME NEW i \in D
      PROVE  /\ bin[i] \in 0 .. 9
             /\ \A b : i \in placed(b) <=> bin[i] = b
  <2>. DEFINE d == CHOOSE dist \in s[i].distribution : TRUE
  <2>1. WellScored(s[i]) /\ s[i].distribution # {}
    BY DEF WellList, AllDistributions, HasDistribution, Nil
  <2>2. s[i].distribution = {d} /\ Covers(d, s[i])
    BY <2>1, HeldValue DEF WellScored, AtMostOne
  <2>3. bin[i] = Bucket(d[s[i].predicted])
    OBVIOUS
  <2>. HIDE DEF d, bin
  <2>4. s[i].predicted \in DOMAIN d /\ d[s[i].predicted] \in 0 .. Unit
    BY <2>2, SharesOfOne DEF Covers
  <2>5. bin[i] \in 0 .. 9
    BY <2>3, <2>4, BucketInRange
  <2>. QED BY <2>2, <2>3, <2>4, <2>5
<1>4. \A b : placed(b) = Keyed(D, bin, {b})
  <2>. SUFFICES ASSUME NEW b PROVE placed(b) = Keyed(D, bin, {b})
    OBVIOUS
  <2>1. \A i \in D : i \in placed(b) <=> bin[i] = b
    BY <1>3
  <2>2. placed(b) \subseteq D
    OBVIOUS
  <2>. HIDE DEF placed, bin
  <2>. QED BY <2>1, <2>2 DEF Keyed
<1>. HIDE DEF placed, bin
<1>5. \A i \in D : bin[i] \in K
  <2>. SUFFICES ASSUME NEW i \in D PROVE bin[i] \in K
    OBVIOUS
  <2>1. i \in placed(bin[i])
    BY <1>4 DEF Keyed
  <2>. QED BY <1>3, <2>1
<1>6. IsFiniteSet(K)
  <2>1. 0 .. 9 = {0} \cup 1 .. 9 /\ 9 \in Nat
    OBVIOUS
  <2>2. IsFiniteSet(1 .. 9) /\ IsFiniteSet({0})
    BY <2>1, UptoIsFinite, FS_Singleton
  <2>3. IsFiniteSet(0 .. 9)
    BY <2>1, <2>2, FS_Union
  <2>4. K \subseteq 0 .. 9
    OBVIOUS
  <2>. HIDE DEF K
  <2>. QED BY <2>3, <2>4, FS_Subset
<1>. HIDE DEF K
<1>7. /\ DOMAIN cal = K /\ DOMAIN count = K /\ DOMAIN correct = K
      /\ \A b \in K : /\ count[b] = Cardinality(placed(b))
                      /\ correct[b] = Cardinality({i \in placed(b) : s[i].correct})
  BY <1>2
<1>. HIDE DEF count, correct, D
<1>8. SumFunction(count) = Len(s)
  <2>1. \A b \in K : count[b] = Cardinality(Keyed(D, bin, {b}))
    BY <1>4, <1>7
  <2>2. SumFunctionOnSet(count, K) = Cardinality(Keyed(D, bin, K))
    <3>1. IsFiniteSet(D)
      BY <1>1
    <3>. HIDE DEF right
    <3>. QED BY <1>6, <2>1, <3>1, CountedByKey
  <2>3. Keyed(D, bin, K) = D
    BY <1>5 DEF Keyed
  <2>. QED BY <1>1, <1>7, <2>2, <2>3 DEF SumFunction
<1>9. SumFunction(correct) = RightOnes(s)
  <2>1. IsFiniteSet(right)
    BY <1>1, FS_Subset
  <2>2. ASSUME NEW b \in K PROVE correct[b] = Cardinality(Keyed(right, bin, {b}))
    <3>1. {i \in placed(b) : s[i].correct} = Keyed(right, bin, {b})
      BY <1>4 DEF Keyed
    <3>. QED BY <1>7, <3>1
  <2>3. SumFunctionOnSet(correct, K) = Cardinality(Keyed(right, bin, K))
    <3>. HIDE DEF right
    <3>. QED BY <1>6, <2>1, <2>2, CountedByKey
  <2>4. Keyed(right, bin, K) = right
    BY <1>5 DEF Keyed
  <2>. QED BY <1>7, <2>3, <2>4 DEF SumFunction, RightOnes, D
<1>10. Len(s) # 0 => DOMAIN cal # {}
  <2>1. Len(s) # 0 => 1 \in D
    BY <1>1
  <2>. QED BY <1>5, <1>7, <2>1
<1>. QED BY <1>8, <1>9, <1>10 DEF count, correct

---------------------------------------------------------------------------
\* A dataset is a list of cases.
LEMMA CasesAreListed ==
    ASSUME dataset \in DataSets
    PROVE  Len(dataset.cases) \in Nat /\ DOMAIN dataset.cases = 1 .. Len(dataset.cases)
<1>1. dataset.cases \in Seq(Range(dataset.cases))
  BY InputsAssumption
<1>. QED BY <1>1

\* Every case before the one the run is at is scored or has failed, in order.
CasesInv ==
    /\ dataset \in DataSets /\ rule \in Rules /\ gate \in Gates
    /\ ctx \in {"live", "interrupted"} /\ pc \in {"loading", "running", "deciding", "done"}
    /\ case \in Nat /\ 1 <= case /\ case <= Len(dataset.cases) + 1
    /\ pc = "deciding" => case <= Len(dataset.cases)
    /\ IsList(scored) /\ IsList(failures)
    /\ Len(scored) + Len(failures) = case - 1
    /\ \A i \in DOMAIN failures : failures[i] \in Nat /\ 1 <= failures[i] /\ failures[i] < case
    /\ \A i, k \in DOMAIN failures : i < k => failures[i] < failures[k]

Codes == {ExitOK, ExitCodeFor("unclassified"), ExitBadInput, ExitConfig, ExitTimeout, ExitEvalGate}

\* Metrics are computed once, when the run is over, and the gate is applied to
\* them if the report can be written; without them the command has not succeeded.
EndInv ==
    /\ pc # "done" => metrics = Nil /\ exit = Nil
    /\ pc = "done" => exit # Nil
    /\ exit \in Ptr(Codes)
    /\ metrics = Nil => exit # {ExitOK}
    /\ metrics # Nil =>
         /\ pc = "done" /\ case = Len(dataset.cases) + 1
         /\ metrics = {ComputeMetrics(scored, Len(dataset.cases), Len(failures), scoreType)}
         /\ \E code \in Verdicts(Metric) : exit = {code}

RunInv == CasesInv /\ EndInv

LEMMA RunInit == Init => RunInv
<1>. SUFFICES ASSUME Init PROVE RunInv
  OBVIOUS
<1>1. IsList(<<>>) /\ Len(<<>>) = 0 /\ DOMAIN <<>> = {}
  <2>1. <<>> \in Seq({})
    OBVIOUS
  <2>. QED BY <2>1 DEF IsList
<1>2. Len(dataset.cases) \in Nat
  BY CasesAreListed DEF Init
<1>3. CasesInv
  BY <1>1, <1>2 DEF Init, CasesInv
<1>4. EndInv
  BY DEF Init, EndInv, Nil, Ptr
<1>. QED BY <1>3, <1>4 DEF RunInv

\* A case that fails is listed after all that failed before it.
LEMMA FailureListed ==
    ASSUME RunInv, case <= Len(dataset.cases), pc # "done", CaseFails
    PROVE  RunInv'
<1>1. /\ failures' = Append(failures, case) /\ case' = case + 1 /\ pc' = "running"
      /\ UNCHANGED <<dataset, rule, gate, ctx, scored, metrics, exit>>
  BY DEF CaseFails, Failed, input
<1>2. /\ IsList(failures') /\ Len(failures) \in Nat /\ Len(failures') = Len(failures) + 1
      /\ DOMAIN failures = 1 .. Len(failures) /\ DOMAIN failures' = 1 .. Len(failures) + 1
      /\ \A i \in 1 .. Len(failures) : failures'[i] = failures[i]
      /\ failures'[Len(failures) + 1] = case
  BY <1>1, ListGrows DEF RunInv, CasesInv
<1>3. Len(scored) \in Nat /\ case \in Nat /\ Len(dataset.cases) \in Nat
  BY ListGrows, CasesAreListed DEF RunInv, CasesInv
<1>4. Len(scored') + Len(failures') = case' - 1
  BY <1>1, <1>2, <1>3 DEF RunInv, CasesInv
<1>5. \A i \in DOMAIN failures' :
        failures'[i] \in Nat /\ 1 <= failures'[i] /\ failures'[i] < case'
  BY <1>1, <1>2, <1>3 DEF RunInv, CasesInv
<1>6. \A i, k \in DOMAIN failures' : i < k => failures'[i] < failures'[k]
  BY <1>1, <1>2, <1>3 DEF RunInv, CasesInv
<1>7. CasesInv'
  BY <1>1, <1>2, <1>3, <1>4, <1>5, <1>6 DEF RunInv, CasesInv
<1>8. EndInv'
  BY <1>1 DEF RunInv, EndInv, Nil
<1>. QED BY <1>7, <1>8 DEF RunInv

LEMMA AnswerScored ==
    ASSUME RunInv, CallAnswers
    PROVE  RunInv'
<1>1. PICK x : scored' = Append(scored, x)
  BY DEF CallAnswers
<1>2. /\ case' = case + 1 /\ pc' = "running" /\ pc = "deciding"
      /\ UNCHANGED <<dataset, rule, gate, ctx, failures, metrics, exit>>
  BY DEF CallAnswers, input
<1>3. /\ IsList(scored') /\ Len(scored) \in Nat /\ Len(scored') = Len(scored) + 1
      /\ Len(failures) \in Nat /\ case \in Nat /\ Len(dataset.cases) \in Nat
  BY <1>1, ListGrows, CasesAreListed DEF RunInv, CasesInv
<1>4. CasesInv'
  <2>1. \A i \in DOMAIN failures' :
          failures'[i] \in Nat /\ 1 <= failures'[i] /\ failures'[i] < case'
    BY <1>2, <1>3 DEF RunInv, CasesInv
  <2>2. Len(scored') + Len(failures') = case' - 1
    BY <1>2, <1>3 DEF RunInv, CasesInv
  <2>. QED BY <1>2, <1>3, <2>1, <2>2 DEF RunInv, CasesInv
<1>5. EndInv'
  BY <1>2 DEF RunInv, EndInv, Nil
<1>. QED BY <1>4, <1>5 DEF RunInv

\* The command ends with an error before there are metrics.
LEMMA EndsEarly ==
    ASSUME RunInv, BadFlags \/ Misconfigured \/ Cancelled \/ (Load /\ ~ValidDataset(dataset))
    PROVE  RunInv'
<1>1. /\ pc # "done" /\ pc' = "done" /\ exit' \in {{2}, {3}, {6}}
      /\ UNCHANGED <<dataset, rule, gate, ctx, case, scored, failures, scoreType, metrics>>
  BY DEF BadFlags, Misconfigured, Cancelled, Load, Exit, ExitCodeFor, ExitBadInput, ExitConfig,
         ExitTimeout, input
<1>2. CasesInv'
  BY <1>1 DEF RunInv, CasesInv
<1>3. EndInv'
  <2>1. exit' # {0} /\ exit' # Nil
    BY <1>1 DEF Nil
  <2>2. {2, 3, 6} \subseteq Codes
    BY DEF Codes, ExitBadInput, ExitConfig, ExitTimeout
  <2>3. exit' \in Ptr(Codes)
    BY <1>1, <2>2 DEF Ptr
  <2>. QED BY <1>1, <2>1, <2>3 DEF RunInv, EndInv, ExitOK
<1>. QED BY <1>2, <1>3 DEF RunInv

LEMMA FinishStep ==
    ASSUME RunInv, Finish
    PROVE  RunInv'
<1>. DEFINE m == ComputeMetrics(scored, Len(dataset.cases), Len(failures), scoreType)
<1>1. PICK code \in Verdicts(m) :
        /\ pc' = "done" /\ metrics' = {m} /\ exit' = {code}
        /\ case > Len(dataset.cases)
        /\ UNCHANGED <<dataset, rule, gate, ctx, case, scored, failures, scoreType>>
  BY DEF Finish, Exit, input
<1>2. case = Len(dataset.cases) + 1
  BY <1>1, CasesAreListed DEF RunInv, CasesInv
<1>3. CasesInv'
  BY <1>1 DEF RunInv, CasesInv
<1>4. EndInv'
  <2>1. Metric' = m
    BY <1>1 DEF Metric
  <2>2. ApplyGate(Metric)' = ApplyGate(m)
    BY <1>1, <2>1 DEF ApplyGate, BelowGate
  <2>3. metrics' # Nil /\ Verdicts(Metric)' = Verdicts(m)
    BY <1>1, <2>2 DEF Nil, Verdicts
  <2>4. m = ComputeMetrics(scored, Len(dataset.cases), Len(failures), scoreType)'
    BY <1>1
  <2>5. Verdicts(m) \subseteq Codes
    BY DEF ApplyGate, Verdicts, Codes
  <2>. HIDE DEF m
  <2>6. exit' \in Ptr(Codes) /\ exit' # Nil
    BY <1>1, <2>5 DEF Ptr, Nil
  <2>7. (\E c \in Verdicts(Metric) : exit = {c})'
    BY <1>1, <2>3
  <2>. QED BY <1>1, <1>2, <2>3, <2>4, <2>6, <2>7 DEF EndInv
<1>. QED BY <1>3, <1>4 DEF RunInv

LEMMA RunStep == RunInv /\ [Next]_vars => RunInv'
<1>. SUFFICES ASSUME RunInv, [Next]_vars PROVE RunInv'
  OBVIOUS
<1>1. CASE Load /\ ValidDataset(dataset)
  <2>1. /\ pc = "loading" /\ pc' = "running"
        /\ UNCHANGED <<dataset, rule, gate, ctx, case, scored, failures, scoreType, metrics, exit>>
    BY <1>1 DEF Load, input
  <2>. QED BY <2>1 DEF RunInv, CasesInv, EndInv, Nil
<1>2. CASE StartCase
  <2>1. case <= Len(dataset.cases) /\ pc = "running"
    BY <1>2 DEF StartCase
  <2>2. CASE ValidRequest(CaseRequest)
    <3>1. pc' = "deciding" /\ UNCHANGED <<dataset, rule, gate, ctx, case, scored, failures, metrics, exit>>
      BY <1>2, <2>2 DEF StartCase, input
    <3>. QED BY <2>1, <3>1 DEF RunInv, CasesInv, EndInv, Nil
  <2>3. CASE ~ValidRequest(CaseRequest)
    BY <1>2, <2>1, <2>3, FailureListed DEF StartCase
  <2>. QED BY <2>2, <2>3
<1>3. CASE CallFails
  BY <1>3, FailureListed DEF CallFails, RunInv, CasesInv
<1>4. CASE Interrupt \/ UNCHANGED vars
  <2>1. UNCHANGED <<dataset, rule, gate, pc, case, scored, failures, scoreType, metrics, exit>>
    BY <1>4 DEF Interrupt, vars, input
  <2>2. CasesInv'
    <3>1. ctx' \in {"live", "interrupted"}
      BY <1>4 DEF Interrupt, vars, RunInv, CasesInv
    <3>. QED BY <2>1, <3>1 DEF RunInv, CasesInv
  <2>3. Metric' = Metric /\ Verdicts(Metric)' = Verdicts(Metric)
    BY <2>1 DEF Metric, Verdicts, ApplyGate, BelowGate
  <2>4. EndInv'
    BY <2>1, <2>3 DEF RunInv, EndInv
  <2>. QED BY <2>2, <2>4 DEF RunInv
<1>5. CASE BadFlags \/ Misconfigured \/ Cancelled \/ (Load /\ ~ValidDataset(dataset))
  BY <1>5, EndsEarly
<1>. QED BY <1>1, <1>2, <1>3, <1>4, <1>5, AnswerScored, FinishStep DEF Next, Step

\* The invariant holds of every reachable state.
THEOREM RunInvariance == Spec => []RunInv
BY RunInit, RunStep, PTL DEF Spec

---------------------------------------------------------------------------
\* A scored case c is the k-th of a dataset: its labels are of that question.
OfCase(d, c, k) ==
    \A q \in ResolveQuestion(d.cases[k], d.question) :
      {c.expected.label, c.predicted} \subseteq Labels(q)

\* Each of the scored cases s is scored well, and is of the first n of d.
AllScored(d, s, n) ==
    \A i \in DOMAIN s : WellScored(s[i]) /\ \E k \in 1 .. n : OfCase(d, s[i], k)

\* A run is of a dataset that was not refused, a call is of a request that the
\* engine let through, and what has been scored is scored well.
ScoredInv ==
    /\ pc \in {"running", "deciding"} => ValidDataset(dataset)
    /\ pc = "deciding" => ValidRequest(CaseRequest)
    /\ AllScored(dataset, scored, case - 1)

\* The question of a case under way, and what is expected of it.
LEMMA CaseAsked ==
    ASSUME RunInv, ScoredInv, pc = "deciding"
    PROVE  /\ ResolveQuestion(Case, dataset.question) = {CaseQuestion}
           /\ AskedQuestion(CaseQuestion) /\ {"type", "names"} \subseteq DOMAIN CaseQuestion
           /\ CaseExpected \in NormalizeExpected(CaseQuestion, Case.expected)
           /\ CaseExpected.label \in Labels(CaseQuestion)
<1>. DEFINE R == ResolveQuestion(Case, dataset.question)
<1>1. /\ dataset \in DataSets /\ case \in DOMAIN dataset.cases
      /\ ValidDataset(dataset) /\ ValidRequest(CaseRequest)
  BY CasesAreListed DEF RunInv, CasesInv, ScoredInv
<1>2. AtMostOne(R) /\ \A q \in R : {"type", "names"} \subseteq DOMAIN q /\ q.names \in Seq(NamesOf(q))
  BY <1>1, InputsAssumption DEF ResolveQuestion, Case
<1>3. R # {} /\ \A q \in R : NormalizeExpected(q, Case.expected) # {}
  BY <1>1 DEF ValidDataset, ValidCase, Case, Nil
<1>4. CaseQuestion \in R
  BY <1>3, HeldValue DEF CaseQuestion
<1>5. R = {CaseQuestion}
  BY <1>2, <1>4 DEF AtMostOne
<1>6. CaseExpected \in NormalizeExpected(CaseQuestion, Case.expected)
  BY <1>3, <1>4, HeldValue DEF CaseExpected
<1>7. ValidQuestion(CaseQuestion)
  <2>1. DOMAIN CaseRequest.questions = {Case.id} /\ CaseRequest.questions[Case.id] = CaseQuestion
    BY DEF CaseRequest
  <2>. QED BY <1>1, <2>1 DEF ValidRequest
<1>8. AskedQuestion(CaseQuestion)
  <2>1. CaseQuestion.type \in DecisionTypes
    BY <1>7 DEF ValidQuestion
  <2>2. CaseQuestion.names = <<>> \/ ValidNames(CaseQuestion.names)
    BY <1>7 DEF ValidQuestion
  <2>3. \A i, k \in DOMAIN CaseQuestion.names :
          CaseQuestion.names[i] = CaseQuestion.names[k] => i = k
    <3>1. CASE CaseQuestion.names = <<>>
      <4>1. DOMAIN CaseQuestion.names = {}
        BY <3>1
      <4>. QED BY <4>1
    <3>2. CASE ValidNames(CaseQuestion.names)
      BY <3>2, Zenon DEF ValidNames
    <3>. QED BY <2>2, <3>1, <3>2
  <2>. QED BY <1>2, <1>4, <2>1, <2>3 DEF AskedQuestion
<1>9. CaseExpected.label \in Labels(CaseQuestion)
  BY <1>6, <1>8, ExpectedIsLabel DEF AskedQuestion
<1>. QED BY <1>2, <1>4, <1>5, <1>6, <1>8, <1>9

\* What a call that was answered adds to the scored cases.
LEMMA AnswerIsWellScored ==
    ASSUME RunInv, ScoredInv, CallAnswers
    PROVE  \E x : scored' = Append(scored, x) /\ WellScored(x) /\ OfCase(dataset, x, case)
<1>. DEFINE q == CaseQuestion
            p == Lowered(CaseRequest)[Case.id]
            bodyOf(a) == [wellFormed |-> TRUE, unknown |-> FALSE,
                          answers |-> [id \in {Case.id} |-> a]]
            parsedOf(a) == ParseResponse(Lowered(CaseRequest), bodyOf(a), TRUE)
            judgmentOf(a) ==
              Escalated(CaseRequest, Restored(CaseRequest, parsedOf(a).judgments))[Case.id]
<1>1. /\ pc = "deciding"
      /\ \E a \in Answers, latency \in Latencies :
           /\ parsedOf(a).accepted
           /\ scored' = Append(scored, Scored(q, CaseExpected, judgmentOf(a), latency))
  BY DEF CallAnswers
<1>. HIDE DEF judgmentOf, parsedOf
<1>2. PICK a \in Answers, latency \in Latencies :
        /\ parsedOf(a).accepted
        /\ scored' = Append(scored, Scored(q, CaseExpected, judgmentOf(a), latency))
  BY <1>1
<1>3. /\ ResolveQuestion(Case, dataset.question) = {q}
      /\ AskedQuestion(q) /\ {"type", "names"} \subseteq DOMAIN q
      /\ CaseExpected.label \in Labels(q)
  BY <1>1, CaseAsked
<1>4. WireAnswer(a) /\ latency \in Nat
  BY InputsAssumption
<1>5. /\ DOMAIN CaseRequest.questions = {Case.id} /\ CaseRequest.questions[Case.id] = q
      /\ bodyOf(a).answers = [id \in {Case.id} |-> a] /\ bodyOf(a).answers[Case.id] = a
  BY DEF CaseRequest
<1>. HIDE DEF q
<1>6. /\ DOMAIN Lowered(CaseRequest) = {Case.id} /\ p = [q EXCEPT !.type = Lower(q.type)]
  BY <1>5 DEF Lowered
<1>7. LoweredTo(q, p)
  <2>1. p.type = Lower(q.type) /\ p.names = q.names
    BY <1>3, <1>6
  <2>. QED BY <2>1, Zenon DEF LoweredTo
<1>. HIDE DEF bodyOf, p
<1>8. /\ AnswerFits(p, a, TRUE)
      /\ parsedOf(a).judgments = [id \in {Case.id} |-> Judged(p, a)]
  <2>. DEFINE req == Lowered(CaseRequest)
              body == bodyOf(a)
  <2>. HIDE DEF req, body
  <2>0. parsedOf(a) = ParseResponse(req, body, TRUE) /\ DOMAIN req = {Case.id}
    BY <1>6 DEF parsedOf, req, body
  <2>1. /\ \A id \in DOMAIN req : AnswerFits(req[id], body.answers[id], TRUE)
        /\ ParseResponse(req, body, TRUE).judgments
             = [id \in DOMAIN req |-> Judged(req[id], body.answers[id])]
    <3>1. ParseResponse(req, body, TRUE).accepted
      BY <1>2, <2>0
    <3>2. ParseResponse(req, body, TRUE) =
            [accepted |-> TRUE, why |-> "",
             judgments |-> [id \in DOMAIN req |-> Judged(req[id], body.answers[id])]]
      BY <3>1, AcceptedBody, Zenon
    <3>3. \A id \in DOMAIN req : AnswerFits(req[id], body.answers[id], TRUE)
      BY <3>1, AcceptedBody, Zenon
    <3>4. ParseResponse(req, body, TRUE).judgments
            = [id \in DOMAIN req |-> Judged(req[id], body.answers[id])]
      <4>. DEFINE made == [id \in DOMAIN req |-> Judged(req[id], body.answers[id])]
                  parsed == ParseResponse(req, body, TRUE)
      <4>1. parsed = [accepted |-> TRUE, why |-> "", judgments |-> made]
        BY <3>2
      <4>. HIDE DEF made, parsed
      <4>2. parsed.judgments = made
        BY <4>1
      <4>. QED BY <4>2, Zenon DEF made, parsed
    <3>. QED BY <3>3, <3>4
  <2>2. AnswerFits(p, a, TRUE)
    BY <1>5, <2>0, <2>1 DEF p, req, body
  <2>3. parsedOf(a).judgments = [id \in {Case.id} |-> Judged(req[id], body.answers[id])]
    BY <2>0, <2>1
  <2>4. \A id \in {Case.id} : req[id] = p /\ body.answers[id] = a
    BY <1>5 DEF p, req, body
  <2>5. parsedOf(a).judgments = [id \in {Case.id} |-> Judged(p, a)]
    BY <2>3, <2>4, Zenon
  <2>. QED BY <2>2, <2>5
<1>9. PICK rule_ : Follows(judgmentOf(a), Judged(p, a), rule_, q.type)
  <2>. DEFINE k == Judged(p, a)
              t == q.type
  <2>1. Fresh(k)
    <3>1. p.type \in DecisionTypes
      BY <1>3, <1>7, LoweredAsked
    <3>. QED BY <3>1, JudgedFresh
  <2>. HIDE DEF k
  <2>2. Restored(CaseRequest, parsedOf(a).judgments)
          = [id \in {Case.id} |-> [k EXCEPT !.type = t, !.compiledTo = CompiledTo(t)]]
    BY <1>5, <1>8 DEF Restored, k
  <2>3. judgmentOf(a) = ApplyEscalation([k EXCEPT !.type = t, !.compiledTo = CompiledTo(t)],
                                        RuleFor(CaseRequest, Case.id))
    BY <2>2 DEF judgmentOf, Escalated
  <2>4. Follows(judgmentOf(a), k, RuleFor(CaseRequest, Case.id), t)
    BY <2>1, <2>3, RestoredFollows
  <2>. QED BY <2>4 DEF k
<1>. DEFINE x == Scored(q, CaseExpected, judgmentOf(a), latency)
<1>10. WellScored(x) /\ {x.expected.label, x.predicted} \subseteq Labels(q)
  <2>. DEFINE j == judgmentOf(a)
  <2>1. Follows(j, Judged(p, a), rule_, q.type)
    BY <1>9
  <2>. HIDE DEF j
  <2>3. /\ AskedQuestion(q) /\ LoweredTo(q, p) /\ WireAnswer(a) /\ AnswerFits(p, a, TRUE)
        /\ CaseExpected.label \in Labels(q) /\ latency \in Nat
    BY <1>3, <1>4, <1>7, <1>8
  <2>2. LET c == Scored(q, CaseExpected, j, latency)
        IN  WellScored(c) /\ {c.expected.label, c.predicted} \subseteq Labels(q)
    BY <2>1, <2>3, ScoredWell
  <2>. QED BY <2>2 DEF j, x
<1>. HIDE DEF x
<1>11. OfCase(dataset, x, case)
  BY <1>3, <1>10 DEF OfCase, Case
<1>. QED BY <1>2, <1>10, <1>11 DEF x

LEMMA ScoredInit == Init => ScoredInv
<1>. SUFFICES ASSUME Init PROVE ScoredInv
  OBVIOUS
<1>1. pc = "loading" /\ scored = <<>>
  BY DEF Init
<1>2. DOMAIN scored = {}
  BY <1>1
<1>3. AllScored(dataset, scored, case - 1)
  BY <1>2, Zenon DEF AllScored
<1>. QED BY <1>1, <1>3 DEF ScoredInv

\* What has been scored stays scored, as the run goes on over the same dataset.
LEMMA ScoredStays ==
    ASSUME NEW d, NEW s, NEW m \in Int, NEW n \in Int, m <= n, AllScored(d, s, m)
    PROVE  AllScored(d, s, n)
<1>1. \A k \in 1 .. m : k \in 1 .. n
  OBVIOUS
<1>. QED BY <1>1, Zenon DEF AllScored

\* One case more is scored.
LEMMA ScoredGrows ==
    ASSUME NEW d, NEW S, NEW s \in Seq(S), NEW n \in Nat, NEW x,
           AllScored(d, s, n), WellScored(x), OfCase(d, x, n + 1)
    PROVE  AllScored(d, Append(s, x), n + 1)
<1>1. /\ DOMAIN Append(s, x) = 1 .. Len(s) + 1 /\ DOMAIN s = 1 .. Len(s)
      /\ \A i \in 1 .. Len(s) : Append(s, x)[i] = s[i]
      /\ Append(s, x)[Len(s) + 1] = x
  BY ListGrows
<1>2. Len(s) \in Nat
  OBVIOUS
<1>. DEFINE t == Append(s, x)
<1>. HIDE DEF t
<1>3. ASSUME NEW i \in DOMAIN t
      PROVE  WellScored(t[i]) /\ \E k \in 1 .. n + 1 : OfCase(d, t[i], k)
  <2>1. CASE i \in DOMAIN s
    <3>1. t[i] = s[i]
      BY <1>1, <2>1 DEF t
    <3>2. AllScored(d, s, n + 1)
      BY ScoredStays
    <3>. QED BY <2>1, <3>1, <3>2, Zenon DEF AllScored
  <2>2. CASE i \notin DOMAIN s
    <3>1. i = Len(s) + 1
      BY <1>1, <1>2, <1>3, <2>2 DEF t
    <3>2. t[i] = x
      BY <1>1, <3>1 DEF t
    <3>3. n + 1 \in 1 .. n + 1
      OBVIOUS
    <3>. QED BY <3>2, <3>3, Zenon
  <2>. QED BY <2>1, <2>2
<1>. QED BY <1>3, Zenon DEF AllScored, t

LEMMA ScoredStep == RunInv /\ ScoredInv /\ [Next]_vars => ScoredInv'
<1>. SUFFICES ASSUME RunInv, ScoredInv, [Next]_vars PROVE ScoredInv'
  OBVIOUS
<1>. DEFINE ok(p) == p \in {"running", "deciding"} => ValidDataset(dataset)
<1>0. /\ case \in Int /\ case - 1 \in Nat
      /\ AllScored(dataset, scored, case - 1)
      /\ ok(pc) /\ (pc = "deciding" => ValidRequest(CaseRequest))
  <2>1. case \in 1 .. Len(dataset.cases) + 1 /\ Len(dataset.cases) \in Nat
    BY CasesAreListed DEF RunInv, CasesInv
  <2>. QED BY <2>1 DEF ScoredInv
<1>1. CASE Load \/ BadFlags \/ Misconfigured \/ Cancelled \/ Finish
  <2>1. /\ UNCHANGED <<dataset, scored, case>> /\ pc' \in {"running", "done"}
        /\ pc' = "running" => ValidDataset(dataset)
    BY <1>1 DEF Load, BadFlags, Misconfigured, Cancelled, Finish, Exit, input
  <2>2. AllScored(dataset', scored', case' - 1)
    BY <1>0, <2>1
  <2>3. pc' \in {"running", "deciding"} => ValidDataset(dataset')
    BY <2>1
  <2>4. pc' # "deciding"
    BY <2>1
  <2>. QED BY <2>2, <2>3, <2>4, Zenon DEF ScoredInv
<1>2. CASE StartCase /\ ValidRequest(CaseRequest)
  <2>1. /\ UNCHANGED <<dataset, rule, scored, case>> /\ pc = "running" /\ pc' = "deciding"
    BY <1>2 DEF StartCase, CaseFails, input
  <2>2. CaseRequest' = CaseRequest
    BY <2>1 DEF CaseRequest, CaseQuestion, Case
  <2>3. ValidRequest(CaseRequest')
    BY <1>2, <2>2
  <2>4. AllScored(dataset', scored', case' - 1)
    BY <1>0, <2>1
  <2>5. ValidDataset(dataset')
    BY <1>0, <2>1
  <2>. QED BY <2>3, <2>4, <2>5, Zenon DEF ScoredInv
<1>3. CASE CallFails \/ (StartCase /\ ~ValidRequest(CaseRequest))
  <2>1. /\ UNCHANGED <<dataset, scored>> /\ case' = case + 1 /\ pc' = "running"
        /\ pc \in {"running", "deciding"}
    BY <1>3 DEF CallFails, StartCase, CaseFails, input
  <2>2. AllScored(dataset, scored, case' - 1)
    <3>1. case' - 1 \in Int /\ case - 1 <= case' - 1 /\ case - 1 \in Int
      BY <1>0, <2>1
    <3>. QED BY <1>0, <3>1, ScoredStays
  <2>3. AllScored(dataset', scored', case' - 1)
    BY <2>1, <2>2
  <2>4. ValidDataset(dataset') /\ pc' # "deciding"
    BY <1>0, <2>1
  <2>. QED BY <2>3, <2>4, Zenon DEF ScoredInv
<1>4. CASE CallAnswers
  <2>1. /\ dataset' = dataset /\ case' = case + 1 /\ pc' = "running" /\ pc = "deciding"
    BY <1>4 DEF CallAnswers, input
  <2>2. PICK x : scored' = Append(scored, x) /\ WellScored(x) /\ OfCase(dataset, x, case)
    BY <1>4, AnswerIsWellScored
  <2>. DEFINE n == case - 1
  <2>3. n \in Nat /\ n + 1 = case /\ case' - 1 = n + 1
    BY <1>0, <2>1
  <2>4. PICK S : scored \in Seq(S)
    BY DEF RunInv, CasesInv, IsList
  <2>5. AllScored(dataset, scored, n)
    BY <1>0
  <2>. HIDE DEF n
  <2>6. OfCase(dataset, x, n + 1)
    BY <2>2, <2>3
  <2>7. AllScored(dataset, Append(scored, x), n + 1)
    BY <2>2, <2>3, <2>4, <2>5, <2>6, ScoredGrows
  <2>8. AllScored(dataset', scored', case' - 1)
    BY <2>1, <2>2, <2>3, <2>7
  <2>9. ValidDataset(dataset') /\ pc' # "deciding"
    BY <1>0, <2>1
  <2>. QED BY <2>8, <2>9, Zenon DEF ScoredInv
<1>5. CASE Interrupt \/ UNCHANGED vars
  <2>1. UNCHANGED <<dataset, rule, scored, case, pc>>
    BY <1>5 DEF Interrupt, vars, input
  <2>2. CaseRequest' = CaseRequest
    BY <2>1 DEF CaseRequest, CaseQuestion, Case
  <2>3. pc' = "deciding" => ValidRequest(CaseRequest')
    BY <1>0, <2>1, <2>2
  <2>4. AllScored(dataset', scored', case' - 1)
    BY <1>0, <2>1
  <2>5. pc' \in {"running", "deciding"} => ValidDataset(dataset')
    BY <1>0, <2>1
  <2>. QED BY <2>3, <2>4, <2>5, Zenon DEF ScoredInv
<1>. QED BY <1>1, <1>2, <1>3, <1>4, <1>5 DEF Next, Step

\* Both invariants hold of every reachable state.
THEOREM ScoredInvariance == Spec => [](RunInv /\ ScoredInv)
<1>1. Init => RunInv /\ ScoredInv
  BY RunInit, ScoredInit
<1>2. RunInv /\ ScoredInv /\ [Next]_vars => RunInv' /\ ScoredInv'
  BY RunStep, ScoredStep
<1>. QED BY <1>1, <1>2, PTL DEF Spec

---------------------------------------------------------------------------
\* What has failed before the k-th case.
Before(f, k) == {i \in DOMAIN f : f[i] < k}

\* The k-th case of d was scored in its turn, against what it expects.
InTurn(d, s, f, k) ==
    /\ k - Cardinality(Before(f, k)) \in DOMAIN s
    /\ \E q \in ResolveQuestion(d.cases[k], d.question) :
         s[k - Cardinality(Before(f, k))].expected \in NormalizeExpected(q, d.cases[k].expected)

\* The scored cases are those that are not listed as failures, in their order.
PairedInv ==
    \A k \in 1 .. case - 1 : k \notin Range(failures) => InTurn(dataset, scored, failures, k)

LEMMA PairedInit == Init => PairedInv
<1>. SUFFICES ASSUME Init PROVE PairedInv
  OBVIOUS
<1>1. 1 .. case - 1 = {}
  BY DEF Init
<1>. QED BY <1>1 DEF PairedInv

\* A further failure is no earlier than any case before it.
LEMMA FailureKeepsTurns ==
    ASSUME RunInv, PairedInv, CaseFails
    PROVE  PairedInv'
<1>1. /\ failures' = Append(failures, case) /\ case' = case + 1
      /\ UNCHANGED <<dataset, scored>>
  BY DEF CaseFails, Failed, input
<1>2. /\ Len(failures) \in Nat /\ DOMAIN failures = 1 .. Len(failures)
      /\ DOMAIN failures' = 1 .. Len(failures) + 1
      /\ \A i \in 1 .. Len(failures) : failures'[i] = failures[i]
      /\ failures'[Len(failures) + 1] = case /\ case \in Nat
  BY <1>1, ListGrows DEF RunInv, CasesInv
<1>3. ASSUME NEW k \in 1 .. case' - 1, k \notin Range(failures')
      PROVE  InTurn(dataset, scored, failures', k)
  <2>1. k # case /\ k \notin Range(failures)
    BY <1>2, <1>3 DEF Range
  <2>2. k \in 1 .. case - 1
    BY <1>1, <1>2, <2>1
  <2>3. Before(failures', k) = Before(failures, k)
    BY <1>2, <2>2 DEF Before
  <2>4. InTurn(dataset, scored, failures, k)
    BY <2>1, <2>2 DEF PairedInv
  <2>. QED BY <2>3, <2>4 DEF InTurn
<1>. QED BY <1>1, <1>3, Zenon DEF PairedInv

\* The case that is answered comes after all that have failed, and is scored next.
LEMMA AnswerTakesItsTurn ==
    ASSUME RunInv, ScoredInv, PairedInv, CallAnswers
    PROVE  PairedInv'
<1>1. /\ case' = case + 1 /\ pc = "deciding" /\ UNCHANGED <<dataset, failures>>
  BY DEF CallAnswers, input
<1>2. PICK x : scored' = Append(scored, x) /\ x.expected = CaseExpected
  <2>1. PICK j, latency : scored' = Append(scored, Scored(CaseQuestion, CaseExpected, j, latency))
    BY Zenon DEF CallAnswers
  <2>2. Scored(CaseQuestion, CaseExpected, j, latency).expected = CaseExpected
    BY DEF Scored
  <2>. QED BY <2>1, <2>2
<1>3. /\ Len(scored) \in Nat /\ DOMAIN scored = 1 .. Len(scored)
      /\ DOMAIN scored' = 1 .. Len(scored) + 1
      /\ \A i \in 1 .. Len(scored) : scored'[i] = scored[i]
      /\ scored'[Len(scored) + 1] = x
      /\ case \in Nat /\ Len(scored) + Len(failures) = case - 1
  BY <1>2, ListGrows DEF RunInv, CasesInv
<1>4. Len(failures) \in Nat /\ Cardinality(DOMAIN failures) = Len(failures)
  BY ListIsFinite DEF RunInv, CasesInv
<1>5. ASSUME NEW k \in 1 .. case' - 1, k \notin Range(failures)
      PROVE  InTurn(dataset, scored', failures, k)
  <2>. DEFINE turn == k - Cardinality(Before(failures, k))
  <2>1. CASE k = case
    <3>1. Before(failures, k) = DOMAIN failures
      BY <2>1 DEF Before, RunInv, CasesInv
    <3>2. turn = Len(scored) + 1
      BY <1>3, <1>4, <2>1, <3>1
    <3>3. /\ CaseQuestion \in ResolveQuestion(dataset.cases[k], dataset.question)
          /\ CaseExpected \in NormalizeExpected(CaseQuestion, dataset.cases[k].expected)
      BY <1>1, <2>1, CaseAsked DEF Case
    <3>4. turn \in DOMAIN scored' /\ scored'[turn].expected = CaseExpected
      BY <1>2, <1>3, <3>2
    <3>. QED BY <3>3, <3>4, Zenon DEF InTurn
  <2>2. CASE k # case
    <3>1. k \in 1 .. case - 1
      BY <1>1, <1>3, <2>2
    <3>2. InTurn(dataset, scored, failures, k)
      BY <1>5, <3>1, Zenon DEF PairedInv
    <3>3. turn \in 1 .. Len(scored)
      BY <1>3, <3>2, Zenon DEF InTurn
    <3>4. turn \in DOMAIN scored' /\ scored'[turn] = scored[turn]
      BY <1>3, <3>3
    <3>. QED BY <3>2, <3>4, Zenon DEF InTurn
  <2>. QED BY <2>1, <2>2
<1>. QED BY <1>1, <1>5, Zenon DEF PairedInv

LEMMA PairedStep == RunInv /\ ScoredInv /\ PairedInv /\ [Next]_vars => PairedInv'
<1>. SUFFICES ASSUME RunInv, ScoredInv, PairedInv, [Next]_vars PROVE PairedInv'
  OBVIOUS
<1>1. CASE UNCHANGED <<dataset, scored, failures, case>>
  BY <1>1 DEF PairedInv
<1>2. CASE CallFails \/ (StartCase /\ ~ValidRequest(CaseRequest))
  BY <1>2, FailureKeepsTurns DEF CallFails, StartCase
<1>3. CASE CallAnswers
  BY <1>3, AnswerTakesItsTurn
<1>4. CASE StartCase /\ ValidRequest(CaseRequest)
  BY <1>1, <1>4 DEF StartCase, input
<1>5. CASE \/ Load \/ BadFlags \/ Misconfigured \/ Cancelled \/ Finish \/ Interrupt
           \/ UNCHANGED vars
  BY <1>1, <1>5 DEF Load, BadFlags, Misconfigured, Cancelled, Finish, Interrupt, vars, input
<1>. QED BY <1>2, <1>3, <1>4, <1>5 DEF Next, Step

\* The scored cases and the failures stay in step.
THEOREM PairedInvariance == Spec => [](RunInv /\ PairedInv)
<1>1. Init => RunInv /\ ScoredInv /\ PairedInv
  BY RunInit, ScoredInit, PairedInit
<1>2. RunInv /\ ScoredInv /\ PairedInv /\ [Next]_vars => RunInv' /\ ScoredInv' /\ PairedInv'
  BY RunStep, ScoredStep, PairedStep
<1>. QED BY <1>1, <1>2, PTL DEF Spec

---------------------------------------------------------------------------
\* The cases that were rated.
Rated(s) == {i \in DOMAIN s : s[i].score # Nil}

\* What is reported once a case was scored, field by field.
Reports(m, s, st) ==
    /\ m.scored = Len(s) /\ m.accuracyWhy = ""
    /\ m.accuracy = {[sum |-> RightOnes(s), of |-> Len(s)]}
    /\ m.confusion = Confusion(s)
    /\ m.brier = IF AllDistributions(s)
                 THEN {[sum |-> SumFunctionOnSet([i \in DOMAIN s |-> CaseBrier(s[i])], DOMAIN s),
                        of |-> Len(s)]}
                 ELSE Nil
    /\ m.calibration = IF AllDistributions(s) THEN Calibration(s) ELSE <<>>
    /\ m.distributionWhy = IF AllDistributions(s) THEN "" ELSE "missing"
    /\ (m.mae = Nil <=> ~(st /\ Cardinality(Rated(s)) > 0))
    /\ m.maeWhy = IF ~st THEN "not a score"
                  ELSE IF Cardinality(Rated(s)) = 0 THEN "no score" ELSE ""
    /\ m.latency = [count |-> Len(s), p50 |-> Percentile(s, 50),
                    p95 |-> Percentile(s, 95), max |-> Percentile(s, 100)]

LEMMA Measured ==
    ASSUME NEW s, Len(s) # 0, NEW total, NEW errored, NEW st,
           NEW m, m = ComputeMetrics(s, total, errored, st)
    PROVE  Reports(m, s, st)
<1>. DEFINE n == Len(s)
            right == RightOnes(s)
            pairs == Confusion(s)
            squared(i) == IF TRUE THEN CaseBrier(s[i]) ELSE 0
            brier == IF AllDistributions(s)
                     THEN {[sum |-> SumFunctionOnSet([i \in DOMAIN s |-> squared(i)], DOMAIN s),
                            of |-> Len(s)]}
                     ELSE Nil
            calibration == IF AllDistributions(s) THEN Calibration(s) ELSE <<>>
            why == IF AllDistributions(s) THEN "" ELSE "missing"
            rated == Cardinality(Rated(s))
            error(i) == IF s[i].score # Nil THEN AbsoluteError(s[i]) ELSE 0
            mae == IF st /\ rated > 0
                   THEN {[sum |-> SumFunctionOnSet([i \in DOMAIN s |-> error(i)], DOMAIN s),
                          of |-> rated]}
                   ELSE Nil
            maeWhy == IF ~st THEN "not a score" ELSE IF rated = 0 THEN "no score" ELSE ""
            rate == [sum |-> Cardinality({i \in DOMAIN s : s[i].escalated}), of |-> n]
            latency == [count |-> n, p50 |-> Percentile(s, 50),
                        p95 |-> Percentile(s, 95), max |-> Percentile(s, 100)]
<1>1. m = [cases |-> total, scored |-> n, errored |-> errored,
           accuracy |-> {[sum |-> right, of |-> n]}, accuracyWhy |-> "",
           confusion |-> pairs, brier |-> brier, calibration |-> calibration,
           distributionWhy |-> why, escalationRate |-> rate, mae |-> mae,
           maeWhy |-> maeWhy, latency |-> latency]
  BY Zenon DEF ComputeMetrics, Count, Sum, RightOnes, Confusion, Pairs, Rated
<1>2. mae = Nil <=> ~(st /\ rated > 0)
  BY DEF Nil
<1>3. [i \in DOMAIN s |-> squared(i)] = [i \in DOMAIN s |-> CaseBrier(s[i])]
  OBVIOUS
<1>. HIDE DEF n, right, pairs, brier, calibration, why, rate, mae, maeWhy, latency
<1>4. /\ m.scored = n /\ m.accuracyWhy = "" /\ m.accuracy = {[sum |-> right, of |-> n]}
      /\ m.confusion = pairs /\ m.brier = brier /\ m.calibration = calibration
      /\ m.distributionWhy = why /\ m.mae = mae /\ m.maeWhy = maeWhy /\ m.latency = latency
  BY ONLY <1>1
<1>5. m.mae = Nil <=> ~(st /\ Cardinality(Rated(s)) > 0)
  BY <1>2, <1>4
<1>6. m.brier = IF AllDistributions(s)
                THEN {[sum |-> SumFunctionOnSet([i \in DOMAIN s |-> CaseBrier(s[i])], DOMAIN s),
                       of |-> Len(s)]}
                ELSE Nil
  BY <1>3, <1>4, Zenon DEF brier
<1>7. /\ m.scored = Len(s) /\ m.accuracy = {[sum |-> RightOnes(s), of |-> Len(s)]}
  BY <1>4, Zenon DEF n, right
<1>8. /\ m.confusion = Confusion(s)
      /\ m.calibration = IF AllDistributions(s) THEN Calibration(s) ELSE <<>>
      /\ m.distributionWhy = IF AllDistributions(s) THEN "" ELSE "missing"
  BY <1>4, Zenon DEF pairs, calibration, why
<1>9. /\ m.maeWhy = IF ~st THEN "not a score"
                    ELSE IF Cardinality(Rated(s)) = 0 THEN "no score" ELSE ""
      /\ m.latency = [count |-> Len(s), p50 |-> Percentile(s, 50),
                      p95 |-> Percentile(s, 95), max |-> Percentile(s, 100)]
  BY <1>4, Zenon DEF maeWhy, latency, n
<1>. QED BY <1>4, <1>5, <1>6, <1>7, <1>8, <1>9, Zenon DEF Reports

---------------------------------------------------------------------------
\* Where there are metrics, they are those of the whole run.
LEMMA MetricOfRun ==
    ASSUME RunInv, metrics # Nil
    PROVE  /\ Metric.cases = Len(dataset.cases) /\ Metric.scored = Len(scored)
           /\ Metric.errored = Len(failures)
           /\ Metric.accuracy = IF Len(scored) = 0 THEN Nil
                                ELSE {[sum |-> RightOnes(scored), of |-> Len(scored)]}
           /\ (\E code \in Verdicts(Metric) : exit = {code})
           /\ case = Len(dataset.cases) + 1
<1>1. Metric = ComputeMetrics(scored, Len(dataset.cases), Len(failures), scoreType)
  BY DEF RunInv, EndInv, Metric
<1>2. /\ Metric.cases = Len(dataset.cases) /\ Metric.scored = Len(scored)
      /\ Metric.errored = Len(failures)
      /\ Metric.accuracy = IF Len(scored) = 0 THEN Nil
                           ELSE {[sum |-> RightOnes(scored), of |-> Len(scored)]}
  <2>1. CASE Len(scored) = 0
    BY <1>1, <2>1 DEF ComputeMetrics, NoMetrics
  <2>2. CASE Len(scored) # 0
    BY <1>1, <2>2 DEF ComputeMetrics, Count, RightOnes
  <2>. QED BY <2>1, <2>2
<1>3. (\E code \in Verdicts(Metric) : exit = {code}) /\ case = Len(dataset.cases) + 1
  BY DEF RunInv, EndInv
<1>. QED BY <1>2, <1>3

LEMMA AccountedFromInv == RunInv /\ PairedInv => EveryCaseAccounted
<1>. SUFFICES ASSUME RunInv, PairedInv PROVE EveryCaseAccounted
  OBVIOUS
<1>1. ASSUME metrics # Nil
      PROVE  Metric.scored + Metric.errored = Metric.cases /\ Metric.cases = Len(dataset.cases)
  <2>1. /\ Metric.scored = Len(scored) /\ Metric.errored = Len(failures)
        /\ Metric.cases = Len(dataset.cases)
    BY <1>1, MetricOfRun
  <2>2. Len(scored) + Len(failures) = (Len(dataset.cases) + 1) - 1
    BY <1>1, MetricOfRun DEF RunInv, CasesInv
  <2>3. Len(dataset.cases) \in Nat
    BY CasesAreListed DEF RunInv, CasesInv
  <2>. QED BY <2>1, <2>2, <2>3
<1>2. ASSUME NEW k \in 1 .. case - 1, k \notin Range(failures)
      PROVE  /\ k - Cardinality({i \in DOMAIN failures : failures[i] < k}) \in DOMAIN scored
             /\ scored[k - Cardinality({i \in DOMAIN failures : failures[i] < k})].expected
                  \in ExpectedOf(k)
  <2>1. InTurn(dataset, scored, failures, k)
    BY <1>2, Zenon DEF PairedInv
  <2>. QED BY <2>1 DEF InTurn, Before, ExpectedOf
<1>3. /\ Len(scored) + Len(failures) = case - 1
      /\ \A i, k \in DOMAIN failures : i < k => failures[i] < failures[k]
      /\ \A i \in DOMAIN failures : failures[i] \in 1 .. case - 1
  BY DEF RunInv, CasesInv
<1>. QED BY <1>1, <1>2, <1>3, Zenon DEF EveryCaseAccounted

\* Whatever the dataset and the answers, every case is scored or failed, never both
\* and never neither, and is scored in its turn against what it expects.
THEOREM CasesAccounted == Spec => []EveryCaseAccounted
BY AccountedFromInv, PairedInvariance, PTL

LEMMA GateFromInv == RunInv => GateHolds
<1>. SUFFICES ASSUME RunInv, NEW g \in gate, exit = {ExitOK}
              PROVE  /\ Len(scored) + Len(failures) = Len(dataset.cases)
                     /\ g.kind # "text"
                     /\ \E a \in Metric.accuracy :
                          g.kind = "number" => a.sum * Unit >= g.at * a.of
  BY Zenon DEF GateHolds
<1>1. metrics # Nil
  BY DEF RunInv, EndInv
<1>2. /\ Metric.cases = Len(dataset.cases)
      /\ Metric.accuracy = IF Len(scored) = 0 THEN Nil
                           ELSE {[sum |-> RightOnes(scored), of |-> Len(scored)]}
  BY <1>1, MetricOfRun
<1>3. Len(scored) + Len(failures) = Len(dataset.cases)
  <2>1. Len(scored) + Len(failures) = (Len(dataset.cases) + 1) - 1
    BY <1>1, MetricOfRun DEF RunInv, CasesInv
  <2>2. Len(dataset.cases) \in Nat
    BY CasesAreListed DEF RunInv, CasesInv
  <2>. QED BY <2>1, <2>2
<1>4. ApplyGate(Metric) = 0
  <2>1. PICK code \in Verdicts(Metric) : exit = {code}
    BY <1>1, MetricOfRun
  <2>2. code = 0
    BY <2>1 DEF ExitOK
  <2>3. ExitCodeFor("unclassified") = 1
    BY DEF ExitCodeFor
  <2>. QED BY <2>1, <2>2, <2>3 DEF Verdicts
<1>5. g.kind # "text" /\ Metric.accuracy # Nil /\ ~BelowGate(Metric)
  BY <1>4 DEF ApplyGate, ExitBadInput, ExitEvalGate, Nil
<1>6. PICK a \in Metric.accuracy : a = [sum |-> RightOnes(scored), of |-> Len(scored)]
  BY <1>2, <1>5
<1>7. g.kind = "number" => a.sum * Unit >= g.at * a.of
  <2>1. a.sum \in Nat /\ a.of \in Nat /\ Unit \in Nat
    BY <1>6, RightOnesNumber, UnitAssumption DEF RunInv, CasesInv
  <2>2. g.kind = "number" => g.at \in Int
    BY InputsAssumption DEF RunInv, CasesInv
  <2>3. g.kind = "number" => ~(a.sum * Unit < g.at * a.of)
    BY <1>5, Zenon DEF BelowGate
  <2>. QED BY <2>1, <2>2, <2>3
<1>. QED BY <1>3, <1>5, <1>7

\* Whatever is measured, a gated command succeeds only on an accuracy that was
\* measured over the whole run and is no lower than the gate's number.
THEOREM GateIsSound == Spec => []GateHolds
BY GateFromInv, RunInvariance, PTL

---------------------------------------------------------------------------
LEMMA TypesFromInv == RunInv /\ ScoredInv => TypeOK
<1>. SUFFICES ASSUME RunInv, ScoredInv PROVE TypeOK
  OBVIOUS
<1>1. case \in 1 .. Len(dataset.cases) + 1
  BY CasesAreListed DEF RunInv, CasesInv
<1>2. pc = "done" <=> exit # Nil
  BY DEF RunInv, EndInv
<1>3. exit \in Ptr({ExitOK, ExitCodeFor("unclassified"), ExitBadInput, ExitConfig,
                     ExitTimeout, ExitEvalGate})
  BY DEF RunInv, EndInv, Codes
<1>4. ASSUME NEW i \in DOMAIN scored
      PROVE  \E k \in 1 .. case - 1 :
               \A q \in ResolveQuestion(dataset.cases[k], dataset.question) :
                 {scored[i].expected.label, scored[i].predicted} \subseteq
                    IF Lower(q.type) = "noul" THEN {"true", "false"} ELSE NamesOf(q)
  <2>1. PICK k \in 1 .. case - 1 : OfCase(dataset, scored[i], k)
    BY Zenon DEF ScoredInv, AllScored
  <2>. QED BY <2>1, Zenon DEF OfCase, Labels
<1>5. /\ dataset \in DataSets /\ rule \in Rules /\ gate \in Gates
      /\ ctx \in {"live", "interrupted"} /\ pc \in {"loading", "running", "deciding", "done"}
  BY DEF RunInv, CasesInv
<1>. QED BY <1>1, <1>2, <1>3, <1>4, <1>5, Zenon DEF TypeOK

\* Whatever the dataset and the answers, what was expected and predicted of a
\* scored case are labels that the question of a case the run has been through can
\* produce, and a command that has ended has an exit code.
THEOREM LabelsAreProducible == Spec => []TypeOK
BY TypesFromInv, ScoredInvariance, PTL

---------------------------------------------------------------------------
\* The scored cases are a list, each scored well.
LEMMA ScoredIsWell ==
    ASSUME RunInv, ScoredInv
    PROVE  WellList(scored)
<1>1. IsList(scored)
  BY DEF RunInv, CasesInv
<1>2. AllScored(dataset, scored, case - 1)
  BY DEF ScoredInv
<1>. QED BY <1>1, <1>2, Zenon DEF WellList, AllScored

\* There are metrics: of nothing, or of what was scored.
LEMMA MetricIs ==
    ASSUME RunInv, metrics # Nil
    PROVE  /\ Len(scored) = 0 => Metric = NoMetrics(Len(dataset.cases), Len(failures))
           /\ Len(scored) # 0 => Reports(Metric, scored, scoreType)
<1>1. Metric = ComputeMetrics(scored, Len(dataset.cases), Len(failures), scoreType)
  BY DEF RunInv, EndInv, Metric
<1>2. ASSUME Len(scored) = 0
      PROVE  ComputeMetrics(scored, Len(dataset.cases), Len(failures), scoreType)
               = NoMetrics(Len(dataset.cases), Len(failures))
  BY <1>2, Zenon DEF ComputeMetrics
<1>3. ASSUME Len(scored) # 0 PROVE Reports(Metric, scored, scoreType)
  BY <1>1, <1>3, Measured
<1>. QED BY <1>1, <1>2, <1>3, Zenon

LEMMA PercentilesFromInv == RunInv /\ ScoredInv => PercentilesObserved
<1>. SUFFICES ASSUME RunInv, ScoredInv, metrics # Nil, Metric.scored > 0
              PROVE  PercentilesObserved
  BY Zenon DEF PercentilesObserved
<1>. DEFINE l == Metric.latency
            m == Metric
<1>1. Metric.scored = Len(scored) /\ WellList(scored) /\ Len(scored) # 0
  BY MetricOfRun, ScoredIsWell
<1>2. Reports(m, scored, scoreType)
  BY <1>1, MetricIs
<1>. HIDE DEF m
<1>3. m.latency = [count |-> Len(scored), p50 |-> Percentile(scored, 50),
                   p95 |-> Percentile(scored, 95), max |-> Percentile(scored, 100)]
  BY <1>2, Zenon DEF Reports
<1>4. l = m.latency
  BY Zenon DEF m
<1>. HIDE DEF l
<1>5. /\ l.count = Len(scored) /\ l.p50 = Percentile(scored, 50)
      /\ l.p95 = Percentile(scored, 95) /\ l.max = Percentile(scored, 100)
  BY <1>3, <1>4
<1>6. /\ {l.p50, l.p95, l.max} \subseteq Seen(scored)
      /\ 2 * NoLonger(scored, l.p50) >= l.count
      /\ 100 * NoLonger(scored, l.p95) >= 95 * l.count
      /\ \A v \in Seen(scored) : /\ v < l.p50 => 2 * NoLonger(scored, v) < l.count
                                 /\ v < l.p95 => 100 * NoLonger(scored, v) < 95 * l.count
      /\ l.p50 <= l.p95 /\ l.p95 <= l.max /\ NoLonger(scored, l.max) = l.count
  BY <1>1, <1>5, PercentilesFit
<1>. DEFINE atMost(v) == Count(scored, LAMBDA c : c.latency <= v)
            seen == {scored[i].latency : i \in DOMAIN scored}
<1>7. seen = Seen(scored) /\ \A v : atMost(v) = NoLonger(scored, v)
  BY DEF Count, NoLonger, Seen
<1>. HIDE DEF atMost, seen
<1>8. /\ {l.p50, l.p95, l.max} \subseteq seen
      /\ 2 * atMost(l.p50) >= l.count /\ 100 * atMost(l.p95) >= 95 * l.count
      /\ \A v \in seen : /\ v < l.p50 => 2 * atMost(v) < l.count
                         /\ v < l.p95 => 100 * atMost(v) < 95 * l.count
      /\ l.p50 <= l.p95 /\ l.p95 <= l.max /\ atMost(l.max) = l.count
  <2>1. /\ atMost(l.p50) = NoLonger(scored, l.p50) /\ atMost(l.p95) = NoLonger(scored, l.p95)
        /\ atMost(l.max) = NoLonger(scored, l.max)
    BY <1>7, Zenon
  <2>2. ASSUME NEW v \in seen
        PROVE  /\ v < l.p50 => 2 * atMost(v) < l.count
               /\ v < l.p95 => 100 * atMost(v) < 95 * l.count
    <3>1. v \in Seen(scored) /\ atMost(v) = NoLonger(scored, v)
      BY <1>7, <2>2, Zenon
    <3>2. /\ v < l.p50 => 2 * NoLonger(scored, v) < l.count
          /\ v < l.p95 => 100 * NoLonger(scored, v) < 95 * l.count
      BY <1>6, <3>1
    <3>. QED BY <3>1, <3>2, Zenon
  <2>3. {l.p50, l.p95, l.max} \subseteq seen
    BY <1>6, <1>7
  <2>. QED BY <1>6, <2>1, <2>2, <2>3, Zenon
<1>. QED BY <1>8, Zenon DEF PercentilesObserved, l, atMost, seen

\* Whatever was scored, a reported percentile is the least latency observed that
\* enough of the calls did not exceed.
THEOREM PercentilesAreObserved == Spec => []PercentilesObserved
BY PercentilesFromInv, ScoredInvariance, PTL

---------------------------------------------------------------------------
\* Nothing to count comes to nothing.
LEMMA NothingCounted == SumFunction(<<>>) = 0
<1>1. DOMAIN <<>> = {}
  OBVIOUS
<1>. QED BY <1>1, SumOfNone DEF SumFunction

LEMMA Unmeasured ==
    ASSUME NEW total, NEW errored, NEW m, m = NoMetrics(total, errored)
    PROVE  /\ m.confusion = <<>> /\ m.scored = 0 /\ m.accuracy = {} /\ m.brier = {}
           /\ m.mae = {} /\ m.calibration = <<>>
           /\ m.accuracyWhy = "nothing scored" /\ m.maeWhy = "nothing scored"
           /\ m.distributionWhy = "nothing scored"
BY DEF NoMetrics, Nil

LEMMA CountsFromInv == RunInv /\ ScoredInv => CountsAgree
<1>. SUFFICES ASSUME RunInv, ScoredInv, metrics # Nil PROVE CountsAgree
  BY Zenon DEF CountsAgree
<1>. DEFINE m == Metric
            diagonal == [p \in {q \in DOMAIN m.confusion : q[1] = q[2]} |-> m.confusion[p]]
            told == \A i \in DOMAIN scored : \A d \in scored[i].distribution :
                      d[scored[i].expected.label] = Unit
<1>. HIDE DEF told
<1>1. /\ Len(scored) # 0 => Reports(m, scored, scoreType)
      /\ Len(scored) = 0 => m = NoMetrics(Len(dataset.cases), Len(failures))
      /\ WellList(scored)
  BY MetricIs, ScoredIsWell
<1>. HIDE DEF m
<1>2. /\ SumFunction(m.confusion) = m.scored
      /\ \A a \in m.accuracy : SumFunction(diagonal) = a.sum
      /\ \A b \in m.brier : /\ 0 <= b.sum /\ b.sum <= 2 * Unit * Unit * b.of
                            /\ b.sum = 0 <=> told
  <2>1. CASE Len(scored) = 0
    <3>1. m.confusion = <<>> /\ m.scored = 0 /\ m.accuracy = {} /\ m.brier = {}
      BY <1>1, <2>1, Unmeasured
    <3>. QED BY <3>1, NothingCounted
  <2>2. CASE Len(scored) # 0
    <3>1. /\ m.scored = Len(scored)
          /\ m.accuracy = {[sum |-> RightOnes(scored), of |-> Len(scored)]}
          /\ m.confusion = Confusion(scored)
      BY <1>1, <2>2, Zenon DEF Reports
    <3>2. m.brier = IF AllDistributions(scored)
                    THEN {[sum |-> SumFunctionOnSet([i \in DOMAIN scored |-> CaseBrier(scored[i])],
                                                    DOMAIN scored),
                           of |-> Len(scored)]}
                    ELSE Nil
      BY <1>1, <2>2, Zenon DEF Reports
    <3>3. SumFunction(m.confusion) = Len(scored) /\ SumFunction(diagonal) = RightOnes(scored)
      BY <1>1, <3>1, ConfusionFits
    <3>4. \A a \in m.accuracy : SumFunction(diagonal) = a.sum
      <4>. DEFINE d == SumFunction(diagonal)
                  r == RightOnes(scored)
      <4>1. d = r /\ m.accuracy = {[sum |-> r, of |-> Len(scored)]}
        BY <3>1, <3>3
      <4>. HIDE DEF d, r
      <4>2. \A a \in m.accuracy : d = a.sum
        BY ONLY <4>1
      <4>. QED BY <4>2 DEF d
    <3>5. ASSUME NEW b \in m.brier
          PROVE  /\ 0 <= b.sum /\ b.sum <= 2 * Unit * Unit * b.of
                 /\ b.sum = 0 <=> told
      <4>. DEFINE f == [i \in DOMAIN scored |-> CaseBrier(scored[i])]
                  sum == SumFunctionOnSet(f, DOMAIN scored)
      <4>1. AllDistributions(scored)
        BY <3>2, <3>5, Zenon DEF Nil
      <4>2. b = [sum |-> sum, of |-> Len(scored)]
        BY <3>2, <3>5, <4>1, Zenon
      <4>3. /\ 0 <= sum /\ sum <= 2 * Unit * Unit * Len(scored)
            /\ sum = 0 <=> told
        <5>1. f = [i \in DOMAIN scored |-> CaseBrier(scored[i])]
              /\ sum = SumFunctionOnSet(f, DOMAIN scored)
          OBVIOUS
        <5>. HIDE DEF f, sum
        <5>. QED BY <1>1, <4>1, <5>1, BrierFits DEF told
      <4>. HIDE DEF sum
      <4>4. b.sum = sum /\ b.of = Len(scored)
        BY ONLY <4>2
      <4>. QED BY <4>3, <4>4, Zenon
    <3>. QED BY <3>1, <3>3, <3>4, <3>5
  <2>. QED BY <2>1, <2>2
<1>. QED BY <1>2, Zenon DEF CountsAgree, m, told

\* Whatever was scored, the confusion counts are of every scored case, their
\* diagonal is the accuracy, and the Brier sum is 0 exactly when every case gave
\* all of its probability to what was expected, and never more than 2 a case.
THEOREM CountsAreTheSame == Spec => []CountsAgree
BY CountsFromInv, ScoredInvariance, PTL

---------------------------------------------------------------------------
LEMMA PopulationFromInv == RunInv /\ ScoredInv => OnePopulation
<1>. SUFFICES ASSUME RunInv, ScoredInv, metrics # Nil PROVE OnePopulation
  BY Zenon DEF OnePopulation
<1>. DEFINE m == Metric
            count == [k \in DOMAIN m.calibration |-> m.calibration[k].count]
            correct == [k \in DOMAIN m.calibration |-> m.calibration[k].correct]
<1>1. /\ Len(scored) # 0 => Reports(m, scored, scoreType)
      /\ Len(scored) = 0 => m = NoMetrics(Len(dataset.cases), Len(failures))
      /\ WellList(scored)
  BY MetricIs, ScoredIsWell
<1>. HIDE DEF m
<1>2. /\ m.accuracy = Nil <=> m.accuracyWhy # ""
      /\ m.mae = Nil <=> m.maeWhy # ""
      /\ m.brier = Nil <=> m.distributionWhy # ""
      /\ m.calibration = <<>> <=> m.brier = Nil
      /\ \A b \in m.brier, a \in m.accuracy :
           /\ b.of = a.of /\ SumFunction(count) = a.of /\ SumFunction(correct) = a.sum
  <2>1. CASE Len(scored) = 0
    <3>1. /\ m.accuracy = {} /\ m.accuracyWhy = "nothing scored"
          /\ m.mae = {} /\ m.maeWhy = "nothing scored"
          /\ m.brier = {} /\ m.distributionWhy = "nothing scored" /\ m.calibration = <<>>
      BY <1>1, <2>1, Unmeasured, ZenonT(60)
    <3>. QED BY <3>1 DEF Nil
  <2>2. CASE Len(scored) # 0
    <3>. DEFINE sum == SumFunctionOnSet([i \in DOMAIN scored |-> CaseBrier(scored[i])],
                                        DOMAIN scored)
                one == [sum |-> RightOnes(scored), of |-> Len(scored)]
    <3>1. m.accuracyWhy = "" /\ m.accuracy = {one}
      BY <1>1, <2>2, Zenon DEF Reports
    <3>2. /\ m.brier = IF AllDistributions(scored)
                       THEN {[sum |-> sum, of |-> Len(scored)]} ELSE Nil
          /\ m.calibration = IF AllDistributions(scored) THEN Calibration(scored) ELSE <<>>
          /\ m.distributionWhy = IF AllDistributions(scored) THEN "" ELSE "missing"
      BY <1>1, <2>2, Zenon DEF Reports
    <3>3. /\ m.mae = Nil <=> ~(scoreType /\ Cardinality(Rated(scored)) > 0)
          /\ m.maeWhy = IF ~scoreType THEN "not a score"
                        ELSE IF Cardinality(Rated(scored)) = 0 THEN "no score" ELSE ""
      BY <1>1, <2>2, Zenon DEF Reports
    <3>. HIDE DEF sum
    <3>4. m.accuracy # Nil
      BY <3>1 DEF Nil
    <3>5. m.mae = Nil <=> m.maeWhy # ""
      <4>1. Cardinality(Rated(scored)) \in Nat
        <5>1. Rated(scored) \subseteq DOMAIN scored
          BY DEF Rated
        <5>. QED BY <1>1, <5>1, CountFits DEF WellList
      <4>. DEFINE rated == Cardinality(Rated(scored))
      <4>2. /\ m.mae = Nil <=> ~(scoreType /\ rated > 0)
            /\ m.maeWhy = IF ~scoreType THEN "not a score"
                          ELSE IF rated = 0 THEN "no score" ELSE ""
        BY <3>3
      <4>. HIDE DEF rated
      <4>3. rated > 0 <=> rated # 0
        BY <4>1 DEF rated
      <4>4. m.maeWhy # "" <=> ~(scoreType /\ rated # 0)
        BY <4>2
      <4>. QED BY <4>2, <4>3, <4>4, Zenon
    <3>6. CASE AllDistributions(scored)
      <4>1. m.brier = {[sum |-> sum, of |-> Len(scored)]} /\ m.distributionWhy = ""
            /\ m.calibration = Calibration(scored)
        BY <3>2, <3>6, Zenon
      <4>2. /\ SumFunction(count) = Len(scored) /\ SumFunction(correct) = RightOnes(scored)
            /\ DOMAIN m.calibration # {}
        BY <1>1, <2>2, <3>6, <4>1, CalibrationFits, Zenon
      <4>. HIDE DEF count, correct
      <4>3. m.calibration # <<>> /\ m.brier # Nil
        <5>1. DOMAIN <<>> = {}
          OBVIOUS
        <5>2. m.calibration # <<>>
          BY <4>2, <5>1, Zenon
        <5>3. m.brier # {}
          BY <4>1
        <5>. QED BY <5>2, <5>3 DEF Nil
      <4>4. ASSUME NEW b \in m.brier, NEW a \in m.accuracy
            PROVE  b.of = a.of /\ SumFunction(count) = a.of /\ SumFunction(correct) = a.sum
        <5>1. b = [sum |-> sum, of |-> Len(scored)]
          BY <4>1, <4>4, Zenon
        <5>2. a = one
          BY <3>1, <4>4, Zenon
        <5>3. b.of = Len(scored)
          BY ONLY <5>1
        <5>4. a.of = Len(scored) /\ a.sum = RightOnes(scored)
          BY ONLY <5>2
        <5>. QED BY <4>2, <5>3, <5>4, Zenon
      <4>. QED BY <3>1, <3>4, <3>5, <4>1, <4>3, <4>4, Zenon
    <3>7. CASE ~AllDistributions(scored)
      <4>1. m.brier = {} /\ m.distributionWhy = "missing" /\ m.calibration = <<>>
        BY <3>2, <3>7 DEF Nil
      <4>. HIDE DEF count, correct
      <4>. QED BY <3>1, <3>4, <3>5, <4>1 DEF Nil
    <3>. QED BY <3>6, <3>7
  <2>. QED BY <2>1, <2>2
<1>. QED BY <1>2, Zenon DEF OnePopulation, m

\* Whatever was scored, a metric is absent exactly when a reason is given, and the
\* metrics that need a distribution are of the very cases accuracy is of.
THEOREM PopulationsAgree == Spec => []OnePopulation
BY PopulationFromInv, ScoredInvariance, PTL
=============================================================================
