--------------------------- MODULE DecisionProofs ---------------------------
(***************************************************************************)
(* Proofs about the decision engine: for every set of submissions, bodies  *)
(* and limits, what its receipts and judgments promise, and that they grow *)
(* as AuditTrail says; and what its consumers make of them: a reader of    *)
(* stored receipts, and the policy of the dogfood example whatever its     *)
(* thresholds.                                                             *)
(***************************************************************************)
EXTENDS Dogfood, JudgmentProofs, FiniteSetTheorems

\* Ranks number a finite set of ids from 1, without repetition.
LEMMA RankBounds ==
    ASSUME NEW ids \in SUBSET Nat, IsFiniteSet(ids), NEW id \in ids
    PROVE  Rank(id, ids) \in 1 .. Cardinality(ids)
<1>. DEFINE below == {k \in ids : k <= id}
<1>1. below \subseteq ids /\ id \in below
  OBVIOUS
<1>2. IsFiniteSet(below) /\ Cardinality(below) <= Cardinality(ids)
  BY <1>1, FS_Subset
<1>3. Cardinality(below) \in Nat /\ Cardinality(ids) \in Nat /\ Cardinality(below) # 0
  BY <1>1, <1>2, FS_CardinalityType, FS_EmptySet
<1>. QED BY <1>2, <1>3 DEF Rank

\* A smaller id has a smaller rank.
LEMMA RankOrders ==
    ASSUME NEW ids \in SUBSET Nat, IsFiniteSet(ids), NEW i \in ids, NEW k \in ids, i < k
    PROVE  Rank(i, ids) < Rank(k, ids)
<1>. DEFINE low  == {m \in ids : m <= i}
            high == {m \in ids : m <= k}
<1>1. k <= k /\ ~(k <= i) /\ \A m \in ids : m <= i => m <= k
  <2>1. i \in Nat /\ k \in Nat /\ \A m \in ids : m \in Nat
    OBVIOUS
  <2>. QED BY <2>1
<1>2. low \subseteq high /\ k \in high /\ k \notin low /\ high \subseteq ids
  BY <1>1, Zenon
<1>3. IsFiniteSet(high)
  BY <1>2, FS_Subset
<1>4. /\ IsFiniteSet(low) /\ Cardinality(low) <= Cardinality(high)
      /\ Cardinality(low) = Cardinality(high) => low = high
  BY <1>2, <1>3, FS_Subset
<1>5. Cardinality(low) \in Nat /\ Cardinality(high) \in Nat
  BY <1>3, <1>4, FS_CardinalityType
<1>6. Cardinality(low) < Cardinality(high)
  BY <1>2, <1>4, <1>5
<1>. QED BY <1>6 DEF Rank

\* No two ids have the same rank.
LEMMA RankInjective ==
    ASSUME NEW ids \in SUBSET Nat, IsFiniteSet(ids), NEW i \in ids, NEW k \in ids,
           Rank(i, ids) = Rank(k, ids)
    PROVE  i = k
<1>1. Rank(i, ids) \in Int /\ Rank(k, ids) \in Int
  BY RankBounds, FS_CardinalityType
<1>2. ~(i < k) /\ ~(k < i)
  BY <1>1, RankOrders
<1>. QED BY <1>2

\* A log grows by one call at its end.
LEMMA AppendGrows ==
    ASSUME NEW S, NEW s \in Seq(S), NEW e
    PROVE  /\ Append(s, e) \in Seq(S \cup {e})
           /\ Len(Append(s, e)) = Len(s) + 1 /\ Len(s) \in Nat
           /\ DOMAIN s = 1 .. Len(s) /\ DOMAIN Append(s, e) = 1 .. Len(s) + 1
           /\ \A i \in 1 .. Len(s) : Append(s, e)[i] = s[i]
           /\ Append(s, e)[Len(s) + 1] = e
OBVIOUS

---------------------------------------------------------------------------
\* Build makes one receipt for each question, numbered from the identifier
\* after the last one issued.
LEMMA BuildReceipts ==
    ASSUME NEW r, DOMAIN r.questions \subseteq Nat, IsFiniteSet(DOMAIN r.questions),
           NEW J, issued \in Nat
    PROVE  /\ Cardinality(Build(r, J)) = Cardinality(DOMAIN r.questions)
           /\ {x.question : x \in Build(r, J)} = DOMAIN r.questions
           /\ \A x \in Build(r, J) :
                x.batch = batch
                /\ x.decision \in issued + 1 .. issued + Cardinality(DOMAIN r.questions)
           /\ \A x, y \in Build(r, J) : x.decision = y.decision => x = y
<1>. DEFINE ids == DOMAIN r.questions
            of(id) == Receipt(r, J, id, DecisionId(issued, id, ids))
            f == [id \in ids |-> of(id)]
<1>1. Build(r, J) = {of(id) : id \in ids}
  BY DEF Build, Receipted
<1>2. \A id \in ids : /\ of(id).question = id /\ of(id).batch = batch
                       /\ of(id).decision = issued + Rank(id, ids)
  BY DEF Receipt, DecisionId
<1>3. Cardinality(ids) \in Nat
  BY FS_CardinalityType
<1>4. \A id \in ids : Rank(id, ids) \in 1 .. Cardinality(ids)
  BY RankBounds
<1>5. \A i, k \in ids : Rank(i, ids) = Rank(k, ids) => i = k
  BY RankInjective
<1>. HIDE DEF of
<1>6. f \in Bijection(ids, Build(r, J))
  BY <1>1, <1>2 DEF Bijection, Injection, Surjection, IsInjective
<1>7. Cardinality(Build(r, J)) = Cardinality(ids)
  BY <1>6, FS_Bijection DEF ExistsBijection
<1>8. {x.question : x \in Build(r, J)} = ids
  BY <1>1, <1>2
<1>9. \A x \in Build(r, J) :
        x.batch = batch /\ x.decision \in issued + 1 .. issued + Cardinality(ids)
  BY <1>1, <1>2, <1>3, <1>4
<1>10. \A x, y \in Build(r, J) : x.decision = y.decision => x = y
  BY <1>1, <1>2, <1>3, <1>4, <1>5
<1>. QED BY <1>7, <1>8, <1>9, <1>10

---------------------------------------------------------------------------
\* The log is a sequence of calls that have returned, and a call under way is
\* one of a request that was let through.
CallInv ==
    /\ log \in Seq(Calls) /\ Len(log) <= MaxCalls
    /\ pc \in {"idle", "calling"}
    /\ pc = "calling" => /\ req \in Submissions /\ Len(log) < MaxCalls
                         /\ ValidRequest(req) /\ asked = Lowered(req)

\* Every identifier in the log has been issued, and the batch under way was
\* issued after all of them.
IssuedInv ==
    /\ issued \in Nat
    /\ issued <= Len(log) * (MaxQuestions + 1) + (IF pc = "calling" THEN 1 ELSE 0)
    /\ pc = "calling" => batch = issued /\ batch # 0
    /\ \A c \in Calls : c.batch \in 0 .. issued
    /\ \A r \in AllReceipts : r.batch \in 1 .. issued /\ r.decision \in 1 .. issued
    /\ pc = "calling" => /\ \A c \in Calls : c.batch < batch
                         /\ \A r \in AllReceipts : r.batch < batch /\ r.decision < batch

\* What escalation leaves of a judgment, or of one that was never made: it
\* escalates exactly when a threshold of its rule is not met.
Settled(j, rule) ==
    /\ j.outcome \in Outcomes /\ j.reason \in Reasons
    /\ j.escalate <=> j.outcome = "LOW_CONFIDENCE"
    /\ j.escalate <=> j.reason # ""
    /\ j.escalate => ~Meets(rule.confidence, j.confidence) \/ ~Meets(rule.margin, j.margin)
    /\ j.outcome = "ACCEPTABLE_CONFIDENCE" => /\ Meets(rule.confidence, j.confidence)
                                              /\ Meets(rule.margin, j.margin)

\* The judgments J a call for r returned with the error err: about r's questions,
\* in their words, and settled by r's rules.
Fit(r, err, J) ==
    /\ DOMAIN J \subseteq DOMAIN r.questions
    /\ \A id \in DOMAIN J : /\ InWordsOf(J[id], r.questions[id].type)
                            /\ Settled(J[id], RuleFor(r, id))
                            /\ Pointed(J[id])
    /\ err # "" => J = FailureJudgments(r, err)

JudgmentsInv ==
    /\ \A c \in Contacted : ValidRequest(c.req) /\ Fit(c.req, c.err, c.judgments)
    /\ \A c \in Calls \ Contacted : c.judgments = <<>> /\ c.receipts = {}

Inv == CallInv /\ IssuedInv /\ JudgmentsInv /\ EveryQuestionReceipted /\ IdentifiersUnique

\* No call has been made yet.
LEMMA InitInv == Init => Inv
<1>. SUFFICES ASSUME Init PROVE Inv
  OBVIOUS
<1>1. log = <<>> /\ issued = 0 /\ pc = "idle" /\ Calls = {} /\ AllReceipts = {} /\ Contacted = {}
  BY DEF Init, Calls, AllReceipts, Contacted
<1>2. CallInv /\ IssuedInv /\ JudgmentsInv
  BY <1>1, MaxCallsAssumption, LimitsAssumption DEF CallInv, IssuedInv, JudgmentsInv
<1>3. EveryQuestionReceipted /\ IdentifiersUnique
  BY <1>1 DEF EveryQuestionReceipted, IdentifiersUnique
<1>. QED BY <1>2, <1>3 DEF Inv

\* How the views of the log change when a call is appended to it.
LEMMA LogGrows ==
    ASSUME log \in Seq(Calls), NEW e, log' = Append(log, e)
    PROVE  /\ Calls' = Calls \cup {e} /\ log' \in Seq(Calls')
           /\ AllReceipts' = AllReceipts \cup e.receipts
           /\ Contacted' = Contacted \cup (IF e.batch # 0 THEN {e} ELSE {})
           /\ Len(log') = Len(log) + 1 /\ Len(log) \in Nat
           /\ DOMAIN log = 1 .. Len(log) /\ DOMAIN log' = 1 .. Len(log) + 1
           /\ \A i \in 1 .. Len(log) : log'[i] = log[i]
           /\ log'[Len(log) + 1] = e
<1>1. /\ Append(log, e) \in Seq(Calls \cup {e})
      /\ Len(Append(log, e)) = Len(log) + 1 /\ Len(log) \in Nat
      /\ DOMAIN log = 1 .. Len(log) /\ DOMAIN Append(log, e) = 1 .. Len(log) + 1
      /\ \A i \in 1 .. Len(log) : Append(log, e)[i] = log[i]
      /\ Append(log, e)[Len(log) + 1] = e
  BY AppendGrows
<1>2. Calls' = Calls \cup {e}
  BY <1>1 DEF Calls
<1>3. AllReceipts' = AllReceipts \cup e.receipts
  BY <1>2 DEF AllReceipts
<1>4. Contacted' = Contacted \cup (IF e.batch # 0 THEN {e} ELSE {})
  BY <1>2 DEF Contacted
<1>. QED BY <1>1, <1>2, <1>3, <1>4

\* A call that returns from the provider keeps the invariant, on either path.
LEMMA FinishInv ==
    ASSUME Inv, pc = "calling", NEW err, NEW J, Fit(req, err, J), Finish(err, J)
    PROVE  Inv'
<1>. DEFINE ids == DOMAIN req.questions
            R == Build(req, J)
            n == Cardinality(ids)
            e == [req |-> req, err |-> err, batch |-> batch, judgments |-> J, receipts |-> R]
<1>1. /\ req \in Submissions /\ n \in 1 .. MaxQuestions /\ Len(log) < MaxCalls
      /\ issued \in Nat /\ batch = issued /\ batch # 0 /\ log \in Seq(Calls)
  BY DEF Inv, CallInv, IssuedInv, ValidRequest
<1>2. ids \subseteq Nat /\ IsFiniteSet(ids)
  BY <1>1, SubmissionsAssumption
<1>3. /\ Cardinality(R) = n /\ {x.question : x \in R} = ids
      /\ \A x \in R : x.batch = batch /\ x.decision \in issued + 1 .. issued + n
      /\ \A x, y \in R : x.decision = y.decision => x = y
  BY <1>1, <1>2, BuildReceipts
<1>4. /\ log' = Append(log, e) /\ issued' = issued + n /\ pc' = "idle"
      /\ UNCHANGED <<req, asked, batch, ctx, answer>>
  BY <1>3 DEF Finish
<1>5. /\ Calls' = Calls \cup {e} /\ log' \in Seq(Calls')
      /\ AllReceipts' = AllReceipts \cup R
      /\ Contacted' = Contacted \cup {e}
      /\ Len(log') = Len(log) + 1 /\ Len(log) \in Nat
      /\ DOMAIN log = 1 .. Len(log) /\ DOMAIN log' = 1 .. Len(log) + 1
      /\ \A i \in 1 .. Len(log) : log'[i] = log[i]
      /\ log'[Len(log) + 1] = e
  BY <1>1, <1>4, LogGrows
<1>6. e.batch = batch /\ e.judgments = J /\ e.receipts = R /\ e.req = req
  OBVIOUS
<1>. HIDE DEF e, R, n
<1>a. n \in Nat /\ issued' \in Nat /\ issued <= issued' /\ issued' = issued + n
  BY <1>1, <1>4, LimitsAssumption
<1>b. \A c \in Calls : c.batch \in Int /\ 0 <= c.batch /\ c.batch < batch
  <2>1. \A c \in Calls : c.batch \in 0 .. issued /\ c.batch < batch
    BY Zenon DEF Inv, IssuedInv
  <2>. QED BY <1>1, <2>1
<1>c. \A r \in AllReceipts :
        /\ r.batch \in Int /\ 1 <= r.batch /\ r.batch < batch
        /\ r.decision \in Int /\ 1 <= r.decision /\ r.decision < batch
  <2>1. \A r \in AllReceipts :
          /\ r.batch \in 1 .. issued /\ r.decision \in 1 .. issued
          /\ r.batch < batch /\ r.decision < batch
    BY Zenon DEF Inv, IssuedInv
  <2>. QED BY <1>1, <2>1
<1>d. \A x \in R : /\ x.batch = batch
                   /\ x.decision \in Int /\ batch < x.decision /\ x.decision <= issued'
  BY <1>1, <1>3, <1>a
<1>7. CallInv'
  BY <1>1, <1>4, <1>5, MaxCallsAssumption DEF CallInv
<1>8. IssuedInv'
  <2>1. issued' \in Nat /\ issued' <= Len(log') * (MaxQuestions + 1)
    <3>1. issued <= Len(log) * (MaxQuestions + 1) + 1
      BY DEF Inv, IssuedInv
    <3>2. (Len(log) + 1) * (MaxQuestions + 1) = Len(log) * (MaxQuestions + 1) + MaxQuestions + 1
      BY <1>5, LimitsAssumption
    <3>3. Len(log) * (MaxQuestions + 1) \in Int /\ n <= MaxQuestions
      BY <1>1, <1>5, LimitsAssumption
    <3>. DEFINE wide == Len(log) * (MaxQuestions + 1)
    <3>4. Len(log') * (MaxQuestions + 1) = wide + MaxQuestions + 1
      BY <1>5, <3>2
    <3>. HIDE DEF wide
    <3>5. issued + n <= wide + MaxQuestions + 1
      <4>1. wide \in Int /\ issued <= wide + 1 /\ MaxQuestions \in Int
        BY <3>1, <3>3, LimitsAssumption DEF wide
      <4>. QED BY <1>1, <1>a, <3>3, <4>1
    <3>. QED BY <1>a, <3>4, <3>5
  <2>2. \A c \in Calls' : c.batch \in 0 .. issued'
    BY <1>1, <1>5, <1>6, <1>a, <1>b
  <2>3. \A r \in AllReceipts' : r.batch \in 1 .. issued' /\ r.decision \in 1 .. issued'
    BY <1>1, <1>5, <1>a, <1>c, <1>d
  <2>4. pc' # "calling"
    BY <1>4
  <2>5. Len(log') * (MaxQuestions + 1) + (IF pc' = "calling" THEN 1 ELSE 0)
          = Len(log') * (MaxQuestions + 1)
    BY <1>5, <2>4, LimitsAssumption
  <2>. QED BY <2>1, <2>2, <2>3, <2>4, <2>5 DEF IssuedInv
<1>9. EveryQuestionReceipted'
  <2>1. \A r \in R : r.judgment = IF r.question \in DOMAIN J THEN J[r.question]
                         ELSE EmptyJudgment(req.questions[r.question].type, "UNAVAILABLE")
    <3>1. SUFFICES ASSUME NEW id \in ids
                   PROVE  LET r == Receipt(req, J, id, DecisionId(issued, id, ids))
                          IN  r.judgment = IF r.question \in DOMAIN J THEN J[r.question]
                                ELSE EmptyJudgment(req.questions[r.question].type, "UNAVAILABLE")
      BY DEF R, Build, Receipted
    <3>2. CASE id \in DOMAIN J
      BY <3>2, ToldTwice DEF Fit, Receipt
    <3>3. CASE id \notin DOMAIN J
      <4>. DEFINE t == req.questions[id].type
                  u == EmptyJudgment(t, "UNAVAILABLE")
      <4>1. [u EXCEPT !.type = t, !.compiledTo = CompiledTo(t)] = u
        BY EmptyFits, ToldTwice, ZenonT(60)
      <4>2. Receipt(req, J, id, DecisionId(issued, id, ids)).judgment
              = [u EXCEPT !.type = t, !.compiledTo = CompiledTo(t)]
        BY <3>3 DEF Receipt, Unanswered
      <4>3. Receipt(req, J, id, DecisionId(issued, id, ids)).question = id
        BY DEF Receipt
      <4>. HIDE DEF u
      <4>. QED BY <3>3, <4>1, <4>2, <4>3 DEF u
    <3>. QED BY <3>2, <3>3
  <2>2. /\ {r.question : r \in e.receipts} = DOMAIN e.req.questions
        /\ Cardinality(e.receipts) = Cardinality(DOMAIN e.req.questions)
        /\ \A r \in e.receipts :
             /\ r.batch = e.batch
             /\ IF r.question \in DOMAIN e.judgments
                THEN r.judgment = e.judgments[r.question]
                ELSE r.judgment = EmptyJudgment(e.req.questions[r.question].type, "UNAVAILABLE")
    BY <1>3, <1>6, <2>1 DEF n
  <2>. QED BY <1>5, <2>2 DEF EveryQuestionReceipted, Inv
<1>10. IdentifiersUnique'
  <2>1. \A r, s \in AllReceipts' : r.decision = s.decision => r = s
    <3>1. \A r \in AllReceipts, s \in R : r.decision < s.decision
      BY <1>1, <1>c, <1>d
    <3>2. \A r, s \in AllReceipts : r.decision = s.decision => r = s
      BY DEF Inv, IdentifiersUnique
    <3>3. \A r \in AllReceipts, s \in R : r.decision # s.decision
      BY <1>c, <1>d, <3>1
    <3>. QED BY <1>3, <1>5, <3>2, <3>3
  <2>2. \A i, k \in DOMAIN log' : log'[i].batch = log'[k].batch /\ log'[i].batch # 0 => i = k
    <3>1. \A i \in 1 .. Len(log) : log[i].batch < batch /\ log[i].batch \in Int
      BY <1>5, <1>b DEF Calls
    <3>2. \A i, k \in 1 .. Len(log) : log[i].batch = log[k].batch /\ log[i].batch # 0 => i = k
      BY <1>5 DEF Inv, IdentifiersUnique
    <3>. QED BY <1>1, <1>5, <1>6, <3>1, <3>2
  <2>3. \A r \in AllReceipts', c \in Contacted' : r.decision # c.batch
    <3>1. \A r \in AllReceipts : r.decision # e.batch
      BY <1>1, <1>6, <1>c
    <3>2. \A r \in R, c \in Contacted \cup {e} : r.decision # c.batch
      BY <1>1, <1>6, <1>b, <1>d DEF Contacted
    <3>3. \A r \in AllReceipts, c \in Contacted : r.decision # c.batch
      BY DEF Inv, IdentifiersUnique
    <3>. QED BY <1>5, <3>1, <3>2, <3>3
  <2>. QED BY <2>1, <2>2, <2>3 DEF IdentifiersUnique
<1>11. JudgmentsInv'
  <2>1. ValidRequest(e.req) /\ Fit(e.req, e.err, e.judgments)
    BY DEF e, Inv, CallInv
  <2>2. Calls' \ Contacted' = Calls \ Contacted
    BY <1>1, <1>5, <1>6 DEF Contacted
  <2>. QED BY <1>5, <2>1, <2>2 DEF JudgmentsInv, Inv
<1>. QED BY <1>7, <1>8, <1>9, <1>10, <1>11 DEF Inv

---------------------------------------------------------------------------
\* A verdict is empty exactly when the threshold is met.
LEMMA VerdictMeets ==
    ASSUME NEW reported, NEW threshold
    PROVE  Verdict(reported, threshold) = "" <=> Meets(threshold, reported)
BY DEF Verdict, Meets, Nil

\* What a rule makes of a judgment is settled by that rule.
LEMMA FollowingSettles ==
    ASSUME NEW e, NEW j, NEW rule, NEW t, Follows(e, j, rule, t)
    PROVE  Settled(e, rule)
<1>. DEFINE reason == Because(j, rule)
<1>1. /\ e.outcome = (IF reason = "" THEN "ACCEPTABLE_CONFIDENCE" ELSE "LOW_CONFIDENCE")
      /\ e.escalate = (reason # "") /\ e.reason = reason
      /\ e.confidence = j.confidence /\ e.margin = j.margin
  BY DEF Follows
<1>2. reason = "" <=> Meets(rule.confidence, j.confidence) /\ Meets(rule.margin, j.margin)
  BY VerdictMeets DEF Because
<1>3. reason \in Reasons
  BY DEF Because, Verdict, Reasons
<1>. HIDE DEF reason
<1>4. e.escalate <=> reason # ""
  BY <1>1
<1>5. e.outcome = "LOW_CONFIDENCE" <=> reason # ""
  BY <1>1
<1>6. e.outcome = "ACCEPTABLE_CONFIDENCE" <=> reason = ""
  BY <1>1
<1>7. e.outcome \in Outcomes /\ e.reason \in Reasons
  BY <1>1, <1>3 DEF Outcomes
<1>. QED BY <1>1, <1>2, <1>4, <1>5, <1>6, <1>7 DEF Settled

\* A judgment that was never made is settled by any rule.
LEMMA EmptySettled ==
    ASSUME NEW t, NEW o \in {"UNAVAILABLE", "ERROR"}, NEW rule
    PROVE  Settled(EmptyJudgment(t, o), rule)
BY DEF Settled, EmptyJudgment, Outcomes, Reasons

\* The judgments of a failed call fit.
LEMMA FailureFits ==
    ASSUME NEW r, NEW kind
    PROVE  Fit(r, kind, FailureJudgments(r, kind))
<1>1. FailureOutcome(kind) \in {"UNAVAILABLE", "ERROR"}
  BY DEF FailureOutcome
<1>2. /\ DOMAIN FailureJudgments(r, kind) = DOMAIN r.questions
      /\ \A id \in DOMAIN r.questions :
           FailureJudgments(r, kind)[id] = EmptyJudgment(r.questions[id].type, FailureOutcome(kind))
  BY DEF FailureJudgments
<1>. QED BY <1>1, <1>2, EmptyFits, EmptySettled, EmptyPointed DEF Fit

\* The judgments made of an accepted body fit, whichever of them are kept.
LEMMA AnswersFit ==
    ASSUME NEW r, ValidRequest(r), NEW b \in Bodies, ParseResponse(Lowered(r), b, TRUE).accepted,
           NEW kept \in SUBSET DOMAIN Lowered(r)
    PROVE  LET given == [id \in kept |-> ParseResponse(Lowered(r), b, TRUE).judgments[id]]
           IN  Fit(r, "", Escalated(r, Restored(r, given)))
<1>. DEFINE given == [id \in kept |-> ParseResponse(Lowered(r), b, TRUE).judgments[id]]
            restored == Restored(r, given)
            J == Escalated(r, restored)
<1>1. DOMAIN Lowered(r) = DOMAIN r.questions
  BY DEF Lowered
<1>2. ParseResponse(Lowered(r), b, TRUE).judgments
        = [id \in DOMAIN Lowered(r) |-> Judged(Lowered(r)[id], b.answers[id])]
  BY DEF ParseResponse, Refused
<1>3. DOMAIN J = kept
  BY DEF Escalated, Restored
<1>4. ASSUME NEW id \in kept
      PROVE  /\ InWordsOf(J[id], r.questions[id].type) /\ Settled(J[id], RuleFor(r, id))
             /\ Pointed(J[id])
  <2>. DEFINE t == r.questions[id].type
              q == Lowered(r)[id]
              j == Judged(q, b.answers[id])
              k == [j EXCEPT !.type = t, !.compiledTo = CompiledTo(t)]
  <2>1. q.type \in DecisionTypes
    <3>1. t \in DecisionTypes
      BY <1>1 DEF ValidRequest, ValidQuestion
    <3>2. q.type = Lower(t) \/ q = r.questions[id]
      BY <1>1 DEF Lowered
    <3>. QED BY <3>1, <3>2 DEF Lower, DecisionTypes
  <2>2. Fresh(j)
    BY <2>1, JudgedFresh
  <2>3. J[id] = ApplyEscalation(k, RuleFor(r, id))
    BY <1>2 DEF Escalated, Restored
  <2>p. Pointed(j)
    <3>1. AnswerFits(q, b.answers[id], TRUE) /\ id \in DOMAIN b.answers
      BY <1>1, AcceptedBody
    <3>. QED BY <2>1, <3>1, BodiesAssumption, JudgedPointed
  <2>w. j.type = "noul" <=> t = "noul"
    <3>1. j.type = q.type
      BY <2>1, JudgedSays DEF Says, Lower, DecisionTypes
    <3>2. q.type = "noul" <=> t = "noul"
      BY <1>1 DEF Lowered, Lower
    <3>. QED BY <3>1, <3>2
  <2>4. Follows(J[id], j, RuleFor(r, id), t)
    BY <2>2, <2>3, RestoredFollows
  <2>. HIDE DEF j, t, J
  <2>5. Settled(J[id], RuleFor(r, id))
    BY <2>4, FollowingSettles
  <2>6. /\ j.outcome = "ACCEPTABLE_CONFIDENCE" /\ InWordsOf(J[id], t) /\ J[id].type = t
        /\ J[id].bool = j.bool /\ J[id].margin = j.margin
    BY <2>2, <2>4 DEF Fresh, Follows, InWordsOf
  <2>7. Pointed(J[id])
    <3>1. t = "noul" => j.bool # Nil
      BY <2>p, <2>w, <2>6 DEF Pointed
    <3>. QED BY <2>p, <2>6, <3>1 DEF Pointed
  <2>. QED BY <2>5, <2>6, <2>7 DEF t
<1>. HIDE DEF J
<1>5. Fit(r, "", J)
  BY <1>1, <1>3, <1>4 DEF Fit
<1>. QED BY <1>5 DEF J

---------------------------------------------------------------------------
\* Submitting keeps the invariant, whether the request is let through or refused.
LEMMA SubmitInv ==
    ASSUME Inv, NEW r \in Submissions, Submit(r)
    PROVE  Inv'
<1>1. /\ pc = "idle" /\ Len(log) < MaxCalls /\ req' = r /\ log \in Seq(Calls)
      /\ Len(log) \in Nat /\ issued \in Nat /\ issued <= Len(log) * (MaxQuestions + 1)
  <2>1. pc = "idle" /\ Len(log) < MaxCalls /\ req' = r /\ log \in Seq(Calls)
    BY DEF Submit, Inv, CallInv
  <2>2. issued \in Nat /\ issued <= Len(log) * (MaxQuestions + 1) + 0
    BY <2>1 DEF Inv, IssuedInv
  <2>3. Len(log) * (MaxQuestions + 1) \in Int /\ Len(log) \in Nat
    BY <2>1, LimitsAssumption
  <2>. QED BY <2>1, <2>2, <2>3
<1>2. CASE ValidRequest(r)
  <2>1. /\ pc' = "calling" /\ asked' = Lowered(r) /\ batch' = issued + 1
        /\ issued' = issued + 1 /\ log' = log
    BY <1>2 DEF Submit, FreshBatch
  <2>2. Calls' = Calls /\ AllReceipts' = AllReceipts /\ Contacted' = Contacted
    BY <2>1 DEF Calls, AllReceipts, Contacted
  <2>3. CallInv'
    BY <1>1, <1>2, <2>1, <2>2 DEF CallInv, Inv
  <2>4. IssuedInv'
    <3>1. /\ \A c \in Calls : c.batch \in 0 .. issued
          /\ \A x \in AllReceipts : x.batch \in 1 .. issued /\ x.decision \in 1 .. issued
      BY DEF Inv, IssuedInv
    <3>2. issued' <= Len(log') * (MaxQuestions + 1) + 1
      BY <1>1, <2>1, LimitsAssumption
    <3>3. /\ \A c \in Calls : c.batch \in 0 .. issued' /\ c.batch < batch'
          /\ \A x \in AllReceipts : /\ x.batch \in 1 .. issued' /\ x.decision \in 1 .. issued'
                                    /\ x.batch < batch' /\ x.decision < batch'
      BY <1>1, <2>1, <3>1
    <3>4. issued' \in Nat /\ batch' = issued' /\ batch' # 0
      BY <1>1, <2>1
    <3>. QED BY <2>1, <2>2, <3>2, <3>3, <3>4 DEF IssuedInv
  <2>5. JudgmentsInv' /\ EveryQuestionReceipted'
    BY <2>2 DEF Inv, JudgmentsInv, EveryQuestionReceipted
  <2>6. IdentifiersUnique'
    BY <2>1, <2>2 DEF Inv, IdentifiersUnique
  <2>. QED BY <2>3, <2>4, <2>5, <2>6 DEF Inv
<1>3. CASE ~ValidRequest(r)
  <2>. DEFINE e == [req |-> r, err |-> "invalid_input", batch |-> 0,
                    judgments |-> <<>>, receipts |-> {}]
  <2>1. log' = Append(log, e) /\ pc' = "idle" /\ UNCHANGED <<asked, batch, issued>>
    BY <1>1, <1>3 DEF Submit
  <2>2. e.batch = 0 /\ e.receipts = {} /\ e.judgments = <<>>
    OBVIOUS
  <2>. HIDE DEF e
  <2>a. /\ Calls' = Calls \cup {e} /\ log' \in Seq(Calls')
        /\ AllReceipts' = AllReceipts \cup e.receipts
        /\ Contacted' = Contacted \cup (IF e.batch # 0 THEN {e} ELSE {})
        /\ Len(log') = Len(log) + 1
        /\ DOMAIN log = 1 .. Len(log) /\ DOMAIN log' = 1 .. Len(log) + 1
        /\ \A i \in 1 .. Len(log) : log'[i] = log[i]
        /\ log'[Len(log) + 1] = e
    BY <1>1, <2>1, LogGrows
  <2>3. /\ Calls' = Calls \cup {e} /\ log' \in Seq(Calls')
        /\ AllReceipts' = AllReceipts /\ Contacted' = Contacted
        /\ Len(log') = Len(log) + 1
        /\ DOMAIN log = 1 .. Len(log) /\ DOMAIN log' = 1 .. Len(log) + 1
        /\ \A i \in 1 .. Len(log) : log'[i] = log[i]
        /\ log'[Len(log) + 1] = e
    BY <2>2, <2>a
  <2>4. CallInv'
    BY <1>1, <2>1, <2>3, MaxCallsAssumption DEF CallInv
  <2>5. IssuedInv'
    <3>1. /\ \A c \in Calls : c.batch \in 0 .. issued
          /\ \A x \in AllReceipts : x.batch \in 1 .. issued /\ x.decision \in 1 .. issued
      BY DEF Inv, IssuedInv
    <3>2. Len(log') * (MaxQuestions + 1) = Len(log) * (MaxQuestions + 1) + MaxQuestions + 1
      BY <1>1, <2>3, LimitsAssumption
    <3>3. issued' <= Len(log') * (MaxQuestions + 1) + 0
      <4>1. Len(log) * (MaxQuestions + 1) \in Int
        BY <1>1, LimitsAssumption
      <4>. QED BY <1>1, <2>1, <3>2, <4>1, LimitsAssumption
    <3>4. \A c \in Calls' : c.batch \in 0 .. issued'
      BY <1>1, <2>1, <2>2, <2>3, <3>1
    <3>. QED BY <1>1, <2>1, <2>3, <3>1, <3>3, <3>4 DEF IssuedInv
  <2>6. JudgmentsInv' /\ EveryQuestionReceipted'
    <3>1. Calls' \ Contacted' \subseteq (Calls \ Contacted) \cup {e}
      BY <2>3
    <3>. QED BY <2>2, <2>3, <3>1 DEF Inv, JudgmentsInv, EveryQuestionReceipted
  <2>7. IdentifiersUnique'
    <3>1. \A i, k \in 1 .. Len(log) : log[i].batch = log[k].batch /\ log[i].batch # 0 => i = k
      BY <2>3 DEF Inv, IdentifiersUnique
    <3>2. \A i, k \in DOMAIN log' : log'[i].batch = log'[k].batch /\ log'[i].batch # 0 => i = k
      BY <1>1, <2>2, <2>3, <3>1
    <3>. QED BY <2>3, <3>2 DEF Inv, IdentifiersUnique
  <2>. QED BY <2>4, <2>5, <2>6, <2>7 DEF Inv
<1>. QED BY <1>2, <1>3

\* Every step keeps the invariant.
LEMMA StepInv == Inv /\ [Next]_vars => Inv'
<1>. SUFFICES ASSUME Inv, [Next]_vars PROVE Inv'
  OBVIOUS
<1>1. ASSUME NEW r \in Submissions, Submit(r) PROVE Inv'
  BY <1>1, SubmitInv
<1>2. CASE InterruptBetween \/ ProviderRuns \/ UNCHANGED vars
  <2>1. UNCHANGED <<pc, req, asked, batch, issued, log>>
    BY <1>2 DEF InterruptBetween, ProviderRuns, During, vars
  <2>2. Calls' = Calls /\ AllReceipts' = AllReceipts /\ Contacted' = Contacted
    BY <2>1 DEF Calls, AllReceipts, Contacted
  <2>3. CallInv' /\ IssuedInv'
    BY <2>1, <2>2 DEF Inv, CallInv, IssuedInv
  <2>4. JudgmentsInv' /\ EveryQuestionReceipted'
    BY <2>2 DEF Inv, JudgmentsInv, EveryQuestionReceipted
  <2>5. IdentifiersUnique'
    BY <2>1, <2>2 DEF Inv, IdentifiersUnique
  <2>. QED BY <2>3, <2>4, <2>5 DEF Inv
<1>3. CASE ReturnFailure
  BY <1>3, FailureFits, FinishInv DEF ReturnFailure
<1>4. CASE ReturnJudgments
  <2>1. ValidRequest(req) /\ asked = Lowered(req) /\ pc = "calling"
    BY <1>4 DEF ReturnJudgments, Inv, CallInv
  <2>2. PICK b \in Bodies : \E kept \in SUBSET DOMAIN asked :
          LET given == [id \in kept |-> ParseResponse(asked, b, TRUE).judgments[id]]
          IN  /\ ParseResponse(asked, b, TRUE).accepted
              /\ Finish("", Escalated(req, Restored(req, given)))
    BY <1>4 DEF ReturnJudgments
  <2>3. PICK kept \in SUBSET DOMAIN asked :
          LET given == [id \in kept |-> ParseResponse(asked, b, TRUE).judgments[id]]
          IN  /\ ParseResponse(asked, b, TRUE).accepted
              /\ Finish("", Escalated(req, Restored(req, given)))
    BY <2>2
  <2>4. LET given == [id \in kept |-> ParseResponse(asked, b, TRUE).judgments[id]]
        IN  Fit(req, "", Escalated(req, Restored(req, given)))
    BY <2>1, <2>3, AnswersFit
  <2>. QED BY <2>1, <2>3, <2>4, FinishInv
<1>. QED BY <1>1, <1>2, <1>3, <1>4 DEF Next

\* The invariant holds of every reachable state.
THEOREM Invariance == Spec => []Inv
BY InitInv, StepInv, PTL DEF Spec

\* What TypeOK says of the call under way.
StateInv ==
    /\ req \in Submissions \cup {<<>>} /\ batch \in 0 .. issued
    /\ ctx \in Provider!CtxStates /\ answer \in Provider!Results \cup {"pending"}

LEMMA StepState == Inv /\ StateInv /\ [Next]_vars => StateInv'
<1>. SUFFICES ASSUME Inv, StateInv, [Next]_vars PROVE StateInv'
  OBVIOUS
<1>1. issued \in Nat /\ log \in Seq(Calls)
  BY DEF Inv, IssuedInv, CallInv
<1>2. ASSUME NEW r \in Submissions, Submit(r) PROVE StateInv'
  BY <1>1, <1>2 DEF Submit, StateInv, FreshBatch, Provider!CtxStates
<1>3. CASE InterruptBetween \/ ProviderRuns
  BY <1>3 DEF InterruptBetween, ProviderRuns, During, StateInv, Provider!Expire, Provider!Interrupt,
              Provider!Return, Provider!CtxStates, Provider!Results
<1>4. ASSUME NEW err, NEW J, pc = "calling", Finish(err, J) PROVE StateInv'
  <2>1. issued' \in Nat /\ issued <= issued'
    <3>1. req \in Submissions
      BY <1>4 DEF Inv, CallInv
    <3>2. DOMAIN req.questions \subseteq Nat /\ IsFiniteSet(DOMAIN req.questions)
      BY <3>1, SubmissionsAssumption
    <3>3. Cardinality(Build(req, J)) \in Nat
      BY <1>1, <3>2, BuildReceipts, FS_CardinalityType
    <3>. QED BY <1>1, <1>4, <3>3 DEF Finish
  <2>. QED BY <1>1, <1>4, <2>1 DEF Finish, StateInv
<1>5. CASE ReturnFailure
  BY <1>4, <1>5 DEF ReturnFailure
<1>6. CASE ReturnJudgments
  <2>1. \E J : Finish("", J) /\ pc = "calling"
    BY <1>6 DEF ReturnJudgments
  <2>. QED BY <1>4, <2>1
<1>7. CASE UNCHANGED vars
  BY <1>7 DEF vars, StateInv
<1>. QED BY <1>2, <1>3, <1>5, <1>6, <1>7 DEF Next

---------------------------------------------------------------------------
\* Every receipt of a call says what its judgment says, or UNAVAILABLE, and so is
\* told in its question's words and settled by its question's rule.
LEMMA ReceiptsFit ==
    ASSUME Inv, NEW c \in Contacted, NEW r \in c.receipts
    PROVE  /\ r.question \in DOMAIN c.req.questions
           /\ InWordsOf(r.judgment, c.req.questions[r.question].type)
           /\ Settled(r.judgment, RuleFor(c.req, r.question))
<1>1. /\ {x.question : x \in c.receipts} = DOMAIN c.req.questions
      /\ IF r.question \in DOMAIN c.judgments
         THEN r.judgment = c.judgments[r.question]
         ELSE r.judgment = EmptyJudgment(c.req.questions[r.question].type, "UNAVAILABLE")
  BY DEF Inv, EveryQuestionReceipted
<1>2. Fit(c.req, c.err, c.judgments)
  BY DEF Inv, JudgmentsInv
<1>3. r.question \in DOMAIN c.req.questions
  BY <1>1
<1>4. CASE r.question \in DOMAIN c.judgments
  BY <1>1, <1>2, <1>3, <1>4 DEF Fit
<1>5. CASE r.question \notin DOMAIN c.judgments
  BY <1>1, <1>3, <1>5, EmptyFits, EmptySettled
<1>. QED BY <1>4, <1>5

\* What was lowered is no classify, and what fits is told as it was asked.
LEMMA VocabularyFromInv == Inv => CallersVocabulary
<1>. SUFFICES ASSUME Inv PROVE CallersVocabulary
  OBVIOUS
<1>1. ASSUME pc = "calling", NEW id \in DOMAIN asked
      PROVE  asked[id].type \in {"noul", "choice", "score"}
  <2>. DEFINE t == req.questions[id].type
  <2>1. ValidRequest(req) /\ asked = Lowered(req)
    BY <1>1 DEF Inv, CallInv
  <2>2. DOMAIN asked = DOMAIN req.questions
    BY <2>1 DEF Lowered
  <2>3. ValidQuestion(req.questions[id])
    BY <2>1, <2>2 DEF ValidRequest
  <2>4. Lower(t) \in {"noul", "choice", "score"}
    BY <2>3 DEF ValidQuestion, Lower, DecisionTypes
  <2>5. "type" \in DOMAIN req.questions[id]
    BY <1>1, <2>2, SubmissionsAssumption DEF Inv, CallInv
  <2>. QED BY <2>1, <2>2, <2>4, <2>5 DEF Lowered
<1>2. ASSUME NEW c \in Contacted
      PROVE  /\ \A id \in DOMAIN c.judgments :
                  InWordsOf(c.judgments[id], c.req.questions[id].type)
             /\ \A r \in c.receipts :
                  InWordsOf(r.judgment, c.req.questions[r.question].type)
  BY ReceiptsFit DEF Inv, JudgmentsInv, Fit
<1>. DEFINE told(t, j) == /\ j.type = t
                          /\ j.compiledTo = IF j.type = "classify" THEN "choice" ELSE ""
<1>3. ASSUME NEW j, NEW t, InWordsOf(j, t)
      PROVE  told(t, j)
  BY <1>3 DEF InWordsOf, CompiledTo, Lower
<1>4. \A c \in Calls \ Contacted : DOMAIN c.judgments = {} /\ c.receipts = {}
  BY DEF Inv, JudgmentsInv
<1>5. ASSUME NEW c \in Calls
      PROVE  /\ \A id \in DOMAIN c.judgments :
                  InWordsOf(c.judgments[id], c.req.questions[id].type)
             /\ \A r \in c.receipts :
                  InWordsOf(r.judgment, c.req.questions[r.question].type)
  BY <1>2, <1>4
<1>. HIDE DEF told
<1>6. ASSUME NEW c \in Calls
      PROVE  /\ \A id \in DOMAIN c.judgments :
                  told(c.req.questions[id].type, c.judgments[id])
             /\ \A r \in c.receipts : told(c.req.questions[r.question].type, r.judgment)
  BY <1>3, <1>5, Zenon
<1>. QED BY <1>1, <1>6, Zenon DEF CallersVocabulary, told

\* A rule's question has a receipt, whose judgment the rule settled.
LEMMA RulesFromInv == Inv => RulesGovern
<1>. SUFFICES ASSUME Inv, NEW c \in Contacted, NEW id \in DOMAIN c.req.escalation
              PROVE  \E r \in c.receipts :
                       /\ r.question = id
                       /\ r.judgment.outcome = "ACCEPTABLE_CONFIDENCE" =>
                            /\ Meets(c.req.escalation[id].confidence, r.judgment.confidence)
                            /\ Meets(c.req.escalation[id].margin, r.judgment.margin)
  BY Zenon DEF RulesGovern
<1>1. id \in DOMAIN c.req.questions
  BY DEF Inv, JudgmentsInv, ValidRequest, ValidEscalation
<1>2. PICK r \in c.receipts : r.question = id
  BY <1>1 DEF Inv, EveryQuestionReceipted
<1>3. Settled(r.judgment, c.req.escalation[id])
  BY <1>2, ReceiptsFit DEF RuleFor
<1>. QED BY <1>2, <1>3 DEF Settled

\* A settled judgment escalates by its rule alone, and never by no rule.
LEMMA EscalatesFromInv == Inv => EscalatesOnlyByRule
<1>. SUFFICES ASSUME Inv, NEW c \in Contacted, NEW r \in c.receipts
              PROVE  LET j == r.judgment
                     IN  /\ j.escalate <=> j.outcome = "LOW_CONFIDENCE"
                         /\ j.escalate <=> j.reason # ""
                         /\ j.escalate =>
                              /\ r.question \in DOMAIN c.req.escalation
                              /\ LET rule == c.req.escalation[r.question]
                                 IN  \/ ~Meets(rule.confidence, j.confidence)
                                     \/ ~Meets(rule.margin, j.margin)
  BY Zenon DEF EscalatesOnlyByRule
<1>1. Settled(r.judgment, RuleFor(c.req, r.question))
  BY ReceiptsFit
<1>2. CASE r.question \in DOMAIN c.req.escalation
  BY <1>1, <1>2 DEF Settled, RuleFor
<1>3. CASE r.question \notin DOMAIN c.req.escalation
  BY <1>1, <1>3 DEF Settled, RuleFor, NoRule, Meets
<1>. QED BY <1>2, <1>3

\* The receipts of a failed call carry the empty judgments it returned.
LEMMA FailureFromInv == Inv => FailureIsRecorded
<1>. SUFFICES ASSUME Inv, NEW c \in Contacted, c.err # "", NEW r \in c.receipts
              PROVE  /\ r.judgment.outcome = IF c.err = "provider_response_invalid"
                                             THEN "ERROR" ELSE "UNAVAILABLE"
                     /\ r.judgment.bool = Nil /\ r.judgment.choice = Nil
                     /\ r.judgment.score = Nil /\ r.judgment.confidence = Nil
                     /\ r.judgment.margin = Nil /\ ~r.judgment.escalate
  BY Zenon DEF FailureIsRecorded
<1>1. c.judgments = FailureJudgments(c.req, c.err)
  BY DEF Inv, JudgmentsInv, Fit
<1>2. r.question \in DOMAIN c.judgments
  BY <1>1, ReceiptsFit DEF FailureJudgments
<1>3. r.judgment = EmptyJudgment(c.req.questions[r.question].type, FailureOutcome(c.err))
  <2>1. r.judgment = c.judgments[r.question]
    BY <1>2 DEF Inv, EveryQuestionReceipted
  <2>. QED BY <1>1, <1>2, <2>1 DEF FailureJudgments
<1>4. /\ r.judgment.outcome = FailureOutcome(c.err)
      /\ r.judgment.bool = Nil /\ r.judgment.choice = Nil /\ r.judgment.score = Nil
      /\ r.judgment.confidence = Nil /\ r.judgment.margin = Nil /\ ~r.judgment.escalate
  <2>. DEFINE t == c.req.questions[r.question].type
              o == FailureOutcome(c.err)
              j == EmptyJudgment(t, o)
  <2>1. r.judgment = j
    BY <1>3
  <2>. HIDE DEF t, o
  <2>2. /\ j.outcome = o /\ j.bool = Nil /\ j.choice = Nil /\ j.score = Nil
        /\ j.confidence = Nil /\ j.margin = Nil /\ ~j.escalate
    BY DEF EmptyJudgment
  <2>. HIDE DEF j
  <2>. QED BY <2>1, <2>2, Zenon DEF o
<1>5. FailureOutcome(c.err) = IF c.err = "provider_response_invalid" THEN "ERROR"
                                                                      ELSE "UNAVAILABLE"
  BY DEF FailureOutcome
<1>. QED BY <1>4, <1>5, Zenon

\* A receipt's judgment has a question's type, and is settled.
LEMMA TypesFromInv == Inv /\ StateInv => TypeOK
<1>. SUFFICES ASSUME Inv, StateInv PROVE TypeOK
  OBVIOUS
<1>1. ASSUME NEW c \in Contacted, NEW r \in c.receipts
      PROVE  /\ r.judgment.type \in DecisionTypes /\ r.judgment.outcome \in Outcomes
             /\ r.judgment.reason \in Reasons
  <2>1. /\ r.question \in DOMAIN c.req.questions
        /\ InWordsOf(r.judgment, c.req.questions[r.question].type)
        /\ Settled(r.judgment, RuleFor(c.req, r.question))
    BY ReceiptsFit
  <2>2. c.req.questions[r.question].type \in DecisionTypes
    BY <2>1 DEF Inv, JudgmentsInv, ValidRequest, ValidQuestion
  <2>. QED BY <2>1, <2>2 DEF InWordsOf, Settled
<1>2. \A r \in AllReceipts : \E c \in Contacted : r \in c.receipts
  BY DEF AllReceipts, Inv, JudgmentsInv
<1>3. \A r \in AllReceipts : /\ r.judgment.type \in DecisionTypes
                             /\ r.judgment.outcome \in Outcomes /\ r.judgment.reason \in Reasons
  BY <1>1, <1>2
<1>. QED BY <1>3 DEF TypeOK, Inv, CallInv, IssuedInv, StateInv

\* Every variable of the engine has its type.
THEOREM TypeCorrect == Spec => []TypeOK
<1>1. Init => StateInv
  BY DEF Init, StateInv, Provider!CtxStates
<1>2. Inv /\ StateInv => TypeOK
  BY TypesFromInv
<1>. QED BY <1>1, <1>2, StepState, Invariance, PTL DEF Spec

\* Every question put to the provider leaves exactly one receipt, in its call's
\* batch, that says what was returned.
THEOREM QuestionsReceipted == Spec => []EveryQuestionReceipted
BY Invariance, PTL DEF Inv

\* No identifier newID returned is given to two things.
THEOREM UniqueIdentifiers == Spec => []IdentifiersUnique
BY Invariance, PTL DEF Inv

\* A provider is never asked to classify, and judgments and receipts are told in
\* the caller's words.
THEOREM Vocabulary == Spec => []CallersVocabulary
<1>1. Inv => CallersVocabulary
  BY VocabularyFromInv
<1>. QED BY <1>1, Invariance, PTL

\* Every rule the caller wrote governs a receipt.
THEOREM RulesAlwaysGovern == Spec => []RulesGovern
<1>1. Inv => RulesGovern
  BY RulesFromInv
<1>. QED BY <1>1, Invariance, PTL

\* Nothing escalates but by a rule for that very question that is not met.
THEOREM EscalationNeedsRule == Spec => []EscalatesOnlyByRule
<1>1. Inv => EscalatesOnlyByRule
  BY EscalatesFromInv
<1>. QED BY <1>1, Invariance, PTL

\* A failed call records ERROR or UNAVAILABLE for every question, and no value.
THEOREM FailureRecorded == Spec => []FailureIsRecorded
<1>1. Inv => FailureIsRecorded
  BY FailureFromInv
<1>. QED BY <1>1, Invariance, PTL

---------------------------------------------------------------------------
\* The receipts of a call that finishes are one record of the trail.
LEMMA FinishRecords ==
    ASSUME Inv, pc = "calling", NEW err, NEW J, Fit(req, err, J), Finish(err, J)
    PROVE  Trail!Record
<1>. DEFINE ids == DOMAIN req.questions
            R == Build(req, J)
            pairs(S) == {<<r.batch, r.question>> : r \in S}
<1>1. /\ req \in Submissions /\ Cardinality(ids) \in 1 .. MaxQuestions
      /\ issued \in Nat /\ batch = issued /\ batch # 0 /\ log \in Seq(Calls)
      /\ Len(log) < MaxCalls
  BY DEF Inv, CallInv, IssuedInv, ValidRequest
<1>2. ids \subseteq Nat /\ IsFiniteSet(ids)
  BY <1>1, SubmissionsAssumption
<1>3. {x.question : x \in R} = ids /\ \A x \in R : x.batch = batch
  BY <1>1, <1>2, BuildReceipts
<1>4. AllReceipts' = AllReceipts \cup R
  <2>1. log' = Append(log, [req |-> req, err |-> err, batch |-> batch,
                            judgments |-> J, receipts |-> R])
    BY DEF Finish
  <2>. QED BY <1>1, <2>1, LogGrows
<1>5. pairs(R) = {batch} \X ids
  BY <1>3
<1>6. pairs(AllReceipts)' = pairs(AllReceipts) \cup ({batch} \X ids)
  BY <1>4, <1>5
<1>7. batch \in 1 .. MaxCalls * (MaxQuestions + 1)
  <2>1. issued <= Len(log) * (MaxQuestions + 1) + 1
    BY <1>1 DEF Inv, IssuedInv
  <2>2. Len(log) \in Nat /\ MaxCalls \in Nat /\ MaxQuestions \in Nat /\ 1 <= MaxQuestions
    BY <1>1, MaxCallsAssumption, LimitsAssumption
  <2>3. Len(log) * (MaxQuestions + 1) <= (MaxCalls - 1) * (MaxQuestions + 1)
    BY <1>1, <2>2
  <2>4. (MaxCalls - 1) * (MaxQuestions + 1) = MaxCalls * (MaxQuestions + 1) - MaxQuestions - 1
    BY <2>2
  <2>5. Len(log) * (MaxQuestions + 1) \in Int /\ MaxCalls * (MaxQuestions + 1) \in Int
    BY <2>2
  <2>. QED BY <1>1, <2>1, <2>2, <2>3, <2>4, <2>5
<1>8. ids # {} /\ ids \in SUBSET UNION {DOMAIN r.questions : r \in Submissions}
  <2>1. ids # {}
    <3>1. Cardinality(ids) # 0
      BY <1>1, LimitsAssumption
    <3>. HIDE DEF ids
    <3>. QED BY <3>1, FS_EmptySet
  <2>. QED BY <1>1, <2>1
<1>9. \A entry \in pairs(AllReceipts) : entry[1] # batch
  <2>1. \A r \in AllReceipts : r.batch \in 1 .. issued /\ r.batch < batch
    BY DEF Inv, IssuedInv
  <2>2. \A r \in AllReceipts : r.batch # batch
    BY <1>1, <2>1
  <2>. QED BY <2>2
<1>. QED BY <1>6, <1>7, <1>8, <1>9 DEF Trail!Record

\* Across calls the receipts grow as an audit trail does: whole batches, under
\* batch ids never used before, and nothing rewritten.
THEOREM TrailImplemented == Spec => ImplementsTrail
<1>1. Init => Trail!Init
  BY DEF Init, Trail!Init, AllReceipts, Calls
<1>2. Inv /\ [Next]_vars => [Trail!Record]_({<<r.batch, r.question>> : r \in AllReceipts})
  <2>. SUFFICES ASSUME Inv, [Next]_vars
                PROVE  \/ Trail!Record
                       \/ UNCHANGED {<<r.batch, r.question>> : r \in AllReceipts}
    OBVIOUS
  <2>1. ASSUME NEW r \in Submissions, Submit(r)
        PROVE  UNCHANGED AllReceipts
    <3>1. CASE ValidRequest(r)
      BY <2>1, <3>1 DEF Submit, AllReceipts, Calls
    <3>2. CASE ~ValidRequest(r)
      <4>. DEFINE e == [req |-> r, err |-> "invalid_input", batch |-> 0,
                        judgments |-> <<>>, receipts |-> {}]
      <4>1. log' = Append(log, e) /\ log \in Seq(Calls)
        BY <2>1, <3>2 DEF Submit, Inv, CallInv
      <4>2. AllReceipts' = AllReceipts \cup e.receipts
        BY <4>1, LogGrows
      <4>. QED BY <4>2
    <3>. QED BY <3>1, <3>2
  <2>2. CASE InterruptBetween \/ ProviderRuns \/ UNCHANGED vars
    BY <2>2 DEF InterruptBetween, ProviderRuns, During, vars, AllReceipts, Calls
  <2>3. CASE ReturnFailure
    BY <2>3, FailureFits, FinishRecords DEF ReturnFailure
  <2>4. CASE ReturnJudgments
    <3>1. ValidRequest(req) /\ asked = Lowered(req) /\ pc = "calling"
      BY <2>4 DEF ReturnJudgments, Inv, CallInv
    <3>2. PICK b \in Bodies : \E kept \in SUBSET DOMAIN asked :
            LET given == [id \in kept |-> ParseResponse(asked, b, TRUE).judgments[id]]
            IN  /\ ParseResponse(asked, b, TRUE).accepted
                /\ Finish("", Escalated(req, Restored(req, given)))
      BY <2>4 DEF ReturnJudgments
    <3>3. PICK kept \in SUBSET DOMAIN asked :
            LET given == [id \in kept |-> ParseResponse(asked, b, TRUE).judgments[id]]
            IN  /\ ParseResponse(asked, b, TRUE).accepted
                /\ Finish("", Escalated(req, Restored(req, given)))
      BY <3>2
    <3>4. LET given == [id \in kept |-> ParseResponse(asked, b, TRUE).judgments[id]]
          IN  Fit(req, "", Escalated(req, Restored(req, given)))
      BY <3>1, <3>3, AnswersFit
    <3>. QED BY <3>1, <3>3, <3>4, FinishRecords
  <2>. QED BY <2>1, <2>2, <2>3, <2>4 DEF Next
<1>. QED BY <1>1, <1>2, Invariance, PTL DEF Spec, ImplementsTrail, Trail!Spec

---------------------------------------------------------------------------
LEMMA ValidFromInv == Inv => BuiltReceiptsValidate
<1>. SUFFICES ASSUME Inv, NEW r \in AllReceipts PROVE ValidReceipt(r)
  BY DEF BuiltReceiptsValidate
<1>1. PICK c \in Contacted : r \in c.receipts
  BY DEF AllReceipts, Inv, JudgmentsInv
<1>2. /\ r.question \in DOMAIN c.req.questions
      /\ InWordsOf(r.judgment, c.req.questions[r.question].type)
      /\ Settled(r.judgment, RuleFor(c.req, r.question))
  BY <1>1, ReceiptsFit
<1>3. c.req.questions[r.question].type \in DecisionTypes
  BY <1>2 DEF Inv, JudgmentsInv, ValidRequest, ValidQuestion
<1>4. 0 # r.decision /\ 0 # r.batch
  BY DEF Inv, IssuedInv
<1>5. r.judgment.type \in DecisionTypes /\ r.judgment.compiledTo \in DecisionTypes \cup {""}
  BY <1>2, <1>3 DEF InWordsOf, CompiledTo, Lower, DecisionTypes
<1>6. /\ r.judgment.outcome \in Outcomes
      /\ r.judgment.reason # "" => r.judgment.escalate
  BY <1>2, Zenon DEF Settled
<1>. QED BY <1>4, <1>5, <1>6 DEF ValidReceipt, NoId

\* Every receipt Build makes is one that a reader accepts.
THEOREM BuiltIsValid == Spec => []BuiltReceiptsValidate
<1>1. Inv => BuiltReceiptsValidate
  BY ValidFromInv
<1>. QED BY <1>1, Invariance, PTL

---------------------------------------------------------------------------
\* When the judgments of a call are known to the policy, it answered, and each
\* judgment the policy reads is the one the call returned.
LEMMA KnownIsAnswered ==
    ASSUME Inv, NEW c \in Calls, ~Unknown(c.receipts)
    PROVE  /\ c \in Contacted /\ c.err = "" /\ Consulted \subseteq DOMAIN c.judgments
           /\ \A id \in Consulted :
                /\ JudgmentOn(c.receipts, id) = c.judgments[id]
                /\ c.judgments[id].outcome \notin {"UNAVAILABLE", "ERROR"}
<1>1. c \in Contacted
  <2>1. c.receipts # {}
    BY DEF Unknown, Consulted
  <2>. QED BY <2>1 DEF Inv, JudgmentsInv
<1>2. ASSUME NEW id \in Consulted
      PROVE  \E r \in c.receipts : /\ r.question = id /\ JudgmentOn(c.receipts, id) = r.judgment
                                   /\ r.judgment.outcome \notin {"UNAVAILABLE", "ERROR"}
  <2>1. (CHOOSE r \in c.receipts : r.question = id) \in {r \in c.receipts : r.question = id}
    BY DEF Unknown
  <2>2. JudgmentOn(c.receipts, id).outcome \notin {"UNAVAILABLE", "ERROR"}
    BY DEF Unknown
  <2>. QED BY <2>1, <2>2 DEF JudgmentOn
<1>3. c.err = ""
  <2>1. PICK r \in c.receipts : r.judgment.outcome \notin {"UNAVAILABLE", "ERROR"}
    BY <1>2 DEF Consulted
  <2>2. FailureIsRecorded
    BY FailureFromInv
  <2>. QED BY <1>1, <2>1, <2>2 DEF FailureIsRecorded
<1>4. ASSUME NEW id \in Consulted
      PROVE  /\ id \in DOMAIN c.judgments /\ JudgmentOn(c.receipts, id) = c.judgments[id]
             /\ c.judgments[id].outcome \notin {"UNAVAILABLE", "ERROR"}
  <2>1. PICK r \in c.receipts : /\ r.question = id /\ JudgmentOn(c.receipts, id) = r.judgment
                                /\ r.judgment.outcome \notin {"UNAVAILABLE", "ERROR"}
    BY <1>2
  <2>2. IF id \in DOMAIN c.judgments
        THEN r.judgment = c.judgments[id]
        ELSE r.judgment = EmptyJudgment(c.req.questions[id].type, "UNAVAILABLE")
    BY <1>1, <2>1 DEF Inv, EveryQuestionReceipted
  <2>3. r.judgment # EmptyJudgment(c.req.questions[id].type, "UNAVAILABLE")
    BY <2>1, EmptyFits
  <2>. QED BY <2>1, <2>2, <2>3
<1>. QED BY <1>1, <1>3, <1>4

LEMMA UnknownFromInv == Inv => UnknownGoesToAHuman
<1>. SUFFICES ASSUME Inv, NEW c \in Calls,
                     c.err # "" \/ ~(Consulted \subseteq DOMAIN c.judgments)
              PROVE  Apply(c.receipts) = "ESCALATE_TO_HUMAN"
  BY DEF UnknownGoesToAHuman
<1>1. Unknown(c.receipts)
  BY KnownIsAnswered
<1>. QED BY <1>1 DEF Apply, Ignored, Actionable

\* Whatever fails or is left out, the policy hands the event to a human.
THEOREM UnknownEscalates == Spec => []UnknownGoesToAHuman
<1>1. Inv => UnknownGoesToAHuman
  BY UnknownFromInv
<1>. QED BY <1>1, Invariance, PTL

---------------------------------------------------------------------------
LEMMA ActsFromInv == Inv => ActsOnlyOnAnswers
<1>. SUFFICES ASSUME Inv, NEW c \in Contacted, Apply(c.receipts) # "ESCALATE_TO_HUMAN"
              PROVE  LET action == Apply(c.receipts)
                     IN  /\ Consulted \subseteq DOMAIN c.judgments
                         /\ Meets(RuleFor(c.req, Category).margin, c.judgments[Category].margin)
                         /\ action = "IGNORE" /\ c.req.questions[Incident].type = "noul" =>
                              c.judgments[Incident].bool = {FALSE}
                         /\ action \in {"PAGE_ONCALL", "FILE_TICKET"} =>
                              /\ c.judgments[Incident].bool = {TRUE}
                              /\ c.judgments[Category].margin # Nil
                              /\ \A m \in c.judgments[Category].margin :
                                   m >= ConfidentEnoughToAct
  BY DEF ActsOnlyOnAnswers
<1>. DEFINE category == c.judgments[Category]
            incident == c.judgments[Incident]
<1>1. Ignored(c.receipts) \/ Actionable(c.receipts)
  BY DEF Apply
<1>2. /\ ~Unknown(c.receipts) /\ ~JudgmentOn(c.receipts, Category).escalate
      /\ Apply(c.receipts) = "IGNORE" => JudgmentOn(c.receipts, Incident).bool # {TRUE}
      /\ Apply(c.receipts) # "IGNORE" =>
           /\ JudgmentOn(c.receipts, Incident).bool = {TRUE}
           /\ \E m \in JudgmentOn(c.receipts, Category).margin : m >= ConfidentEnoughToAct
  BY <1>1 DEF Apply, Ignored, Actionable
<1>3. /\ Consulted \subseteq DOMAIN c.judgments
      /\ JudgmentOn(c.receipts, Category) = category /\ JudgmentOn(c.receipts, Incident) = incident
      /\ category.outcome \notin {"UNAVAILABLE", "ERROR"}
      /\ incident.outcome \notin {"UNAVAILABLE", "ERROR"}
  BY <1>2, KnownIsAnswered DEF Contacted, Consulted
<1>4. /\ Settled(category, RuleFor(c.req, Category))
      /\ Pointed(category) /\ Pointed(incident)
      /\ incident.type = c.req.questions[Incident].type
  BY <1>3 DEF Inv, JudgmentsInv, Fit, InWordsOf, Consulted
<1>. HIDE DEF category, incident
<1>5. Meets(RuleFor(c.req, Category).margin, category.margin)
  <2>1. ~category.escalate
    BY <1>2, <1>3
  <2>2. category.outcome = "ACCEPTABLE_CONFIDENCE"
    BY <1>3, <1>4, <2>1 DEF Settled, Outcomes
  <2>. QED BY <1>4, <2>2 DEF Settled
<1>6. ASSUME Apply(c.receipts) = "IGNORE", c.req.questions[Incident].type = "noul"
      PROVE  incident.bool = {FALSE}
  BY <1>2, <1>3, <1>4, <1>6, ZenonT(60) DEF Pointed, Nil
<1>7. ASSUME Apply(c.receipts) # "IGNORE"
      PROVE  /\ incident.bool = {TRUE} /\ category.margin # Nil
             /\ \A m \in category.margin : m >= ConfidentEnoughToAct
  BY <1>2, <1>3, <1>4, <1>7 DEF Pointed, Nil
<1>. QED BY <1>3, <1>5, <1>6, <1>7 DEF category, incident

\* The policy ignores and acts only on what was answered and met the rule.
THEOREM ActsOnAnswers == Spec => []ActsOnlyOnAnswers
<1>1. Inv => ActsOnlyOnAnswers
  BY ActsFromInv
<1>. QED BY <1>1, Invariance, PTL
=============================================================================
