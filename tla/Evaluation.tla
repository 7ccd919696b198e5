----------------------------- MODULE Evaluation -----------------------------
(***************************************************************************)
(* howlinstinct eval: a provider measured against a dataset, one case at a *)
(* time, and the gate on the result (internal/eval/run.go, Run;            *)
(* pkg/cli/eval.go, runEval and applyGate).                                *)
(*                                                                         *)
(* Each case is one call of the engine.  The call itself is module         *)
(* Decision; here it is what the harness sees of it: an error of some      *)
(* kind, a response without the case's judgment, or a judgment.  The user  *)
(* may interrupt at any time.                                              *)
(***************************************************************************)
EXTENDS Metrics, ExitCodes

CONSTANTS
    DataSets,   \* the datasets a command may name
    Rules,      \* the escalation rules of its flags
    Gates,      \* what --min-accuracy may say: Nil, or a [kind, at] whose kind
                \* is "number" (at, in units of 1/Unit), "nan" or "text"
    Answers,    \* the answers a provider may give
    Latencies   \* how long a call may take

\* What decoding leaves of a dataset: a list of cases, at most one question for
\* each and for the whole, and a list of names in each question.
ASSUME InputsAssumption ==
    /\ \A d \in DataSets :
         /\ d.cases \in Seq(Range(d.cases)) /\ AtMostOne(d.question)
         /\ \A i \in DOMAIN d.cases :
              /\ AtMostOne(d.cases[i].question)
              /\ \A q \in d.cases[i].question \cup d.question :
                   {"type", "names"} \subseteq DOMAIN q /\ q.names \in Seq(NamesOf(q))
    /\ \A g \in UNION Gates : g.kind = "number" => g.at \in Int
    /\ \A a \in Answers : WireAnswer(a)
    /\ Latencies \subseteq Nat

VARIABLES
    dataset, rule, gate,   \* the command's input
    ctx,         \* the command's context: live or interrupted
    pc,          \* loading, running, deciding (a call is out), done
    case,        \* the case Run is at
    scored,      \* Run's scored cases
    failures,    \* report.Failures, as the indices of cases
    scoreType,   \* whether a score question has been asked
    metrics,     \* report.Metrics, Nil until computed
    exit         \* the exit code, Nil until there is one

vars == <<dataset, rule, gate, ctx, pc, case, scored, failures, scoreType, metrics, exit>>

input == <<dataset, rule, gate>>

Init ==
    /\ dataset \in DataSets /\ rule \in Rules /\ gate \in Gates
    /\ ctx = "live" /\ pc = "loading" /\ case = 1
    /\ scored = <<>> /\ failures = <<>> /\ scoreType = FALSE
    /\ metrics = Nil /\ exit = Nil

Exit(code) == pc' = "done" /\ exit' = {code}

\* No --dataset, or a threshold that is not a number: refused before any call.
BadFlags ==
    /\ pc = "loading"
    /\ Exit(ExitBadInput)
    /\ UNCHANGED <<input, ctx, case, scored, failures, scoreType, metrics>>

\* config.Load or buildProvider fails: the command ends before any call.
Misconfigured ==
    /\ pc = "loading"
    /\ Exit(ExitCodeFor("configuration"))
    /\ UNCHANGED <<input, ctx, case, scored, failures, scoreType, metrics>>

\* eval.Load: a dataset that does not hold together is refused before any call.
Load ==
    /\ pc = "loading"
    /\ IF ValidDataset(dataset) THEN pc' = "running" /\ UNCHANGED exit
                                ELSE Exit(ExitCodeFor("invalid_input"))
    /\ UNCHANGED <<input, ctx, case, scored, failures, scoreType, metrics>>

---------------------------------------------------------------------------
Case == dataset.cases[case]

CaseQuestion == CHOOSE q \in ResolveQuestion(Case, dataset.question) : TRUE

CaseExpected == CHOOSE e \in NormalizeExpected(CaseQuestion, Case.expected) : TRUE

\* The one-question request of a case, with the command's rule if it has one.
CaseRequest ==
    [state |-> Case.state, questions |-> [id \in {Case.id} |-> CaseQuestion],
     escalation |-> [id \in (IF rule = NoRule THEN {} ELSE {Case.id}) |-> rule],
     trace |-> "", retain |-> FALSE]

FailureForgotten == failures

Failed == Append(failures, case)

\* A case that yields no judgment is an error of the case, not of the run.
CaseFails ==
    /\ failures' = Failed /\ case' = case + 1 /\ pc' = "running"
    /\ UNCHANGED <<input, ctx, scored, metrics, exit>>

\* The head of Run's loop, for one more case: the context is looked at here and
\* nowhere else. The engine may refuse what the dataset let through: a state that
\* is too long, or a threshold out of range.
StartCase ==
    /\ pc = "running" /\ case <= Len(dataset.cases) /\ ctx = "live"
    /\ scoreType' = (scoreType \/ Lower(CaseQuestion.type) = "score")
    /\ \/ /\ ValidRequest(CaseRequest)
          /\ pc' = "deciding"
          /\ UNCHANGED <<input, ctx, case, scored, failures, metrics, exit>>
       \/ /\ ~ValidRequest(CaseRequest)
          /\ CaseFails

CancelledBeforeLast ==
    /\ pc = "running" /\ case < Len(dataset.cases) /\ ctx # "live"
    /\ Exit(ExitCodeFor("timeout"))
    /\ UNCHANGED <<input, ctx, case, scored, failures, scoreType, metrics>>

\* The evaluation was cancelled: no metrics, and the gate is not reached.
Cancelled ==
    /\ pc = "running" /\ case <= Len(dataset.cases) /\ ctx # "live"
    /\ Exit(ExitCodeFor("timeout"))
    /\ UNCHANGED <<input, ctx, case, scored, failures, scoreType, metrics>>

\* engine.Decide returns an error, or a response that leaves the case out.
CallFails ==
    /\ pc = "deciding"
    /\ CaseFails /\ UNCHANGED scoreType

\* engine.Decide returns a judgment.
CallAnswers ==
    /\ pc = "deciding"
    /\ \E a \in Answers, latency \in Latencies :
         LET body   == [wellFormed |-> TRUE, unknown |-> FALSE,
                        answers |-> [id \in {Case.id} |-> a]]
             parsed == ParseResponse(Lowered(CaseRequest), body, TRUE)
             j == Escalated(CaseRequest, Restored(CaseRequest, parsed.judgments))[Case.id]
         IN  /\ parsed.accepted
             /\ scored' = Append(scored, Scored(CaseQuestion, CaseExpected, j, latency))
    /\ case' = case + 1 /\ pc' = "running"
    /\ UNCHANGED <<input, ctx, failures, scoreType, metrics, exit>>

---------------------------------------------------------------------------
BelowGate(m) == \E a \in m.accuracy, g \in gate :
                  g.kind = "number" /\ a.sum * Unit < g.at * a.of

GateOpenWhenUnmeasured(m) ==
    IF gate = Nil THEN ExitOK
    ELSE IF \E g \in gate : g.kind = "text" THEN ExitBadInput
    ELSE IF BelowGate(m) THEN ExitEvalGate
    ELSE ExitOK

\* applyGate: without a gate there is nothing to fail; with one, an accuracy
\* that could not be measured fails as one that is too low does. Nothing is
\* below NaN.
ApplyGate(m) ==
    IF gate = Nil THEN ExitOK
    ELSE IF \E g \in gate : g.kind = "text" THEN ExitBadInput
    ELSE IF m.accuracy = Nil \/ BelowGate(m) THEN ExitEvalGate
    ELSE ExitOK

\* What a finished run may exit with: the gate's verdict, or, where the JSON report
\* cannot be written, the code of an error nobody classified. The gate is then
\* never reached.
Verdicts(m) == {ApplyGate(m), ExitCodeFor("unclassified")}

\* The loop is over: the metrics, the report and the gate.
Finish ==
    /\ pc = "running" /\ case > Len(dataset.cases)
    /\ LET m == ComputeMetrics(scored, Len(dataset.cases), Len(failures), scoreType)
       IN  metrics' = {m} /\ \E code \in Verdicts(m) : Exit(code)
    /\ UNCHANGED <<input, ctx, case, scored, failures, scoreType>>

Interrupt ==
    /\ ctx = "live" /\ pc # "done"
    /\ ctx' = "interrupted"
    /\ UNCHANGED <<input, pc, case, scored, failures, scoreType, metrics, exit>>

Step ==
    BadFlags \/ Misconfigured \/ Load \/ StartCase \/ Cancelled \/ CallFails \/ CallAnswers \/ Finish

Next == Step \/ Interrupt

\* The command runs on, and each call of the engine returns (Decision,
\* CallsReturn). The user need not interrupt.
Spec == Init /\ [][Next]_vars /\ WF_vars(Step)

---------------------------------------------------------------------------
Metric == CHOOSE m \in metrics : TRUE

\* Every variable has its type, a finished command has an exit code, and what
\* was expected and predicted of a scored case are labels its questions can
\* produce.
TypeOK ==
    /\ dataset \in DataSets /\ rule \in Rules /\ gate \in Gates
    /\ ctx \in {"live", "interrupted"} /\ pc \in {"loading", "running", "deciding", "done"}
    /\ case \in 1 .. Len(dataset.cases) + 1
    /\ pc = "done" <=> exit # Nil
    /\ exit \in Ptr({ExitOK, ExitCodeFor("unclassified"), ExitBadInput, ExitConfig,
                    ExitTimeout, ExitEvalGate})
    /\ \A i \in DOMAIN scored : \E k \in 1 .. case - 1 :
         \A q \in ResolveQuestion(dataset.cases[k], dataset.question) :
           {scored[i].expected.label, scored[i].predicted} \subseteq
              IF Lower(q.type) = "noul" THEN {"true", "false"} ELSE NamesOf(q)

\* What the k-th case expects.
ExpectedOf(k) ==
    UNION {NormalizeExpected(q, dataset.cases[k].expected) :
             q \in ResolveQuestion(dataset.cases[k], dataset.question)}

\* Every case the run has been through is scored or listed as a failure, never
\* both and never neither, and a report speaks of all of them.  One that is not
\* listed is scored in its turn and against what it expects itself, however many
\* before it have failed (Run).
EveryCaseAccounted ==
    /\ Len(scored) + Len(failures) = case - 1
    /\ \A i, k \in DOMAIN failures : i < k => failures[i] < failures[k]
    /\ \A i \in DOMAIN failures : failures[i] \in 1 .. case - 1
    /\ \A k \in 1 .. case - 1 : k \notin Range(failures) =>
         LET turn == k - Cardinality({i \in DOMAIN failures : failures[i] < k})
         IN  turn \in DOMAIN scored /\ scored[turn].expected \in ExpectedOf(k)
    /\ metrics # Nil =>
         /\ Metric.scored + Metric.errored = Metric.cases
         /\ Metric.cases = Len(dataset.cases)

\* What is measured and what is withheld: a metric is absent exactly when a
\* reason for it is given, and the metrics that need a distribution describe the
\* very cases that accuracy describes (computeMetrics).
OnePopulation ==
    metrics # Nil =>
      /\ Metric.accuracy = Nil <=> Metric.accuracyWhy # ""
      /\ Metric.mae = Nil <=> Metric.maeWhy # ""
      /\ Metric.brier = Nil <=> Metric.distributionWhy # ""
      /\ Metric.calibration = <<>> <=> Metric.brier = Nil
      /\ \A b \in Metric.brier, a \in Metric.accuracy :
           /\ b.of = a.of
           /\ SumFunction([k \in DOMAIN Metric.calibration |-> Metric.calibration[k].count]) = a.of
           /\ SumFunction([k \in DOMAIN Metric.calibration |-> Metric.calibration[k].correct]) = a.sum

\* The confusion counts and the accuracy are the same count, and the Brier sum
\* lies between the best and the worst score: 0 exactly when every case gave all
\* of its probability to what was expected, and never more than 2 a case
\* (EVALUATION.md). It says nothing of the label predicted, which a provider may
\* pick against its own distribution.
CountsAgree ==
    metrics # Nil =>
      /\ SumFunction(Metric.confusion) = Metric.scored
      /\ \A a \in Metric.accuracy :
           SumFunction([p \in {q \in DOMAIN Metric.confusion : q[1] = q[2]} |->
                          Metric.confusion[p]]) = a.sum
      /\ \A b \in Metric.brier :
           /\ 0 <= b.sum /\ b.sum <= 2 * Unit * Unit * b.of
           /\ b.sum = 0 <=> \A i \in DOMAIN scored : \A d \in scored[i].distribution :
                              d[scored[i].expected.label] = Unit

\* A percentile is the least latency observed that at least that share of the
\* calls did not exceed (percentile).
PercentilesObserved ==
    metrics # Nil /\ Metric.scored > 0 =>
      LET atMost(v) == Count(scored, LAMBDA c : c.latency <= v)
          l == Metric.latency
          seen == {scored[i].latency : i \in DOMAIN scored}
      IN  /\ {l.p50, l.p95, l.max} \subseteq seen
          /\ 2 * atMost(l.p50) >= l.count /\ 100 * atMost(l.p95) >= 95 * l.count
          /\ \A v \in seen : /\ v < l.p50 => 2 * atMost(v) < l.count
                             /\ v < l.p95 => 100 * atMost(v) < 95 * l.count
          /\ l.p50 <= l.p95 /\ l.p95 <= l.max /\ atMost(l.max) = l.count

\* A gated command succeeds only when it has been through every case, accuracy
\* was measured, and it is no lower than the number the gate names (applyGate).
GateHolds ==
    \A g \in gate : exit = {ExitOK} =>
      /\ Len(scored) + Len(failures) = Len(dataset.cases)
      /\ g.kind # "text"
      /\ \E a \in Metric.accuracy : g.kind = "number" => a.sum * Unit >= g.at * a.of

\* The command always ends, with metrics unless it was refused or cancelled.
RunEnds == <>(pc = "done" /\ (metrics = Nil => exit \in {{ExitBadInput}, {ExitConfig}, {ExitTimeout}}))

\* "still counted in the denominator. Dropping it would quietly improve the
\* score" (docs/EVALUATION.md, of a case that produced no usable judgment).
FailuresStayInDenominator ==
    metrics # Nil => \A a \in Metric.accuracy : a.of = Metric.cases
=============================================================================
