# HowlInstinct in TLA+

Specifications of HowlInstinct (`src/`), checked with TLC on small instances; every safety
property of the passing runs is also proved with TLAPS, for every value of the constants.
Source references below are relative to `src/`.

- [The system](#the-system)
- [What is hard to test](#what-is-hard-to-test)
- [Modules and the code they model](#modules-and-the-code-they-model)
- [Runs](#runs)
- [Fairness](#fairness)
- [Proofs](#proofs)
- [Where code and documentation disagree](#where-code-and-documentation-disagree)
- [What is not modelled](#what-is-not-modelled)
- [Plan](#plan)

## The system

A caller hands over a *state* (a text) and a batch of bounded *questions*. Each question
is a `noul` (yes or no), a `choice`, a `score` over ordered levels, or a `classify`,
which is a choice by another name. A *provider* answers with probabilities; the engine
turns the answer into *judgments*, applies the caller's own escalation thresholds, and
leaves a *receipt* for every question. `howlinstinct eval` measures a provider against
a labelled dataset with the same engine.

```
 pkg/cli  decide, eval, doctor ──> internal/config      file, environment, flags
    │                                   │
    │ instinct.Request                  │ Config
    ▼                                   ▼
 internal/decision  Engine.Decide ──> instinct.Provider ──> internal/provider/jev  HTTP
    │   lower / restore / escalate         (interface)      internal/provider/mock
    ▼
 pkg/receipt  Build                     internal/eval  Run ──> Engine.Decide per case
```

| Component | State | Operations | Hard behaviour | What makes it correct |
|---|---|---|---|---|
| Vocabulary (`pkg/instinct`) | none | lower a type, derive a bool and a margin, apply an escalation rule, validate a request | ties, absent values, limits | nothing is invented for what was not reported; a rule the caller wrote is applied to the question it names |
| Engine (`internal/decision`) | an id generator shared by all its calls | `Decide` | every way out of a call leaves receipts; the deadline; ids across calls | one receipt per question asked, in the caller's words, with unique ids; a failure says what kind it was |
| Decoding (`pkg/instinct/decode.go`) | none | `DecodeRequest`: a token walk, then a decode of the same bytes | two readers that may disagree on what a key is | no question is dropped on the way in |
| Receipts (`pkg/receipt`) | none in memory; stored files | `Build`, `Validate`, `Parse`, `Load` | the provider answers only some questions | a receipt says what the judgment says; receipts only accumulate; what is written can be read back |
| Jev adapter (`internal/provider/jev`) | per call: attempt, last error, timers | `Decide`, `send`, `attempt`, `backoff`, `parseResponse` | retries, Retry-After, three kinds of timer, late and partial answers, interrupts | bounded requests, bounded time, only transient failures repeated, only matching answers accepted |
| Mock (`internal/provider/mock`) | a fixed script | `Decide` | omitted judgments | keeps the provider's contract |
| Evaluation (`internal/eval`, `pkg/cli/eval.go`) | scored cases, failures | `Load`, `Run`, metrics, gate | failures in mid-run, interrupts, empty denominators | every case accounted for; metrics describe one population; the gate opens only on a measured accuracy |
| Configuration (`internal/config`) | none | merge defaults, file, environment, flags | each layer tests for presence differently | the later layer wins, field by field |
| Command line (`pkg/cli`, `cmd`) | the process's context | `decide`, `eval`, `doctor`, ... | SIGINT, exit codes, printing after a failure, thresholds from two sources | the exit code tells the kind of the error; what the caller wrote takes effect; doctor warns of what would fail |
| Dogfood example (`examples`) | none | `handle`, `policy.Apply` | receipts of failed and partial calls | it acts only on answers; what could not be judged goes to a human |

The components interact by direct calls on one goroutine. Concurrency comes from
outside: the provider, the network, the clock behind `context.WithTimeout`,
`http.Client.Timeout` and the backoff timer, and a user who may interrupt. What is
asynchronous is therefore modelled as actions of the environment, interleaved with the
program's own steps.

## What is hard to test

`PROJECT.json` lists every hazard at its line with the properties that would catch it.
The important ones are:

- the retry loop: off by one; repeating what must not be repeated; a pause computed from
  another error than the one that caused the retry; a wait that ignores the deadline;
- one failure seen two ways, as a timeout or an unavailable provider, depending on when
  the context is read;
- the failure path of `Decide`, which must leave the same trace as the success path;
- rules looked up by question id, and thresholds on values that were never reported;
- identifiers drawn from one generator by calls that succeed, fail or are refused;
- the four places of `Run`'s loop where a case can fail, and the denominators after;
- four layers of configuration, each with its own idea of what it means to be silent;
- the end of `decide`, where a failed decision is still printed, printing may fail too,
  and one exit code has to tell which;
- a document that two readers walk one after the other.

## Modules and the code they model

| Module | Code | Content |
|---|---|---|
| `Instinct` | `pkg/instinct` judgment.go, decision_type.go, outcome.go, errors.go | values and pure operators: lowering, margins, `ApplyEscalation` |
| `Requests` | `pkg/instinct` request.go, question.go, limits.go | `ValidRequest` and its parts |
| `ProviderContract` | `pkg/instinct/judgment.go`, interface `Provider` | **abstract**: a call answers once, says "timeout" only over a finished context, and honours that context |
| `Backoff` | `jev.go` backoff, parseRetryAfter | the delay before a retry, and exactly when its 64-bit shift and the seconds of a Retry-After wrap |
| `JevProvider` | `jev.go` Decide, send, attempt, statusError, sleepCtx | one call of the adapter, timed |
| `JevResponse` | `validate.go` | `ParseResponse` as pure operators |
| `JevParsing` | `jev.go:97` | one body arriving, so that TLC runs `ParseResponse` over every body of a set |
| `Lowering` | `decision.go` lower, restore, failureResponse | what the engine does to questions and judgments |
| `AuditTrail` | `receipt.go` Build | **abstract**: whole batches of receipts, under fresh batch ids, nothing rewritten |
| `Decision` | `decision.go` Decide, `receipt.go` Build | a sequence of calls on one engine, over any provider that keeps `ProviderContract` |
| `Datasets` | `internal/eval/dataset.go` | dataset validation and expected labels |
| `Metrics` | `internal/eval/metrics.go`, `run.go` score | accuracy, confusion, Brier score, calibration, latency |
| `ExitCodes` | `pkg/cli/exit.go` | the exit code of an error kind |
| `Evaluation` | `internal/eval/run.go` Run, `pkg/cli/eval.go` | the eval command from loading to its exit code |
| `Decoding` | `pkg/instinct/decode.go` | the duplicate-key walk over a document chosen token by token, and the decode of the same tokens |
| `StoredReceipts` | `receipt.go` Validate | what a reader of stored receipts accepts |
| `Policy` | `examples/dogfood/policy/policy.go` | `Apply` as a pure operator |
| `Dogfood` | `examples/dogfood/main.go` handle | `Decision` with its two consumers, the reader and the policy |
| `Configuration` | `internal/config`, `pkg/cli` flags.go, provider.go, doctor.go, `jev/config.go` | the layers, what is refused, the adapter built, doctor's warnings |
| `DecideCommand` | `pkg/cli/decide.go` | the decide command from its configuration to its exit code, around the engine |
| `InductionFacts` | | induction in first-order form; sums and counts over finite sets |
| `JevProviderProofs`, `JudgmentProofs`, `JevParsingProofs`, `DecisionProofs` (with `Dogfood`), `DecodingProofs`, `DecideCommandProofs`, `EvaluationProofs` | | theorems |
| `MC*` | | instances for TLC |

How they fit: `JevProvider` implements `ProviderContract` (checked and, for safety,
proved). `Decision` composes the engine with `ProviderContract`, so what holds of it
holds over the adapter. The judgments a provider returns in `Decision` and `Evaluation`
are those `JevResponse!ParseResponse` makes of some body. `Decision` implements
`AuditTrail`. `Dogfood` extends `Decision` with what its callers do with the receipts.
`DecideCommand` instantiates `Decision` as its engine, on one call of the request that
its flags or its document make, so the command and the engine share their formulas, and
narrows the provider to what the mock or a Jev adapter with or without its credential
may return.

**A variable is a variable of the code** unless its comment says otherwise.
Correspondence in brief:

- `JevProvider`: `attempt`, `lastErr` are `send`'s locals; `sent`, `started`, `failedAt`
  and `wake` record when things happened, for the clock and for the properties. `pc`
  names the place in `Decide`: before the credential is read (*called*), at the head of
  the loop (*ready*), in `client.Do` (*inflight*), in `io.ReadAll` (*reading*), in
  `parseResponse` (*parsing*), in `sleepCtx` (*asleep*). `AttemptFails` is the whole rest
  of an iteration of `send` after an attempt's error: return it, or compute the backoff
  and go to sleep. *panicked* is the panic of `rand.Int63n` on a window that is not
  positive. `retryAfter` is the header as it was sent; what it comes to is
  `ParseRetryAfter`, in a word that holds fewer than `HalfWord` ticks. `body` is the size of
  what follows the headers: whole, or more than `MaxResponseBytes`, which is found out before
  the status is looked at (`WithinLimit`).
- `Decision`: `log` is what callers got back, one entry per call, with its receipts.
  `issued` counts identifiers drawn from `newID`; ids are numbered in that order.
  `Submit` is `Decide` up to the provider call, `During` is the provider's time, and
  `ReturnFailure` and `ReturnJudgments` are everything after it, the building of
  receipts included. `InterruptBetween` is a signal while nobody has called: the context
  that a later call is handed is over already. Provider steps come from the instance of `ProviderContract` and so
  are the same formulas the adapter implements.
- `Evaluation`: `pc` is where `runEval` is; `StartCase`, `CallFails` and `CallAnswers`
  are the body of `Run`'s loop, `Finish` is metrics, report and gate. `BadFlags` is a missing
  `--dataset` or a threshold that cannot be read; a JSON report that cannot be written is one
  of the `Verdicts` of `Finish`, since the gate is then never reached. The call itself
  appears as what the harness sees of it. That calls return is a property of `Decision`.
- `DecideCommand`: `setup` is what the process is started with and never changes.
  `stage` is where `runDecide` is: `LoadConfig` is `config.Load`, `ReadRequest` is
  `buildRequest`, `BuildProvider` is `buildProvider`; `Ask`, `AdapterReturns`,
  `ClockRuns` and `DecideReturns` are the engine's steps; `Output` is `render` with the
  exit that follows. An interrupt before the engine is asked is the engine's own
  `InterruptBetween`: it only ends the context, which the engine then looks at.
- `Configuration`: a layer is a function from fields to pointers, Nil where that layer
  counts as silent by *its own* test (`FileLayer`, `EnvLayer`, `FlagLayer`), and
  `Resolved` lays one over the other.
- `Decoding`: `stack` is the stack of open calls of `walkObject` and `walkArray` with the
  keys each has seen. The reference that the walk is compared with (`KeysOf`, `Written`)
  reads the finished document by position and shares nothing with the walk.

**Values.** A pointer is a set of at most one element. Probabilities and thresholds are
multiples of 1/`Unit`; a text is `"ok"`, `""` (empty) or `"bad"` (too long or not
UTF-8). A hash stands for its preimage. Question ids are numbers in the order of the
sorted strings.

**Faulty variants.** A definition directly above another with the same parameters and a
name that tells of a fault (`BudgetSpentEarly`, `AnyRule`, `RetryAfterIgnored`) is a
deliberately broken version of it. `PROJECT.json` pairs each with a property it breaks;
no specification uses them.

## Runs

All runs have CHECK_DEADLOCK off, since each system may end or its caller stop calling.

| Run | States | Shows |
|---|---|---|
| `jev_send` | 356 544 | retry budget, what is repeated, pauses, deadline, honest timeouts, and that the adapter implements `ProviderContract`, liveness included |
| `jev_parse` | 120 320 | accepted bodies answer exactly what was asked; nothing absent is invented; margins read the distribution; strict decoding only refuses more |
| `decide` | 93 374 | one receipt per question; unique ids; the caller's words; rules govern what they name and nothing else; failures recorded; `AuditTrail` implemented; calls return; every receipt can be read back; the example's policy acts only on answers and sends the rest to a human |
| `decide_command` | 104 280 | the exit code tells the outcome; nothing asked goes unprinted; the caller's thresholds and retention count; the last layer that speaks reaches the adapter; doctor foretells configuration failures; the command ends |
| `decode` | 351 427 | exactly the documents with a repeated key in one object are refused as ambiguous; of those spelled as documented no question is dropped |
| `eval` | 44 352 | every case accounted for, and scored in its turn against what it expects; metrics of one population; the confusion counts agree with accuracy; the Brier sum is between the best and the worst, and the best only where it should be; percentiles are the least observed that cover their share; the gate; the command ends |
| `backoff_panics`, `invalid_input_after_contact`, `null_becomes_zero`, `margin_against_selection`, `eval_denominator`, `duplicate_collapses` | | the counterexamples of [the disagreements](#where-code-and-documentation-disagree) |

Bounds, and why they are enough:

- `jev_send`. Budgets -1, 0, 1, 2: a clamped budget, none, one retry, and two, which is
  the first with a *second* retry whose pause must come from the second error. Statuses
  are one of each class `statusError` distinguishes (with both 429 and 503 among the
  transient ones), each with a body within `MaxResponseBytes` or beyond it. `RetryAfters` are no header, seconds 0, 2, 9 and 20, and dates past and
  to come: no advice in each spelling, advice below and above `MaxRetryAfter`, and a product
  that wraps in a word of 32 ticks (`HalfWord` 16; a scale of its own, narrow enough for
  small numbers to wrap). Windows are scaled to 2 and 3 ticks, so the ceiling is hit by the
  second. `Deadline` 6 falls in, between and after attempts and backoffs; client
  timeouts are one that fires before it and one that does not. The word of the
  shift stays at 64 bits; no budget here reaches the wrap. `backoff_panics` has a budget of 40 to reach it.
- `jev_parse`. One question of each type with every field present, absent, null, in and
  out of range (`Unit` = 4, so numbers from -1/4 to 5/4), wrong distribution forms and
  keys; and a batch of two for identity: every subset of three ids answered.
- `decide`. Two calls per engine, since every cross-call property relates at most two;
  batches of two questions of different lowering, and the three of the dogfood example;
  six requests that pass, eight that are each refused for another reason; rules on
  confidence, on margin, on both, on one question or both, met exactly and missed by one
  step; answers with and without a reported confidence and a distribution, a tie
  included; any subset left out. The example's category comes without a distribution,
  with one that passes the rule but not the policy, and with one that passes both; the
  severity is worth a page or a ticket, so the policy takes each of its four actions.
- `decide_command`. One process per setup. The setups vary one group of layers around a
  fixed request (provider, endpoint, numbers, file), then the request around two
  configurations. Each field has, per layer, silence in every spelling the code knows
  (absent, blank, malformed, out of range) and one value of its own, so any two layers
  can disagree; a threshold may be absent, unreadable, out of range, or so high that only
  a decisive answer meets it. Base URLs are one of each class that `jev.New` or doctor
  tells apart.
- `decode`. Ten tokens are enough for a repeated key in the document itself, in
  `questions`, in a question, and in an object below an array or two, and for the same key
  in two objects of one document, which is no repetition. `duplicate_collapses` has a
  document of twelve.
- `eval`. Datasets of three cases over three question types or one, one that loads although
  the engine refuses the state of its first case, and ten refused ones; a rule that no
  request may carry, so that every case is refused; gates absent, a number, NaN and text; an
  interrupt anywhere. Three cases are the least for
  which a percentile's rank is not the first or last by accident.

## Fairness

- `JevProvider`: weak fairness of `Program` (the goroutine runs when it can) and of `Tick`
  (time passes while the code is blocked). The provider, the network and the user owe
  nothing: a provider that never answers is a behaviour of the model, and the deadline
  alone ends the call. `Tick` is enabled only while nothing is due, which is the usual
  assumption that the program is faster than its timers.
- `ProviderContract` and `Decision`: the deadline fires (`context.WithTimeout`,
  `decision.go:90`), a provider over a finished context returns (which `jev_send` checks
  of the adapter), and `Decide` goes on after the provider returned. Nobody has to submit
  and nobody has to interrupt.
- `Evaluation`: weak fairness of the command's own steps; the return of a call, assumed
  here, is `CallsReturn` of `Decision`.
- `DecideCommand`: weak fairness of each of the command's own steps, of the deadline, and
  of the adapter's return once the context is over. Reading is fair only where it is not
  standard input that is read: whoever writes there need never stop. `CommandEnds`
  therefore speaks of commands that have their request, and of all others from the start.
- `Decoding` is a sequential function; no liveness is claimed.

## Proofs

The constants stand for any values that satisfy the named assumptions, each as weak as
the code justifies. TLC evaluates each in the runs of the modules that extend its own.

| Assumption | Says |
|---|---|
| `BackoffAssumption`, `JevAssumption` | durations are natural numbers, the base positive and no larger than the ceiling; a second and the range of a word are positive; a header is absent, a number of seconds or a date |
| `UnitAssumption`, `LimitsAssumption`, `MaxCallsAssumption`, `DefaultsAssumption` | limits and bounds are positive, and so is the default timeout |
| `SubmissionsAssumption` | a request is a finite batch of questions under numeric ids, and a question has a type |
| `BodiesAssumption` | a decoded pointer holds at most one number |
| `ExchangesAssumption` | a question that reaches the adapter has one of the decision types and names nothing twice, which the engine's validation has seen to (`AskedQuestion`); of an answer, the pointers hold at most one value and the numbers are numbers (`WireAnswer`), which the JSON decoder has seen to |
| `SetupsAssumption`, `TypeIdsAssumption` | the numbers in a setup's layers are pointers to integers; at most one document is decoded, and it has the fields of a request and asks typed questions under numeric ids |
| `KeysAssumption`, `MaxTokensAssumption` | keys are tokens apart from brackets and values, and documents have a bound |
| `UrlsAssumption` | an absent or blank URL names no host |
| `InputsAssumption` | a dataset is a list of cases with at most one question of its own and one for a case, whose names are listed; a gate that is a number is a number; answers are as the decoder leaves them (`WireAnswer`); a latency is a natural number |

In each proof module the invariant comes first, then one lemma that the initial states have
it and one that a step keeps it, with one step per action; then one lemma per property,
*from the invariant*, and the theorem of the specification.

**`InductionFacts`** is what the others need of data of any size. The library's induction
theorems take an operator as a parameter, which no installed prover can instantiate, so
the induction is done over *sets*: a set of naturals that is not empty has a least member,
hence a set that holds 0 and is closed under successors holds every number (`LeastNumber`,
`EveryNumber`), and a family of finite sets that holds the empty one and is closed under
adding a member holds every finite set (`EverySubset`). From that come the existence of
iterates of a function (`IteratesExist`), and that the library's sum over a finite set,
which is defined by choosing an order, is that of one member and the rest, whichever it is
(`SumTakesOut`). The totals of the models rest on a dozen consequences: sums add, dominate,
rename and are bounded (`SumBounded`), and counting key by key counts everything
(`CountedByKey`).

**`JevProviderProofs`**, 9 theorems: `TypeCorrect`, `BudgetKept`, `DeadlineKept`,
`TimeoutsHonest`, `BackoffIsCapped`, `RepeatsOnlyTransient`, `RepeatsWait`,
`SmallBudgetsNeverPanic`, and `SafeProvider`, the safety part of `ProviderContract`. None of
the properties is inductive. The invariant

    Inv == TypeOK /\ SentInv /\ ClockInv /\ RetryInv

adds what the program counter means: `SentInv` ties the number of requests to the loop
variable at each place, `ClockInv` says that the context is over from the deadline on
and that only a returned call has a result, and `RetryInv` says that a retry under way
stands on a transient error and has the pause that very error asks for ahead of it or
behind it, and no more than the longest pause. One step per action of `Next`; the three
actions that end an attempt share the lemma about `AttemptFails`. The two action properties
then follow, since a request leaves only in `Send`. That the pause is capped needs the range
of the doubling window, a recursive function, for every retry (`GrownBounded`).
`SmallBudgetsNeverPanic` is the other side of the run `backoff_panics`: as long as every
budget leaves room in the word for the base to double (`BitsFit`; 36 retries with 64 bits
and 200 ms) no call panics. It is the one theorem with a hypothesis beside the named
assumptions, and the run shows that it cannot be dropped. `RepeatsWait` speaks of the header
that was sent and not of what became of it, so it needs besides `Inv` that the advice a retry
stands on is in the header of the very answer that failed (`AdviceInv`), and that a product
of seconds survives the word if it fits (`WrappedFits`). `AdviceInv` also says that an error
which names a status comes of an answer whose body was within the limit, which
`RepeatsOnlyTransient` needs: an oversized 503 is never repeated.

**`JudgmentProofs`** has the lemmas about judgments as records: which fields an update
leaves alone, what each kind of answer contributes, that a judgment reports exactly what
its answer says (`JudgedSays`), that `Judged` (with whatever body) makes a complete judgment
that no rule has been applied to yet (`JudgedFresh`), that telling a judgment in a
question's words is idempotent, and that an escalated judgment differs from its original
only as the rule says (`EscalationFollows`, `RestoredFollows`). Its second half is about
distributions: an accepted one gives every name of the question a share, and the shares
come to one (`DistributionFits`); the margin made of it is the difference of its two
greatest shares (`MarginReads`, `YesMarginReads`).

**`JevParsingProofs`**, 5 theorems besides `ParseInvariance`, whose invariant `ParseInv`
only says that the result is that of `ParseResponse` on the exchange:
`AnswersMatchQuestions`, `NothingInvented`, `StrictnessIsMonotone`, `JudgmentsInRange` and
`MarginsReadTruly`. So everything that `jev_parse` checks on a grid holds of any body.

**`DecisionProofs`**, 12 theorems: `Invariance`, `TypeCorrect`, then every safety property
of the `decide` run that is the engine's own (`QuestionsReceipted`, `UniqueIdentifiers`,
`Vocabulary`, `RulesAlwaysGovern`, `EscalationNeedsRule`, `FailureRecorded`), and
`TrailImplemented`: the engine implements `AuditTrail`. The invariant

    Inv == CallInv /\ IssuedInv /\ JudgmentsInv /\ EveryQuestionReceipted /\ IdentifiersUnique

needs, beside the two properties, that a call under way is of a valid request whose
lowered questions the provider was given (`CallInv`); that every identifier in the log
has been issued, and the batch under way *after* all of them (`IssuedInv`), without
which ids could collide later; and that the judgments of every past call fit its
request, rules and error (`JudgmentsInv`). The argument has three parts. The receipts of
one `Build` are numbered by rank, which is injective on a finite set of ids and stays
within its cardinality (`RankBounds`, `RankInjective`, `BuildReceipts`). Both ways out
of a call produce judgments that fit (`FailureFits`, `AnswersFit` through
`FollowingSettles`). Whatever fits, finishing a call with it keeps the invariant
(`FinishInv`) and is one step of the trail (`FinishRecords`). The other properties are
consequences of the invariant alone, through `ReceiptsFit`. The same invariant gives the
three about the consumers of receipts in `Dogfood`: `BuiltIsValid`, `UnknownEscalates` and
`ActsOnAnswers`. The last needs that a failed or omitted question is *told* as such in its
receipt, and that a margin which passed a rule was reported.

**`DecodingProofs`**, 3 theorems: `WalkInvariance`, `WalkRefusesRepeats` and
`NoQuestionLost`, so both properties of `decode` for documents of any length and depth.

    WalkInv == /\ doc \in Seq(Tokens) /\ stack \in Seq(Frames)
               /\ Depth(Len(doc) + 1) = Len(stack)
               /\ verdict # "duplicate" => each frame i of the stack Began at an opening
                      bracket o of the document, and has seen KeysOf(o)
               /\ verdict = "duplicate" <=> Repeats

relates the walk to a reference that counts brackets by position and knows no stack. It
takes lemmas on how `Depth` and `KeysOf` change when a token is appended (`CountGrows`,
`DepthGrows`, `KeysGrow`), and that brackets opened before stay open until their own level
is left (`StillBegan`). `NoQuestionLost` adds `EndInv`, what the second reader did with a
document the first had walked, and that without a repetition every key is written at one
place (`WrittenOnce`).

**`DecideCommandProofs`**, 6 theorems beside three invariants. `ConfigInv` says that a loaded
configuration is the resolved one, valid and well-typed, and an adapter the one built from
it; `LastWordCounts` follows by comparing the layers field by field. `RunInv` ties the
stage to the engine's own state: no entry in the log before the engine was asked, the
kind of every error one that its adapter can return, and what the exit code stands for.
`ExitCodesTell` and `DoctorIsRight` follow; the latter needs that validity of a request
means the same to the command and to the engine (`SameValidity`), so that the engine never
refuses what the command let through. `AnswerInv` says that the request asked is the one
made of the setup, that the call in the log tells of it (`CallTold`: a receipt per question,
governed by the question's own rule), and that what is printed is that call.
`EverythingPrinted` and `CallersWordHolds` follow. The lemmas called `Same...` carry the
facts about judgments over to the engine's instance; `EngineImplemented` says that every
step of the command is one of the engine's or leaves all its variables alone
(`EngineStep`), on requests that meet the engine's assumption (`RequestedSubmittable`), so
the safety of a `Decision` of one call is the command's as well (by substitution: tlapm
fails on a citation through an instance of a module with proofs); `RequestSays` is what the request of
each kind of setup, flags or document, says of thresholds and retention.

**`EvaluationProofs`**, 9 theorems beside the three invariants. `RunInv` has `CasesInv`, which
counts the cases behind the loop variable and keeps the failures in order, and `EndInv`:
metrics are those of the whole run, the exit code is then one of their `Verdicts`, and without
them it is not 0. `GateIsSound` follows: a gated command can only succeed on an accuracy that
was measured over the whole run. `CasesAccounted` needs `PairedInv` as well: a case that is
not listed as a failure is the n-th of the scored ones where n is its own number less the
failures before it, and was scored against what it expects. A failure that is added comes
after every case so far and moves no turn (`FailureKeepsTurns`); a case that is answered has
every failure before it, so its turn is the next (`AnswerTakesItsTurn`). `ScoredInv` says of every case scored so far that its
labels are labels of its own question and that what it has for a distribution is one over
them (`AnswerIsWellScored`, from the validity of the dataset, of the request made of the
case, and of the answer accepted for it). Then come the metrics, as functions of any list of
such cases: the rank of a percentile lies in the list, and its latency is the least of the
list that enough of the list does not exceed (`PercentilesFit`); the confusion counts add up to the cases and its diagonal to those that
are right (`ConfusionFits`); a case's Brier score lies between 0 and 2, and so do the bounds
of the total (`CaseBrierFits`, `BrierFits`); the calibration bins hold every case once
(`CalibrationFits`). `LabelsAreProducible`, `PopulationsAgree`, `CountsAreTheSame` and
`PercentilesAreObserved` follow. `RoundsToNearest`, `BinHoldsProbability` and `RankIsLeast`
say what the arithmetic of the metrics stands for: the nearest level, the bin whose bounds
hold the probability, the least rank that covers its percentage. The proof of `CountsAreTheSame` corrected its property,
which at first tied a Brier score of 0 to full accuracy: a provider may pick an option
against its own distribution (see `margin_against_selection`), and the run now has an answer
that does.

**Only model-checked**: liveness (`CallsReturn`, `RunEnds`, `CommandEnds`, and the fairness
part of `ImplementsContract`), which is out of this prover's reach; and the runs that
expect a counterexample, whose claims are false.

## Where code and documentation disagree

Each is a run that expects a counterexample.

- **`backoff_panics`** (`jev.go:281`): the backoff shift has no bound on its exponent. At
  the 37th retry the 64-bit window is negative, the ceiling does not catch it, and
  `rand.Int63n` panics. The comment says that the cap bounds the worst case. It needs
  `max_retries` above 36, which configuration allows, and a provider that gives no
  Retry-After.
- **`invalid_input_after_contact`** (`jev.go:205`): a provider's 400 or 422 is reported
  as invalid input, which `errors.go:15` reserves for requests "rejected before any
  provider was contacted".
- **`null_becomes_zero`** (`validate.go:193`): a null in a distribution becomes a
  probability of 0, which `receipt.go:59` says never happens.
- **`margin_against_selection`** (`validate.go:184`): a choice that is not the likeliest
  option is accepted with the margin of another, although `judgment.go:59` calls the
  margin how decisively the distribution favours the selected value.
- **`eval_denominator`** (`metrics.go:132`): a failed case is not in accuracy's
  denominator, although `docs/EVALUATION.md:157` says it is.

- **`duplicate_collapses`** (`decode.go:107`): the walk compares keys exactly, the decoder
  matches field names without regard to case. In `{"questions": {"a": ...}, "Questions":
  {"a": ...}}` no object repeats a key, and the second question silently replaces the
  first, the very case the walk is there to refuse (`README.md:141`).

Met while modelling, modelled as the code has it, and without a run of their own:

- a Retry-After of more than 9223372036 seconds overflows before it is clamped
  (`jev.go:295`) and comes out negative, which counts as no advice, or short, although
  `docs/PROVIDERS.md` has Retry-After honoured up to five seconds; `RetryWaits` excepts it
  (`Fits`);
- a gate of `nan` passes whatever accuracy was measured (`eval.go:131`), although
  `docs/EVALUATION.md:167` says that "a gate that cannot be evaluated has not passed";
  `GateHolds` asks of such a gate only that there was an accuracy;
- an interrupt is reported with the kind `timeout`, which `errors.go` says means that the
  deadline elapsed;
- an interrupt does not end a `decide` that waits on standard input;
- with `--input` the threshold flags are read by nobody, though their help gives no such
  condition (`decide.go:104`);
- a closing bracket after the document is not trailing content to `Decoder.More`
  (`decode.go:52`), so it is accepted;
- `max_retries = 0` in the file counts as silence (`config.go:203`), while `--max-retries 0`
  means none; a file's timeout of zero or less and an environment's malformed number
  are passed over without a word;
- doctor says of its warnings that none stops HowlInstinct running (`doctor.go:57`), but a
  base URL without a host makes `decide` exit with 3, and a credential variable that is
  not set fails every call; it has no warning for a loopback address under a scheme other
  than http, which `jev.New` refuses;
- without `--json` no receipt is printed.

## What is not modelled

- The text level: JSON syntax, byte lengths, id patterns, wording and sanitising of
  errors, logging and redaction. None of it decides control beyond the classes "good",
  "empty" and "bad".
- Canonical JSON and SHA-256. A hash is its preimage, so "same hash" means "same input".
- Floating-point rounding. Sums of a distribution are exact on the grid, and the
  tolerance is finer than the grid.
- Log loss; its guard is Brier's, which is modelled.
- HTTP redirects and TLS.
- The mock's word-overlap heuristic: it is one of the providers that keep the contract.
- In `eval`, configuration and provider construction are one step that may fail; they are
  the steps that `DecideCommand` models in detail.
- `providers`, `version`, the describe and result envelopes of `interop.go` and the
  rendering of reports: they print what they are given and keep no state. `doctor` is the
  predicate of what it warns of.
- The fields of a document other than `questions` in `Decoding`, and its byte bound; the
  full validation of what was decoded is `Requests`.
- The constants, timestamp and provider name of a receipt in `StoredReceipts`, and the
  reading of its file.
- `internal/logging`: redaction of attribute values, without control worth a model.

## Plan

Done: the call of the adapter and its response validation, the engine with its receipts
and their readers, decoding, configuration, the `decide` and `eval` commands, the dogfood
policy; and a proof of every safety property the passing runs check.

Left, in this order:

1. The layers of configuration in `eval`, which `Evaluation` takes as one step that may fail,
   by the formulas of `DecideCommand`.
2. A run for the `nan` gate (`eval.go:131`) against the sentence of `docs/EVALUATION.md`
   quoted above, and one for a Retry-After that overflows (`jev.go:295`).
