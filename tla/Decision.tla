------------------------------ MODULE Decision ------------------------------
(***************************************************************************)
(* The decision engine (internal/decision/decision.go, Engine.Decide) and  *)
(* the receipts it builds (pkg/receipt/receipt.go, Build), over a sequence *)
(* of calls that share one engine.                                         *)
(*                                                                         *)
(* The provider behind it is any Provider that keeps ProviderContract. One *)
(* that answers does so with judgments the Jev adapter makes of some body, *)
(* or with fewer of them, as the scripted mock may.                        *)
(***************************************************************************)
EXTENDS Lowering

CONSTANTS
    Submissions,   \* the requests a caller may submit
    Bodies,        \* the response bodies a provider may send
    MaxCalls       \* bound: calls made with the engine

ASSUME MaxCallsAssumption == MaxCalls \in Nat \ {0}

ASSUME SubmissionsAssumption ==
    \A r \in Submissions :
      /\ DOMAIN r.questions \subseteq Nat /\ IsFiniteSet(DOMAIN r.questions)
      /\ \A id \in DOMAIN r.questions : "type" \in DOMAIN r.questions[id]

\* A decoded pointer holds at most one value.
ASSUME BodiesAssumption ==
    \A b \in Bodies : \A id \in DOMAIN b.answers : \A v, w \in b.answers[id].noul : v = w

VARIABLES
    pc,       \* idle, or calling the provider
    req,      \* the request of the current call
    asked,    \* the lowered questions the provider was given
    batch,    \* batchID of the current call
    ctx,      \* the context handed to the provider
    answer,   \* what the provider call returned: pending, ok or an error kind
    issued,   \* identifiers newID has returned so far
    log       \* the calls that have returned: their request, error and Result

vars == <<pc, req, asked, batch, ctx, answer, issued, log>>

Provider == INSTANCE ProviderContract WITH result <- answer

OneBatchPerEngine == 1

\* The batch id: the next identifier newID returns. Identifiers are numbered in
\* the order they are drawn.
FreshBatch == issued + 1

---------------------------------------------------------------------------
AnsweredOnly(r, judgments) == DOMAIN judgments

\* Build makes a receipt for each of these: every question asked.
Receipted(r, judgments) == DOMAIN r.questions

\* The place of an id in sorted order, from 1.
Rank(id, ids) == Cardinality({k \in ids : k <= id})

OneIdPerBatch(first, id, ids) == first

\* newID is called for each receipt in turn.
DecisionId(first, id, ids) == first + Rank(id, ids)

UnansweredAccepted(type) == EmptyJudgment(type, "ACCEPTABLE_CONFIDENCE")

\* A question the provider returned no judgment for.
Unanswered(type) == EmptyJudgment(type, "UNAVAILABLE")

\* The receipt of one question. Type and primitive are taken from the question,
\* the rest from its judgment, or from an UNAVAILABLE one where there is none.
\* A hash is its preimage.
Receipt(r, judgments, id, decision) ==
    LET q == r.questions[id]
        j == IF id \in DOMAIN judgments THEN judgments[id]
                                        ELSE Unanswered(q.type)
    IN  [decision |-> decision, batch |-> batch, question |-> id,
         stateHash |-> r.state, questionHash |-> q,
         state |-> IF r.retain THEN {r.state} ELSE Nil,
         judgment |-> [j EXCEPT !.type = q.type, !.compiledTo = CompiledTo(q.type)]]

Build(r, judgments) ==
    LET ids == Receipted(r, judgments)
    IN  {Receipt(r, judgments, id, DecisionId(issued, id, ids)) : id \in ids}

---------------------------------------------------------------------------
Init ==
    /\ pc = "idle" /\ req = <<>> /\ asked = <<>> /\ batch = 0
    /\ ctx = "live" /\ answer = "pending"
    /\ issued = 0 /\ log = <<>>

\* Decide up to the provider: an invalid request is returned at once, with no
\* identifier drawn. The deadline is per call; an interrupt is for good.
Submit(r) ==
    /\ pc = "idle" /\ Len(log) < MaxCalls
    /\ req' = r
    /\ \/ /\ ValidRequest(r)
          /\ pc' = "calling"
          /\ asked' = Lowered(r)
          /\ batch' = FreshBatch /\ issued' = issued + 1
          /\ answer' = "pending"
          /\ ctx' = IF ctx = "deadline" THEN "live" ELSE ctx
          /\ UNCHANGED log
       \/ /\ ~ValidRequest(r)
          /\ log' = Append(log, [req |-> r, err |-> "invalid_input", batch |-> 0,
                                 judgments |-> <<>>, receipts |-> {}])
          /\ UNCHANGED <<pc, asked, batch, ctx, answer, issued>>

\* A signal between two calls ends the context that later calls are handed.
InterruptBetween ==
    /\ pc = "idle" /\ Len(log) < MaxCalls /\ ctx # "interrupted"
    /\ ctx' = "interrupted"
    /\ UNCHANGED <<pc, req, asked, batch, answer, issued, log>>

\* The provider runs, and so does the clock, until the provider returns.
During(step) == pc = "calling" /\ step /\ UNCHANGED <<pc, req, asked, batch, issued, log>>

ProviderRuns ==
    \/ During(Provider!Expire) \/ During(Provider!Interrupt) \/ During(Provider!Return)

Finish(err, judgments) ==
    LET receipts == Build(req, judgments)
    IN  /\ log' = Append(log, [req |-> req, err |-> err, batch |-> batch,
                               judgments |-> judgments, receipts |-> receipts])
        /\ issued' = issued + Cardinality(receipts)
        /\ pc' = "idle"
        /\ UNCHANGED <<req, asked, batch, ctx, answer>>

\* The rest of Decide on an error: receipts for the failure, and the error.
ReturnFailure ==
    /\ pc = "calling" /\ answer \notin {"pending", "ok"}
    /\ Finish(answer, FailureJudgments(req, answer))

\* The rest of Decide on judgments: restore, escalate, build.
ReturnJudgments ==
    /\ pc = "calling" /\ answer = "ok"
    /\ \E b \in Bodies : \E kept \in SUBSET DOMAIN asked :
         LET parsed == ParseResponse(asked, b, TRUE)
             given  == [id \in kept |-> parsed.judgments[id]]
         IN  /\ parsed.accepted
             /\ Finish("", Escalated(req, Restored(req, given)))

Next ==
    \/ \E r \in Submissions : Submit(r)
    \/ InterruptBetween \/ ProviderRuns \/ ReturnFailure \/ ReturnJudgments

\* A deadline fires, a provider honours its context, and Decide goes on; the
\* caller need not submit and the user need not interrupt.
Fairness ==
    /\ WF_vars(During(Provider!Expire))
    /\ WF_vars(ctx # "live" /\ During(Provider!Return))
    /\ WF_vars(ReturnFailure) /\ WF_vars(ReturnJudgments)

Spec == Init /\ [][Next]_vars /\ Fairness
---------------------------------------------------------------------------
Calls == {log[i] : i \in DOMAIN log}

\* The calls that got as far as the provider.
Contacted == {c \in Calls : c.batch # 0}

AllReceipts == UNION {c.receipts : c \in Calls}

\* Every variable has its type.
TypeOK ==
    /\ pc \in {"idle", "calling"} /\ req \in Submissions \cup {<<>>}
    /\ issued \in Nat /\ batch \in 0 .. issued
    /\ ctx \in Provider!CtxStates /\ answer \in Provider!Results \cup {"pending"}
    /\ Len(log) <= MaxCalls
    /\ \A r \in AllReceipts :
         /\ r.batch \in 1 .. issued /\ r.decision \in 1 .. issued
         /\ r.judgment.type \in DecisionTypes /\ r.judgment.outcome \in Outcomes
         /\ r.judgment.reason \in Reasons

\* A question that was put to the provider leaves exactly one receipt, in the
\* batch of its call, whether the call failed, answered it or left it out; and a
\* receipt says what the returned judgment says, or UNAVAILABLE and no value when
\* there is none (Decide's doc comment, receipt.Build).
EveryQuestionReceipted ==
    \A c \in Contacted :
      /\ {r.question : r \in c.receipts} = DOMAIN c.req.questions
      /\ Cardinality(c.receipts) = Cardinality(DOMAIN c.req.questions)
      /\ \A r \in c.receipts :
           /\ r.batch = c.batch
           /\ IF r.question \in DOMAIN c.judgments
              THEN r.judgment = c.judgments[r.question]
              ELSE r.judgment = EmptyJudgment(c.req.questions[r.question].type, "UNAVAILABLE")

\* No identifier is ever given to two things: not to two receipts of a batch, not
\* across calls, and not to a receipt and a batch (decision.go's newID calls).
IdentifiersUnique ==
    /\ \A r, s \in AllReceipts : r.decision = s.decision => r = s
    /\ \A i, k \in DOMAIN log : log[i].batch = log[k].batch /\ log[i].batch # 0 => i = k
    /\ \A r \in AllReceipts, c \in Contacted : r.decision # c.batch

\* A provider is never asked to classify, and what comes back is told in the
\* caller's words: its own type, and the primitive only where it differs, on
\* judgments and receipts, answered or failed (lower, restore, failureResponse).
CallersVocabulary ==
    /\ pc = "calling" => \A id \in DOMAIN asked : asked[id].type \in {"noul", "choice", "score"}
    /\ \A c \in Calls :
         LET told(id, j) == /\ j.type = c.req.questions[id].type
                            /\ j.compiledTo = IF j.type = "classify" THEN "choice" ELSE ""
         IN  /\ \A id \in DOMAIN c.judgments : told(id, c.judgments[id])
             /\ \A r \in c.receipts : told(r.question, r.judgment)

\* A threshold is met by a value that was reported and is not below it.
Meets(threshold, reported) ==
    threshold # Nil => /\ reported # Nil
                       /\ \A t \in threshold, v \in reported : ~(v < t)

\* A rule the caller wrote always governs a receipt: none that was misspelled is
\* dropped, and nothing passes it on a value nobody reported (request.go, the
\* escalation keys; judgment.go, ApplyEscalation).
RulesGovern ==
    \A c \in Contacted : \A id \in DOMAIN c.req.escalation :
      \E r \in c.receipts :
        /\ r.question = id
        /\ r.judgment.outcome = "ACCEPTABLE_CONFIDENCE" =>
             /\ Meets(c.req.escalation[id].confidence, r.judgment.confidence)
             /\ Meets(c.req.escalation[id].margin, r.judgment.margin)

\* Nothing escalates but a rule of the caller's for that very question that is
\* not met, and an escalation is always a LOW_CONFIDENCE one with a reason.
EscalatesOnlyByRule ==
    \A c \in Contacted : \A r \in c.receipts :
      LET j == r.judgment
      IN  /\ j.escalate <=> j.outcome = "LOW_CONFIDENCE"
          /\ j.escalate <=> j.reason # ""
          /\ j.escalate =>
               /\ r.question \in DOMAIN c.req.escalation
               /\ LET rule == c.req.escalation[r.question]
                  IN  ~Meets(rule.confidence, j.confidence) \/ ~Meets(rule.margin, j.margin)

\* A call that fails after contact records ERROR where the answer could not be
\* trusted and UNAVAILABLE otherwise, for every question, with no value and no
\* escalation (failureResponse).
FailureIsRecorded ==
    \A c \in Contacted : c.err # "" => \A r \in c.receipts :
      /\ r.judgment.outcome = IF c.err = "provider_response_invalid" THEN "ERROR"
                                                                     ELSE "UNAVAILABLE"
      /\ r.judgment.bool = Nil /\ r.judgment.choice = Nil /\ r.judgment.score = Nil
      /\ r.judgment.confidence = Nil /\ r.judgment.margin = Nil /\ ~r.judgment.escalate

Trail == INSTANCE AuditTrail WITH
            trail <- {<<r.batch, r.question>> : r \in AllReceipts},
            BatchIds <- 1 .. MaxCalls * (MaxQuestions + 1),
            QuestionIds <- UNION {DOMAIN r.questions : r \in Submissions}

\* Across calls the receipts grow as an audit trail does: whole batches, under
\* batch ids never used before, and nothing rewritten (receipt.Build).
ImplementsTrail == Trail!Spec

\* A call that starts returns, since the deadline fires and providers honour it
\* (Decide's context.WithTimeout).
CallsReturn == (pc = "calling") ~> (pc = "idle")
=============================================================================
