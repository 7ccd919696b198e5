----------------------------- MODULE JevParsing -----------------------------
(***************************************************************************)
(* One body of a 200 response arriving at the Jev adapter, and what the    *)
(* adapter makes of it: parseResponse over every body of a bounded set.    *)
(***************************************************************************)
EXTENDS JevResponse

CONSTANT Exchanges   \* pairs [req, bodies]: a request and the bodies it may get

\* The adapter is asked what the engine validated, and reads what it decoded.
ASSUME ExchangesAssumption ==
    \A e \in Exchanges :
      /\ \A id \in DOMAIN e.req : AskedQuestion(e.req[id])
      /\ \A b \in e.bodies : \A id \in DOMAIN b.answers : WireAnswer(b.answers[id])

VARIABLES
    req,     \* the questions asked
    strict,  \* Config.StrictSchema
    body,    \* the body that arrived
    parsed   \* what parseResponse returns; Refused("unread") before it runs

vars == <<req, strict, body, parsed>>

Init ==
    /\ \E e \in Exchanges : req = e.req /\ body \in e.bodies
    /\ strict \in BOOLEAN
    /\ parsed = Refused("unread")

Parse ==
    /\ parsed.why = "unread"
    /\ parsed' = ParseResponse(req, body, strict)
    /\ UNCHANGED <<req, strict, body>>

Next == Parse

Spec == Init /\ [][Next]_vars

---------------------------------------------------------------------------
\* What a judgment may hold: numbers in their range, values of the question.
JudgmentOK(q, j) ==
    /\ j.type = q.type /\ j.compiledTo = CompiledTo(q.type)
    /\ j.bool \in Ptr(BOOLEAN)
    /\ j.choice \in Ptr(NamesOf(q))
    /\ j.score \in Ptr(0 .. (Len(q.names) - 1) * Unit)
    /\ j.probabilityYes \in Ptr(0 .. Unit)
    /\ j.probabilities \in Ptr([NamesOf(q) -> 0 .. Unit])
    /\ j.confidence \in Ptr(0 .. Unit) /\ j.margin \in Ptr(0 .. Unit)

\* Whatever the body says, a judgment holds only values of its question and
\* numbers in range.
TypeOK ==
    /\ strict \in BOOLEAN
    /\ parsed.why \in {"unread", "envelope", "identity", "answer", ""}
    /\ parsed.accepted <=> parsed.why = ""
    /\ \A id \in DOMAIN parsed.judgments : JudgmentOK(req[id], parsed.judgments[id])

\* No answer to a question that was never asked and no missing answer is let
\* through, and each judgment carries exactly the one value its type calls for.
AnswersWhatWasAsked ==
    parsed.accepted =>
      /\ DOMAIN parsed.judgments = DOMAIN req /\ DOMAIN body.answers = DOMAIN req
      /\ \A id \in DOMAIN req :
           LET j == parsed.judgments[id] IN
           /\ j.bool # Nil   <=> Lower(req[id].type) = "noul"
           /\ j.choice # Nil <=> Lower(req[id].type) = "choice"
           /\ j.score # Nil  <=> Lower(req[id].type) = "score"

\* A confidence, probability or distribution the provider did not report is
\* absent from the judgment, and there is a margin exactly where there are
\* probabilities to restate.
AbsentStaysAbsent ==
    parsed.accepted =>
      \A id \in DOMAIN req :
        LET a == body.answers[id]  j == parsed.judgments[id] IN
        /\ j.confidence = a.confidence
        /\ j.probabilityYes = a.noul
        /\ j.probabilities # Nil =>
             a.form = IF Lower(req[id].type) = "score" THEN "array" ELSE "object"
        /\ j.margin # Nil <=> j.probabilityYes # Nil \/ j.probabilities # Nil

\* The margin reads the distribution: it is 0 exactly on a tie at the top (a
\* noul's tie is a no), Unit exactly when one alternative has all the mass.
MarginReadsDistribution ==
    parsed.accepted =>
      \A id \in DOMAIN req :
        LET j == parsed.judgments[id] IN
        /\ \A p \in j.probabilityYes, m \in j.margin :
             /\ m = 0 <=> 2 * p = Unit
             /\ m = 0 => j.bool = {FALSE}
             /\ m = Unit <=> p \in {0, Unit}
        /\ \A d \in j.probabilities, m \in j.margin :
             /\ m = 0 <=> \E n1, n2 \in DOMAIN d :
                  n1 # n2 /\ d[n1] = d[n2] /\ \A n \in DOMAIN d : d[n] <= d[n1]
             /\ m = Unit <=> \E n \in DOMAIN d : d[n] = Unit

\* A strict schema only refuses more: what it lets through, a relaxed schema
\* lets through with the same judgments.
StrictOnlyRefuses ==
    parsed.accepted /\ strict => parsed = ParseResponse(req, body, FALSE)

\* "an absent value stays absent rather than becoming a zero that nobody
\* reported" (comment on DecisionReceipt): every recorded probability was sent.
NullStaysAbsent ==
    parsed.accepted =>
      \A id \in DOMAIN req :
        parsed.judgments[id].probabilities # Nil =>
          \A n \in DOMAIN body.answers[id].values : body.answers[id].values[n] # {}

\* "how decisively the distribution favours the selected value" (comment on
\* InstinctMargin): with a margin, the selected option is the likeliest one.
MarginFavoursSelection ==
    parsed.accepted =>
      \A id \in DOMAIN req :
        LET j == parsed.judgments[id] IN
        \A c \in j.choice, d \in j.probabilities, m \in j.margin :
          m > 0 => \A n \in DOMAIN d : d[n] <= d[c]
=============================================================================
