----------------------------- MODULE JevProvider -----------------------------
(***************************************************************************)
(* One call of the Jev adapter (internal/provider/jev/jev.go): Decide, the *)
(* retry loop of send, one HTTP attempt, the backoff between attempts, and *)
(* the classification of every way an attempt can end.                     *)
(*                                                                         *)
(* The environment is the provider at the other end of the connection      *)
(* (which may answer late, badly, in part or never), the clock, and the    *)
(* user who may interrupt.  Time is discrete: the code's own steps take    *)
(* none, and Tick advances the clock only while the code is blocked.  At   *)
(* the instant two timers fire together either may be served first.        *)
(***************************************************************************)
EXTENDS Backoff

CONSTANTS
    RetryBudgets,    \* values of Config.MaxRetries
    ClientTimeouts,  \* values of Config.Timeout, in ticks
    Deadline,        \* the caller's deadline, in ticks from the call
    Statuses,        \* HTTP statuses the provider may send
    RetryAfters      \* the Retry-After headers it may send

ASSUME JevAssumption ==
    /\ RetryBudgets \subseteq Int
    /\ ClientTimeouts \subseteq Nat \ {0}
    /\ Deadline \in Nat \ {0}
    /\ Statuses \subseteq Nat
    /\ RetryAfters \subseteq Headers

VARIABLES
    retries,        \* p.cfg.MaxRetries
    clientTimeout,  \* p.client.Timeout
    now,            \* the clock
    ctx,            \* the caller's context
    pc,             \* where Decide is
    attempt,        \* send's loop variable
    sent,           \* requests put on the wire so far
    started,        \* when the current attempt was sent
    status,         \* the status line of the response being read
    retryAfter,     \* its Retry-After header
    body,           \* its body: whole, or oversized (longer than MaxResponseBytes)
    lastErr,        \* send's lastErr
    failedAt,       \* when lastErr was set
    wake,           \* when the backoff timer fires
    result          \* what Decide returned

vars == <<retries, clientTimeout, now, ctx, pc, attempt, sent, started, status,
          retryAfter, body, lastErr, failedAt, wake, result>>

config   == <<retries, clientTimeout>>
request  == <<sent, started>>
response == <<status, retryAfter, body>>
backoff  == <<lastErr, failedAt, wake>>

PCs == {"called", "ready", "inflight", "reading", "parsing", "asleep",
        "panicked", "returned"}

Bodies == {"whole", "oversized"}

\* A classified error; transient ones are wrapped in retryableError. http is
\* the status its message reports, 0 when it reports none.
Failure(kind, http) == [kind |-> kind, http |-> http, transient |-> FALSE, after |-> 0]

Retryable(after, f) == [f EXCEPT !.transient = TRUE, !.after = after]

NoErr == Failure("none", 0)

ConnectionErrorAsTimeout == Retryable(0, Failure("timeout", 0))

\* A transport or read error: worth repeating, with no advice on when.
ConnectionError == Retryable(0, Failure("provider_unavailable", 0))

EveryServerErrorRetried(s, header) ==
    LET kind == CASE s \in {401, 403} -> "configuration"
                  [] s \in {400, 422} -> "invalid_input"
                  [] OTHER            -> "provider_unavailable"
    IN  IF kind = "provider_unavailable" THEN Retryable(ParseRetryAfter(header), Failure(kind, s))
                                         ELSE Failure(kind, s)

\* A non-200 status as a classified error.
StatusError(s, header) ==
    CASE s \in {401, 403} -> Failure("configuration", s)
      [] s \in {400, 422} -> Failure("invalid_input", s)
      [] s \in {429, 502, 503, 504, 529} ->
             Retryable(ParseRetryAfter(header), Failure("provider_unavailable", s))
      [] OTHER -> Failure("provider_unavailable", s)

UnclampedBudget(r) == r

\* New turns a negative retry budget into none.
Budget(r) == IF r < 0 THEN 0 ELSE r

BudgetSpentEarly == attempt + 1 >= retries

BudgetSpent == attempt >= retries

---------------------------------------------------------------------------
Init ==
    /\ retries \in {Budget(r) : r \in RetryBudgets}
    /\ clientTimeout \in ClientTimeouts
    /\ now = 0 /\ ctx \in {"live", "interrupted"}
    /\ pc = "called" /\ attempt = 0
    /\ sent = 0 /\ started = 0
    /\ status = 0 /\ retryAfter = NoHeader /\ body = "whole"
    /\ lastErr = NoErr /\ failedAt = 0 /\ wake = 0
    /\ result = "pending"

Return(r) ==
    /\ result' = r
    /\ pc' = "returned"
    /\ UNCHANGED <<now, ctx, config, attempt>>

\* What send does with a failed attempt: final errors return as they are,
\* then the context is consulted, then the budget; else it backs off, and
\* the jitter of a window that has wrapped panics.
AttemptFails(f) ==
    /\ lastErr' = f /\ failedAt' = now
    /\ UNCHANGED <<request, response>>
    /\ \/ /\ ~f.transient \/ BudgetSpent \/ ctx # "live"
          /\ Return(IF f.transient /\ ctx # "live" THEN "timeout" ELSE f.kind)
          /\ UNCHANGED wake
       \/ /\ f.transient /\ ~BudgetSpent /\ ctx = "live"
          /\ attempt' = attempt + 1
          /\ IF Panics(attempt + 1, f.after)
               THEN pc' = "panicked" /\ UNCHANGED wake
               ELSE /\ pc' = "asleep"
                    /\ wake' \in {now + d : d \in Delays(attempt + 1, f.after)}
          /\ UNCHANGED <<now, ctx, config, result>>

\* The context's own error, which nothing retries.
ContextFails ==
    /\ ctx # "live"
    /\ lastErr' = Failure("timeout", 0) /\ failedAt' = now
    /\ Return("timeout")
    /\ UNCHANGED <<request, response, wake>>

---------------------------------------------------------------------------
\* Decide reads the credential at call time; without it nothing is sent.
Decide ==
    /\ pc = "called"
    /\ \/ pc' = "ready" /\ UNCHANGED <<now, ctx, config, attempt, result>>
       \/ Return("configuration")
    /\ UNCHANGED <<request, response, backoff>>

\* client.Do puts the request on the wire, unless the context is over.
Send ==
    /\ pc = "ready"
    /\ \/ /\ ctx = "live"
          /\ pc' = "inflight"
          /\ sent' = sent + 1 /\ started' = now
          /\ UNCHANGED <<config, now, ctx, attempt, response, backoff, result>>
       \/ ContextFails

AttemptIgnoresContext == FALSE

\* No response arrives because the context ended first.
ContextEndsAttempt == pc = "inflight" /\ ContextFails

\* The body cannot be read to its end because the context ended: a read
\* error like any other, which send then reports as the context's.
ContextEndsRead ==
    /\ pc = "reading" /\ ctx # "live"
    /\ AttemptFails(ConnectionError)

\* The client's own timer. Go drops it when the context's deadline is not later.
ClientTimerDue == now >= started + clientTimeout /\ started + clientTimeout < Deadline

ClientTimesOut ==
    /\ pc \in {"inflight", "reading"} /\ ctx = "live" /\ ClientTimerDue
    /\ AttemptFails(ConnectionError)

StatusBeforeLimit == body = "whole" \/ status # 200

\* What was read is no longer than MaxResponseBytes.
WithinLimit == body = "whole"

\* The whole body is there, within the limit. Only now is the status looked at.
ReadBody ==
    /\ pc = "reading" /\ WithinLimit
    /\ \/ /\ status = 200
          /\ pc' = "parsing"
          /\ UNCHANGED <<config, now, ctx, attempt, request, response, backoff, result>>
       \/ /\ status # 200
          /\ AttemptFails(StatusError(status, retryAfter))

\* More than the limit was read: that is the error, whatever the status.
OversizedBody ==
    /\ pc = "reading" /\ ~WithinLimit
    /\ AttemptFails(Failure("provider_response_invalid", 0))

\* parseResponse accepts the body or refuses it (module JevResponse).
Parse ==
    /\ pc = "parsing"
    /\ \E r \in {"ok", "provider_response_invalid"} : Return(r)
    /\ UNCHANGED <<request, response, backoff>>

\* sleepCtx's select: the timer or the context, at random when both are ready.
TimerFires == now >= wake
SleepIgnoresContext == FALSE
SleepInterrupted == ctx # "live"

Wake ==
    /\ pc = "asleep"
    /\ \/ /\ TimerFires
          /\ pc' = "ready"
          /\ UNCHANGED <<now, ctx, config, attempt, result>>
       \/ /\ SleepInterrupted
          /\ Return("timeout")
    /\ UNCHANGED <<request, response, backoff>>

---------------------------------------------------------------------------
\* The provider, the network, the clock and the user.
ConnectionFails ==
    /\ pc \in {"inflight", "reading"} /\ ctx = "live"
    /\ AttemptFails(ConnectionError)

\* The headers of an answer, and what is to follow them.
HeadersArrive ==
    /\ pc = "inflight"
    /\ pc' = "reading"
    /\ status' \in Statuses /\ retryAfter' \in RetryAfters /\ body' \in Bodies
    /\ UNCHANGED <<config, now, ctx, attempt, request, backoff, result>>

Interrupt ==
    /\ result = "pending" /\ pc # "panicked" /\ ctx = "live"
    /\ ctx' = "interrupted"
    /\ UNCHANGED <<config, now, pc, attempt, request, response, backoff, result>>

\* Blocked in the transport or in a backoff, with nothing due.
Blocked ==
    \/ pc \in {"inflight", "reading"} /\ ctx = "live" /\ ~ClientTimerDue
    \/ pc = "asleep" /\ ~TimerFires /\ ~SleepInterrupted

Tick ==
    /\ Blocked
    /\ now' = now + 1
    /\ ctx' = IF ctx = "live" /\ now' = Deadline THEN "deadline" ELSE ctx
    /\ UNCHANGED <<config, pc, attempt, request, response, backoff, result>>

Program == Decide \/ Send \/ ContextEndsAttempt \/ ContextEndsRead
             \/ ClientTimesOut \/ Parse \/ Wake

Environment == ReadBody \/ OversizedBody \/ ConnectionFails \/ HeadersArrive \/ Interrupt

Next == Program \/ Environment \/ Tick

\* The program runs and time passes; the provider and the user owe nothing.
Spec == Init /\ [][Next]_vars /\ WF_vars(Program) /\ WF_vars(Tick)

---------------------------------------------------------------------------
\* What an error may say of when to try again.
Advice == {0} \cup {ParseRetryAfter(h) : h \in RetryAfters}

Errors == [kind : {"none", "invalid_input", "configuration", "provider_unavailable",
                   "provider_response_invalid", "timeout"},
           http : {0} \cup Statuses, transient : BOOLEAN, after : Advice]

Contract == INSTANCE ProviderContract

\* The types of the variables; a retry budget is never negative.
TypeOK ==
    /\ retries \in Nat /\ clientTimeout \in ClientTimeouts
    /\ now \in Nat /\ started \in Nat /\ failedAt \in Nat /\ wake \in Nat
    /\ ctx \in Contract!CtxStates
    /\ pc \in PCs
    /\ attempt \in Nat /\ sent \in Nat
    /\ status \in {0} \cup Statuses /\ retryAfter \in {NoHeader} \cup RetryAfters
    /\ body \in Bodies
    /\ lastErr \in Errors
    /\ result \in {"pending"} \cup Contract!Results

\* A call costs the provider at most MaxRetries + 1 requests, and a transient
\* failure is given up on only when all of them have been made.
RetriesWithinBudget ==
    /\ sent <= retries + 1
    /\ result = "provider_unavailable" /\ lastErr.transient => sent = retries + 1

\* A request is repeated only while the caller still waits, and only after a
\* rate limit, a gateway or overload error, or a connection that failed: never
\* after a rejected request, a bad credential, a 500 or an invalid response, and
\* an answer that is too long is one, even if its status is worth repeating.
RetryOnlyAfterTransient ==
    [][sent' # sent => /\ ctx = "live"
                       /\ sent > 0 => /\ lastErr.kind = "provider_unavailable"
                                      /\ lastErr.http \in {0, 429, 502, 503, 504, 529}
                                      /\ lastErr.http # 0 => body = "whole"]_vars

\* What a header asks for, in ticks, as far as MaxRetryAfter.
AskedPause(h) ==
    LET asked == CASE h.form = "seconds" -> h.n * Second
                   [] h.form = "date"    -> h.n
                   [] OTHER              -> 0
    IN  IF asked > MaxRetryAfter THEN MaxRetryAfter ELSE asked

\* What it asks for is no longer than a time.Duration can be.
Fits(h) == h.form = "seconds" => h.n * Second < HalfWord

\* A repeated request leaves no sooner than the header of the very answer that
\* failed asks for, up to MaxRetryAfter, and never at once.  Of a header of more
\* seconds than a duration can hold it is not said: their product wraps.
RetryWaits ==
    [][sent' # sent /\ sent > 0 =>
         LET waited == now - failedAt
             asked  == IF lastErr.http = 0 THEN 0 ELSE AskedPause(retryAfter)
         IN  IF asked <= 0 THEN waited >= Base \div 2
                           ELSE Fits(retryAfter) => waited >= asked]_vars

\* However many attempts have failed and whatever the provider asks for, the
\* backoff computed is at most LongestDelay.
BackoffCapped == pc = "asleep" => wake <= failedAt + LongestDelay

\* Whatever the provider does and whatever delay was computed, the call is
\* over by the caller's deadline: no attempt, read or backoff outlives it.
DeadlineHonoured == now <= Deadline

\* "timeout" is never blamed on the caller's context while it is live: an
\* attempt that exceeds the client's own timer is an unavailable provider.
TimeoutIsHonest == result = "timeout" => ctx # "live"

\* The adapter is a Provider as the engine knows it.
ImplementsContract == Contract!Spec

\* "The cap bounds the worst case" (comment on backoff): a backoff is always
\* computed, so the call cannot crash in it.
BackoffNeverPanics == pc # "panicked"

\* "rejected before any provider was contacted" (comment on KindInvalidInput).
InvalidInputBeforeContact == result = "invalid_input" => sent = 0
=============================================================================
