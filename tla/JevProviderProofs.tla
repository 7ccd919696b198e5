-------------------------- MODULE JevProviderProofs --------------------------
(***************************************************************************)
(* Theorems about one call of the Jev adapter, for every retry budget,     *)
(* timeout, deadline, status and Retry-After.                              *)
(*                                                                         *)
(* One inductive invariant, Inv, carries them all.  It says what the       *)
(* program counter means: how many requests have gone out when Decide is   *)
(* there, which errors lead to a retry, and when the retry may leave.  That *)
(* no backoff is longer than LongestDelay rests on what the recursive       *)
(* function Grown computes, for every word and every Ceiling.              *)
(***************************************************************************)
EXTENDS JevProvider, InductionFacts, TLAPS

\* How soon a request may be repeated after an error that asks for a pause.
LeastPause(after) ==
    IF after <= 0 THEN Base \div 2
    ELSE IF after < MaxRetryAfter THEN after ELSE MaxRetryAfter

TransientStatuses == {0, 429, 502, 503, 504, 529}

\* The errors an attempt can end in while the context plays no part.
AttemptErrors ==
    {f \in Errors : /\ f.kind \notin {"none", "timeout"}
                    /\ f.transient => /\ f.kind = "provider_unavailable"
                                      /\ f.http \in TransientStatuses}

\* sent follows the loop variable: one ahead of it while a request is out.
SentInv ==
    /\ attempt <= retries
    /\ pc = "called" => attempt = 0
    /\ pc \in {"called", "ready", "asleep", "panicked"} => sent = attempt
    /\ pc \in {"inflight", "reading", "parsing"} => sent = attempt + 1
    /\ sent <= retries + 1
    /\ result = "provider_unavailable" /\ lastErr.transient => sent = retries + 1

\* The context is over from the deadline on, and a call is pending until it returns.
ClockInv ==
    /\ now <= Deadline
    /\ ctx = "live" => now < Deadline
    /\ result = "pending" <=> pc # "returned"
    /\ result = "timeout" => ctx # "live"

\* What stands between two requests: a transient error, and the pause it asks for.
RetryInv ==
    /\ lastErr.transient => /\ lastErr.kind = "provider_unavailable"
                            /\ lastErr.http \in TransientStatuses
    /\ pc \in {"asleep", "ready"} /\ sent > 0 => lastErr.transient
    /\ pc = "asleep" => wake >= failedAt + LeastPause(lastErr.after)
    /\ pc = "ready" /\ sent > 0 => now >= failedAt + LeastPause(lastErr.after)
    /\ pc = "asleep" => wake <= failedAt + LongestDelay

Inv == TypeOK /\ SentInv /\ ClockInv /\ RetryInv

---------------------------------------------------------------------------
\* Doubling, saturated just above Ceiling.
Doubled(w) == IF 2 * w > Ceiling THEN Ceiling + 1 ELSE 2 * w

\* The window doubles from one retry to the next, as far as Ceiling + 1.
LEMMA GrownDoubles ==
    /\ Grown[0] = Base
    /\ \A k \in 1 .. WordBits : Grown[k] = Doubled(Grown[k - 1])
<1>. DEFINE S == 1 .. Ceiling + 1
            F == [w \in S |-> Doubled(w)]
<1>1. Base \in S /\ F \in [S -> S]
  BY BackoffAssumption DEF Doubled
<1>2. PICK f \in [0 .. WordBits -> S] :
         Iterates(f, Base, F, WordBits)
  <2>1. WordBits \in Nat
    BY BackoffAssumption
  <2>. HIDE DEF F, S
  <2>. QED BY <1>1, <2>1, IteratesExist, Zenon
<1>3. f = [k \in 0 .. WordBits |-> IF k = 0 THEN Base
                                   ELSE IF 2 * f[k - 1] > Ceiling THEN Ceiling + 1
                                   ELSE 2 * f[k - 1]]
  <2>1. ASSUME NEW k \in 0 .. WordBits
        PROVE  f[k] = IF k = 0 THEN Base
                      ELSE IF 2 * f[k - 1] > Ceiling THEN Ceiling + 1 ELSE 2 * f[k - 1]
    <3>1. CASE k = 0
      BY <1>2, <3>1 DEF Iterates
    <3>2. CASE k # 0
      <4>1. k \in 1 .. WordBits /\ k - 1 \in 0 .. WordBits
        BY <3>2, BackoffAssumption
      <4>2. f[k - 1] \in S /\ f[k] = F[f[k - 1]]
        BY <1>2, <4>1 DEF Iterates
      <4>3. f[k] = Doubled(f[k - 1])
        BY <4>2
      <4>. QED BY <3>2, <4>3 DEF Doubled
    <3>. QED BY <3>1, <3>2
  <2>. QED BY <2>1
<1>4. Grown = [k \in 0 .. WordBits |-> IF k = 0 THEN Base
                                       ELSE IF 2 * Grown[k - 1] > Ceiling THEN Ceiling + 1
                                       ELSE 2 * Grown[k - 1]]
  BY <1>3 DEF Grown
<1>5. 0 \in 0 .. WordBits /\ \A k \in 1 .. WordBits : k \in 0 .. WordBits /\ k # 0
  BY BackoffAssumption
<1>. QED BY <1>4, <1>5 DEF Doubled

\* However often the window has doubled, it is a positive number of ticks and no
\* more than one above Ceiling.
LEMMA GrownBounded == \A k \in 0 .. WordBits : Grown[k] \in 1 .. Ceiling + 1
<1>. DEFINE S == {k \in Nat : k <= WordBits => Grown[k] \in 1 .. Ceiling + 1}
<1>1. 0 \in S
  BY GrownDoubles, BackoffAssumption
<1>2. ASSUME NEW k \in Nat, k \in S, k + 1 <= WordBits
      PROVE  Grown[k + 1] \in 1 .. Ceiling + 1
  <2>1. k + 1 \in 1 .. WordBits /\ (k + 1) - 1 = k /\ k <= WordBits
    BY <1>2, BackoffAssumption
  <2>2. Grown[k + 1] = Doubled(Grown[k]) /\ Grown[k] \in 1 .. Ceiling + 1
    BY <1>2, <2>1, GrownDoubles
  <2>. QED BY <2>2, BackoffAssumption DEF Doubled
<1>3. \A k \in Nat : k \in S => k + 1 \in S
  BY <1>2
<1>4. \A k \in Nat : k \in S
  <2>. HIDE DEF S
  <2>. QED BY <1>1, <1>3, EveryNumber
<1>5. ASSUME NEW k \in 0 .. WordBits PROVE Grown[k] \in 1 .. Ceiling + 1
  <2>1. k \in Nat /\ k <= WordBits
    BY BackoffAssumption
  <2>. QED BY <1>4, <2>1
<1>. QED BY <1>5

\* Whatever the shift leaves of the window, it is no wider than Ceiling.
LEMMA WindowCapped ==
    ASSUME NEW n \in Nat, n >= 1
    PROVE  Window(n) \in Int /\ Window(n) <= Ceiling
<1>1. n - 1 \in Nat /\ Ceiling \in Nat /\ WordBits \in Nat /\ BaseTwos \in Nat
  BY BackoffAssumption
<1>2. CASE n - 1 + BaseTwos >= WordBits
  BY <1>1, <1>2 DEF Window, Shifted
<1>3. CASE ~(n - 1 + BaseTwos >= WordBits)
  <2>1. n - 1 \in 0 .. WordBits
    BY <1>1, <1>3
  <2>2. Grown[n - 1] \in 1 .. Ceiling + 1
    BY <2>1, GrownBounded
  <2>. QED BY <1>1, <1>3, <2>2 DEF Window, Shifted
<1>. QED BY <1>2, <1>3

\* No delay is longer than LongestDelay.
LEMMA DelaysCapped ==
    ASSUME NEW n \in Nat, n >= 1, NEW after \in Int, NEW d \in Delays(n, after)
    PROVE  d <= LongestDelay
<1>1. Window(n) \in Int /\ Window(n) <= Ceiling
  BY WindowCapped
<1>2. CASE after > 0
  BY <1>2, BackoffAssumption DEF Delays, LongestDelay
<1>3. CASE ~(after > 0)
  <2>1. PICK r \in 0 .. Window(n) - 1 : d = r + Base \div 2
    BY <1>3 DEF Delays
  <2>2. r \in Int /\ r <= Ceiling - 1 /\ Base \div 2 \in Int
    BY <1>1, BackoffAssumption
  <2>. QED BY <2>1, <2>2, BackoffAssumption DEF LongestDelay
<1>. QED BY <1>2, <1>3

\* Whatever window the shift leaves, a delay is never negative and never
\* shorter than the pause that was asked for.
LEMMA DelaysPause ==
    ASSUME NEW n \in Nat, NEW after \in Int, NEW d \in Delays(n, after)
    PROVE  d \in Nat /\ d >= LeastPause(after)
BY BackoffAssumption DEF Delays, LeastPause

\* The least pause is a number whatever the header said.
LEMMA PauseIsInt == ASSUME NEW after \in Int PROVE LeastPause(after) \in Int
BY BackoffAssumption DEF LeastPause

\* So is the longest delay.
LEMMA LongestIsInt == LongestDelay \in Int
BY BackoffAssumption DEF LongestDelay

\* What is made of a Retry-After is a number, also where the product wraps.
LEMMA AfterIsInt == Advice \subseteq Int
<1>1. ASSUME NEW h \in RetryAfters PROVE ParseRetryAfter(h) \in Int
  <2>1. h.n \in Int /\ Second \in Int /\ h.n * Second \in Int
    BY JevAssumption, BackoffAssumption DEF Headers
  <2>2. ASSUME NEW d \in Int PROVE Wrapped(d) \in Int
    <3>1. d + HalfWord \in Int /\ 2 * HalfWord \in Nat \ {0} /\ HalfWord \in Int
      BY BackoffAssumption
    <3>. QED BY <3>1 DEF Wrapped
  <2>. QED BY <2>1, <2>2 DEF ParseRetryAfter
<1>. QED BY <1>1 DEF Advice

\* An error need not say when to try again.
LEMMA NoAdvice == 0 \in Advice
BY DEF Advice

\* No header is no advice.
LEMMA NoHeaderAdvice ==
    \A h \in {NoHeader} \cup RetryAfters : ParseRetryAfter(h) \in Advice
BY DEF ParseRetryAfter, NoHeader, Advice

\* Every way an attempt fails by itself is classified, and only the documented
\* failures are transient.
LEMMA ErrorsOfAttempts ==
    /\ ConnectionError \in AttemptErrors
    /\ Failure("provider_response_invalid", 0) \in AttemptErrors
    /\ \A s \in {0} \cup Statuses, h \in {NoHeader} \cup RetryAfters :
          StatusError(s, h) \in AttemptErrors
<1>. USE NoAdvice DEF Failure, Retryable, AttemptErrors, Errors, TransientStatuses
<1>1. ConnectionError \in AttemptErrors
  BY DEF ConnectionError
<1>2. Failure("provider_response_invalid", 0) \in AttemptErrors
  OBVIOUS
<1>3. ASSUME NEW s \in {0} \cup Statuses, NEW h \in {NoHeader} \cup RetryAfters
      PROVE  StatusError(s, h) \in AttemptErrors
  <2>. DEFINE a == ParseRetryAfter(h)
  <2>0. a \in Advice
    BY NoHeaderAdvice
  <2>. HIDE DEF a
  <2>1. CASE s \in {401, 403}
    BY <2>1 DEF StatusError
  <2>2. CASE s \in {400, 422}
    BY <2>2 DEF StatusError
  <2>3. CASE s \in {429, 502, 503, 504, 529}
    <3>1. StatusError(s, h) = Retryable(a, Failure("provider_unavailable", s))
      BY <2>3 DEF StatusError, a
    <3>2. Retryable(a, Failure("provider_unavailable", s)) \in Errors
      BY <2>0
    <3>3. /\ Retryable(a, Failure("provider_unavailable", s)).kind = "provider_unavailable"
          /\ Retryable(a, Failure("provider_unavailable", s)).http = s
      OBVIOUS
    <3>. HIDE DEF Failure, Retryable, Errors
    <3>. QED BY <2>3, <3>1, <3>2, <3>3
  <2>4. CASE s \notin {401, 403, 400, 422, 429, 502, 503, 504, 529}
    BY <2>4 DEF StatusError
  <2>. QED BY <2>1, <2>2, <2>3, <2>4
<1>. QED BY <1>1, <1>2, <1>3

\* The invariant holds at the start of every call.
LEMMA InitInv == Init => Inv
<1>. SUFFICES ASSUME Init PROVE Inv
  OBVIOUS
<1>. USE JevAssumption DEF Init
<1>1. NoErr \in Errors /\ ~NoErr.transient
  BY NoAdvice DEF NoErr, Failure, Errors
<1>2. TypeOK
  BY <1>1 DEF TypeOK, Budget, PCs, Bodies, Contract!CtxStates, Contract!Results
<1>3. SentInv /\ ClockInv /\ RetryInv
  BY <1>1, <1>2 DEF SentInv, ClockInv, RetryInv, TypeOK
<1>. QED BY <1>2, <1>3 DEF Inv

\* A failed attempt keeps it, whichever way send goes on from there.
LEMMA AttemptFailsInv ==
    ASSUME Inv, NEW f \in AttemptErrors, AttemptFails(f), pc \in {"inflight", "reading"}
    PROVE  Inv'
<1>1. /\ f \in Errors /\ f.after \in Int /\ f.kind \in Contract!Results
      /\ f.kind # "timeout"
      /\ f.transient => f.kind = "provider_unavailable" /\ f.http \in TransientStatuses
  <2>1. f \in Errors /\ f.kind \notin {"none", "timeout"}
        /\ (f.transient => f.kind = "provider_unavailable" /\ f.http \in TransientStatuses)
    BY DEF AttemptErrors
  <2>2. f.after \in Advice /\ f.kind \in {"none", "invalid_input", "configuration",
           "provider_unavailable", "provider_response_invalid", "timeout"}
    BY <2>1 DEF Errors
  <2>3. f.after \in Int
    BY <2>2, AfterIsInt
  <2>4. f.kind \in Contract!Results
    BY <2>1, <2>2 DEF Contract!Results
  <2>. QED BY <2>1, <2>3, <2>4
<1>2. CASE ~f.transient \/ BudgetSpent \/ ctx # "live"
  <2>1. /\ result' = IF f.transient /\ ctx # "live" THEN "timeout" ELSE f.kind
        /\ pc' = "returned" /\ lastErr' = f /\ failedAt' = now
        /\ UNCHANGED <<retries, clientTimeout, now, ctx, attempt, sent, started,
                       status, retryAfter, body, wake>>
    BY <1>2 DEF AttemptFails, Return, config, request, response
  <2>2. TypeOK'
    BY <1>1, <2>1 DEF Inv, TypeOK, PCs, Contract!Results
  <2>3. SentInv'
    BY <1>1, <1>2, <2>1 DEF Inv, TypeOK, SentInv, BudgetSpent
  <2>4. ClockInv'
    BY <1>1, <2>1 DEF Inv, ClockInv, Contract!Results
  <2>5. RetryInv'
    BY <1>1, <2>1 DEF Inv, RetryInv
  <2>. QED BY <2>2, <2>3, <2>4, <2>5 DEF Inv
<1>3. CASE f.transient /\ ~BudgetSpent /\ ctx = "live"
  <2>1. /\ attempt' = attempt + 1 /\ lastErr' = f /\ failedAt' = now
        /\ \/ pc' = "panicked" /\ wake' = wake
           \/ pc' = "asleep" /\ wake' \in {now + d : d \in Delays(attempt + 1, f.after)}
        /\ UNCHANGED <<retries, clientTimeout, now, ctx, sent, started,
                       status, retryAfter, body, result>>
    BY <1>3 DEF AttemptFails, config, request, response
  <2>2. attempt \in Nat /\ now \in Nat /\ pc \in PCs
    BY DEF Inv, TypeOK
  <2>3. /\ wake' \in Nat
        /\ pc' = "asleep" => /\ wake' >= now + LeastPause(f.after)
                             /\ wake' <= now + LongestDelay
    <3>1. LeastPause(f.after) \in Int /\ LongestDelay \in Int
      BY <1>1, PauseIsInt, LongestIsInt
    <3>2. CASE pc' = "panicked" /\ wake' = wake
      BY <3>2 DEF Inv, TypeOK
    <3>3. CASE pc' = "asleep" /\ wake' \in {now + d : d \in Delays(attempt + 1, f.after)}
      <4>1. PICK d \in Delays(attempt + 1, f.after) : wake' = now + d
        BY <3>3
      <4>2. attempt + 1 \in Nat /\ attempt + 1 >= 1
        BY <2>2
      <4>3. d \in Nat /\ d >= LeastPause(f.after)
        BY <1>1, <4>2, DelaysPause
      <4>4. d <= LongestDelay
        BY <1>1, <4>2, DelaysCapped
      <4>. QED BY <2>2, <3>1, <3>3, <4>1, <4>3, <4>4
    <3>. QED BY <3>2, <3>3, <2>1
  <2>4. TypeOK'
    BY <1>1, <2>1, <2>2, <2>3 DEF Inv, TypeOK, PCs
  <2>5. SentInv'
    BY <1>3, <2>1 DEF Inv, TypeOK, SentInv, ClockInv, BudgetSpent
  <2>6. ClockInv'
    BY <2>1 DEF Inv, ClockInv
  <2>7. RetryInv'
    BY <1>1, <1>3, <2>1, <2>3 DEF Inv, RetryInv
  <2>. QED BY <2>4, <2>5, <2>6, <2>7 DEF Inv
<1>. QED BY <1>2, <1>3

\* So does an attempt the context ends.
LEMMA ContextFailsInv ==
    ASSUME Inv, ContextFails, pc \in {"ready", "inflight"}
    PROVE  Inv'
<1>1. /\ ctx # "live" /\ pc' = "returned" /\ result' = "timeout"
      /\ lastErr' = Failure("timeout", 0) /\ failedAt' = now
      /\ UNCHANGED <<retries, clientTimeout, now, ctx, attempt, sent, started,
                     status, retryAfter, body, wake>>
  BY DEF ContextFails, Return, config, request, response
<1>2. Failure("timeout", 0) \in Errors /\ ~Failure("timeout", 0).transient
  BY NoAdvice DEF Failure, Errors
<1>3. TypeOK'
  BY <1>1, <1>2 DEF Inv, TypeOK, PCs, Contract!Results
<1>4. SentInv' /\ ClockInv' /\ RetryInv'
  BY <1>1, <1>2 DEF Inv, SentInv, ClockInv, RetryInv
<1>. QED BY <1>3, <1>4 DEF Inv

\* Every step keeps the invariant.
LEMMA NextInv == Inv /\ [Next]_vars => Inv'
<1>. SUFFICES ASSUME Inv, [Next]_vars PROVE Inv'
  OBVIOUS
<1>. USE JevAssumption DEF config, request, response, backoff
<1>1. CASE Decide
  <2>1. TypeOK'
    BY <1>1 DEF Decide, Return, Inv, TypeOK, PCs, Contract!Results
  <2>2. SentInv' /\ ClockInv' /\ RetryInv'
    BY <1>1 DEF Decide, Return, Inv, TypeOK, SentInv, ClockInv, RetryInv
  <2>. QED BY <2>1, <2>2 DEF Inv
<1>2. CASE Send
  <2>1. CASE ContextFails
    BY <1>2, <2>1, ContextFailsInv DEF Send
  <2>2. CASE ~ContextFails
    <3>1. /\ pc = "ready" /\ pc' = "inflight" /\ sent' = sent + 1 /\ started' = now
          /\ UNCHANGED <<retries, clientTimeout, now, ctx, attempt, status, retryAfter, body,
                         lastErr, failedAt, wake, result>>
      BY <1>2, <2>2 DEF Send
    <3>2. TypeOK'
      BY <3>1 DEF Inv, TypeOK, PCs
    <3>3. SentInv' /\ ClockInv' /\ RetryInv'
      BY <3>1 DEF Inv, TypeOK, SentInv, ClockInv, RetryInv
    <3>. QED BY <3>2, <3>3 DEF Inv
  <2>. QED BY <2>1, <2>2
<1>3. CASE ContextEndsAttempt
  BY <1>3, ContextFailsInv DEF ContextEndsAttempt
<1>4. CASE ContextEndsRead \/ ClientTimesOut \/ ConnectionFails
  BY <1>4, AttemptFailsInv, ErrorsOfAttempts DEF ContextEndsRead, ClientTimesOut, ConnectionFails
<1>5. CASE OversizedBody
  BY <1>5, AttemptFailsInv, ErrorsOfAttempts DEF OversizedBody
<1>6. CASE ReadBody
  <2>1. CASE status = 200
    <3>1. TypeOK'
      BY <1>6, <2>1 DEF ReadBody, Inv, TypeOK, PCs
    <3>2. SentInv' /\ ClockInv' /\ RetryInv'
      BY <1>6, <2>1 DEF ReadBody, Inv, SentInv, ClockInv, RetryInv
    <3>. QED BY <3>1, <3>2 DEF Inv
  <2>2. CASE status # 200
    <3>1. StatusError(status, retryAfter) \in AttemptErrors
      BY ErrorsOfAttempts DEF Inv, TypeOK
    <3>. QED BY <1>6, <2>2, <3>1, AttemptFailsInv DEF ReadBody
  <2>. QED BY <2>1, <2>2
<1>7. CASE Parse
  <2>1. TypeOK'
    BY <1>7 DEF Parse, Return, Inv, TypeOK, PCs, Contract!Results
  <2>2. SentInv' /\ ClockInv' /\ RetryInv'
    BY <1>7 DEF Parse, Return, Inv, SentInv, ClockInv, RetryInv
  <2>. QED BY <2>1, <2>2 DEF Inv
<1>8. CASE Wake
  <2>1. TypeOK'
    BY <1>8 DEF Wake, Return, Inv, TypeOK, PCs, Contract!Results
  <2>2. SentInv' /\ ClockInv'
    BY <1>8 DEF Wake, Return, SleepInterrupted, Inv, SentInv, ClockInv
  <2>3. LeastPause(lastErr.after) \in Int
    <3>1. lastErr.after \in Advice
      BY DEF Inv, TypeOK, Errors
    <3>2. lastErr.after \in Int
      BY <3>1, AfterIsInt
    <3>. QED BY <3>2, PauseIsInt
  <2>4. RetryInv'
    BY <1>8, <2>3 DEF Wake, Return, TimerFires, Inv, TypeOK, RetryInv
  <2>. QED BY <2>1, <2>2, <2>4 DEF Inv
<1>9. CASE HeadersArrive
  <2>1. TypeOK'
    BY <1>9 DEF HeadersArrive, Inv, TypeOK, PCs
  <2>2. SentInv' /\ ClockInv' /\ RetryInv'
    BY <1>9 DEF HeadersArrive, Inv, SentInv, ClockInv, RetryInv
  <2>. QED BY <2>1, <2>2 DEF Inv
<1>10. CASE Interrupt
  <2>1. TypeOK'
    BY <1>10 DEF Interrupt, Inv, TypeOK, Contract!CtxStates
  <2>2. SentInv' /\ ClockInv' /\ RetryInv'
    BY <1>10 DEF Interrupt, Inv, SentInv, ClockInv, RetryInv
  <2>. QED BY <2>1, <2>2 DEF Inv
<1>11. CASE Tick
  <2>1. TypeOK'
    BY <1>11 DEF Tick, Inv, TypeOK, Contract!CtxStates
  <2>2. ctx = "live" /\ pc # "ready"
    BY <1>11 DEF Tick, Blocked, SleepInterrupted
  <2>3. SentInv' /\ ClockInv' /\ RetryInv'
    BY <1>11, <2>2 DEF Tick, Inv, TypeOK, SentInv, ClockInv, RetryInv
  <2>. QED BY <2>1, <2>3 DEF Inv
<1>12. CASE UNCHANGED vars
  BY <1>12 DEF vars, Inv, TypeOK, SentInv, ClockInv, RetryInv
<1>. QED BY <1>1, <1>2, <1>3, <1>4, <1>5, <1>6, <1>7, <1>8, <1>9, <1>10, <1>11, <1>12
         DEF Next, Program, Environment

\* Requests leave from one place only.
LEMMA OnlySendSends == ASSUME Next, sent' # sent PROVE Send /\ ~ContextFails
BY DEF Next, Program, Environment, Decide, Send, ContextEndsAttempt, ContextEndsRead,
       ClientTimesOut, ConnectionFails, OversizedBody, ReadBody, Parse, Wake, HeadersArrive,
       Interrupt, Tick, AttemptFails, ContextFails, config, request, response, backoff

\* The invariant holds of every reachable state.
LEMMA AlwaysInv == Spec => []Inv
<1>. QED BY InitInv, NextInv, PTL DEF Spec

---------------------------------------------------------------------------
\* Every variable keeps its type, and the retry budget is never negative.
THEOREM TypeCorrect == Spec => []TypeOK
<1>1. Inv => TypeOK
  BY DEF Inv
<1>. QED BY <1>1, AlwaysInv, PTL

\* The provider gets at most MaxRetries + 1 requests for a call, and Decide gives
\* up on a transient failure only when all of them have been made.
THEOREM BudgetKept == Spec => []RetriesWithinBudget
<1>1. Inv => RetriesWithinBudget
  BY DEF Inv, SentInv, RetriesWithinBudget
<1>. QED BY <1>1, AlwaysInv, PTL

\* No attempt, read or backoff runs past the caller's deadline.
THEOREM DeadlineKept == Spec => []DeadlineHonoured
<1>1. Inv => DeadlineHonoured
  BY DEF Inv, ClockInv, DeadlineHonoured
<1>. QED BY <1>1, AlwaysInv, PTL

\* A timeout is reported only when the caller's context is over.
THEOREM TimeoutsHonest == Spec => []TimeoutIsHonest
<1>1. Inv => TimeoutIsHonest
  BY DEF Inv, ClockInv, TimeoutIsHonest
<1>. QED BY <1>1, AlwaysInv, PTL

\* No backoff is longer than LongestDelay, however often the window has doubled
\* and whatever the provider asks for (backoff).
THEOREM BackoffIsCapped == Spec => []BackoffCapped
<1>1. Inv => BackoffCapped
  BY DEF Inv, RetryInv, BackoffCapped
<1>. QED BY <1>1, AlwaysInv, PTL

---------------------------------------------------------------------------
\* An answer whose status a retry stands on was read whole, and the advice is in
\* the header of that very answer.
AdviceInv ==
    pc \in {"called", "ready", "asleep"} =>
        /\ lastErr.http # 0 => body = "whole"
        /\ lastErr.after = IF lastErr.http = 0 THEN 0 ELSE ParseRetryAfter(retryAfter)

\* Only an answer's own error reports its status, and its header goes with it.
LEMMA AdviceKept == Inv /\ AdviceInv /\ [Next]_vars => AdviceInv'
<1>. SUFFICES ASSUME Inv, AdviceInv, [Next]_vars, pc' \in {"called", "ready", "asleep"}
              PROVE  /\ lastErr'.http # 0 => body' = "whole"
                     /\ lastErr'.after = IF lastErr'.http = 0 THEN 0
                                         ELSE ParseRetryAfter(retryAfter')
  BY DEF AdviceInv
<1>. USE DEF config, request, response, backoff
<1>1. CASE ContextEndsRead \/ ClientTimesOut \/ ConnectionFails
  <2>1. lastErr' = ConnectionError
    BY <1>1 DEF ContextEndsRead, ClientTimesOut, ConnectionFails, AttemptFails
  <2>. QED BY <2>1 DEF ConnectionError, Retryable, Failure
<1>2. CASE OversizedBody
  <2>1. lastErr' = Failure("provider_response_invalid", 0)
    BY <1>2 DEF OversizedBody, AttemptFails
  <2>. QED BY <2>1 DEF Failure
<1>3. CASE ReadBody
  <2>1. /\ lastErr' = StatusError(status, retryAfter) /\ retryAfter' = retryAfter
        /\ StatusError(status, retryAfter).transient /\ body' = "whole"
    BY <1>3 DEF ReadBody, WithinLimit, AttemptFails, Return
  <2>2. /\ StatusError(status, retryAfter)
              = Retryable(ParseRetryAfter(retryAfter), Failure("provider_unavailable", status))
        /\ status # 0
    BY <2>1 DEF StatusError, Failure
  <2>. QED BY <2>1, <2>2 DEF Retryable, Failure
<1>4. CASE Send \/ ContextEndsAttempt \/ Parse \/ HeadersArrive
  BY <1>4 DEF Send, ContextEndsAttempt, ContextFails, Parse, HeadersArrive, Return
<1>5. CASE Decide \/ Wake \/ Interrupt \/ Tick \/ UNCHANGED vars
  BY <1>5 DEF Decide, Wake, Interrupt, Tick, Return, vars, AdviceInv
<1>. QED BY <1>1, <1>2, <1>3, <1>4, <1>5 DEF Next, Program, Environment

\* What a retry stands on holds of every reachable state.
LEMMA AlwaysAdvice == Spec => []AdviceInv
<1>1. Init => AdviceInv
  BY DEF Init, AdviceInv, NoErr, Failure
<1>. QED BY <1>1, AdviceKept, AlwaysInv, PTL DEF Spec

\* A request is repeated only while the caller waits and after a transient error,
\* never after an answer that was too long.
THEOREM RepeatsOnlyTransient == Spec => RetryOnlyAfterTransient
<1>1. ASSUME Inv, AdviceInv, Next, sent' # sent
      PROVE  /\ ctx = "live"
             /\ sent > 0 => /\ lastErr.kind = "provider_unavailable"
                            /\ lastErr.http \in {0, 429, 502, 503, 504, 529}
                            /\ lastErr.http # 0 => body = "whole"
  <2>1. Send /\ ~ContextFails
    BY <1>1, OnlySendSends
  <2>. QED BY <2>1, <1>1 DEF Send, Inv, RetryInv, AdviceInv, TransientStatuses
<1>. QED BY <1>1, AlwaysInv, AlwaysAdvice, PTL DEF Spec, RetryOnlyAfterTransient

\* A product that the word can hold is what it should be.
LEMMA WrappedFits == \A d \in 0 .. HalfWord - 1 : Wrapped(d) = d
BY BackoffAssumption DEF Wrapped

\* A header that asks for no pause is no advice; one that asks for a pause that fits
\* is advice for as long a one.
LEMMA PauseAsAsked ==
    ASSUME NEW h \in {NoHeader} \cup RetryAfters
    PROVE  /\ AskedPause(h) \in Int
           /\ AskedPause(h) <= 0 => ParseRetryAfter(h) <= 0
           /\ AskedPause(h) > 0 /\ Fits(h) => LeastPause(ParseRetryAfter(h)) >= AskedPause(h)
<1>1. /\ h.form \in {"none", "seconds", "date"} /\ h.n \in Int
      /\ Second \in Nat \ {0} /\ HalfWord \in Nat \ {0} /\ MaxRetryAfter \in Nat \ {0}
  BY JevAssumption, BackoffAssumption DEF Headers, NoHeader
<1>2. CASE h.form = "seconds"
  <2>. DEFINE asked == h.n * Second
  <2>1. asked \in Int /\ (h.n >= 0 => asked >= 0) /\ (h.n < 0 => asked <= 0)
    BY <1>1
  <2>2. h.n < 0 => ParseRetryAfter(h) = 0
    BY <1>1, <1>2 DEF ParseRetryAfter
  <2>3. h.n >= 0 /\ asked < HalfWord => ParseRetryAfter(h) = asked
    BY <1>1, <1>2, <2>1, WrappedFits DEF ParseRetryAfter
  <2>4. /\ AskedPause(h) = IF asked > MaxRetryAfter THEN MaxRetryAfter ELSE asked
        /\ Fits(h) => asked < HalfWord
    BY <1>2 DEF AskedPause, Fits
  <2>. HIDE DEF asked
  <2>. QED BY <1>1, <2>1, <2>2, <2>3, <2>4 DEF LeastPause
<1>3. CASE h.form # "seconds"
  BY <1>1, <1>3 DEF ParseRetryAfter, AskedPause, LeastPause
<1>. QED BY <1>1, <1>2, <1>3

\* A repeated request leaves no sooner than the answer that failed asked for, up to
\* MaxRetryAfter, or else than the least backoff.
THEOREM RepeatsWait == Spec => RetryWaits
<1>. DEFINE asked == IF lastErr.http = 0 THEN 0 ELSE AskedPause(retryAfter)
<1>1. ASSUME Inv, AdviceInv, Next, sent' # sent, sent > 0
      PROVE  IF asked <= 0 THEN now - failedAt >= Base \div 2
                           ELSE Fits(retryAfter) => now - failedAt >= asked
  <2>1. pc = "ready" /\ now >= failedAt + LeastPause(lastErr.after)
    BY <1>1, OnlySendSends DEF Send, Inv, RetryInv
  <2>2. lastErr.after = IF lastErr.http = 0 THEN 0 ELSE ParseRetryAfter(retryAfter)
    BY <1>1, <2>1 DEF AdviceInv
  <2>3. /\ now \in Nat /\ failedAt \in Nat
        /\ retryAfter \in {NoHeader} \cup RetryAfters /\ lastErr.after \in Advice
    BY <1>1 DEF Inv, TypeOK, Errors
  <2>4. lastErr.after \in Int /\ LeastPause(lastErr.after) \in Int
    BY <2>3, AfterIsInt, PauseIsInt
  <2>5. asked \in Int
    BY <2>3, PauseAsAsked
  <2>6. asked <= 0 => lastErr.after <= 0
    BY <2>2, <2>3, PauseAsAsked
  <2>7. asked > 0 /\ Fits(retryAfter) => LeastPause(lastErr.after) >= asked
    BY <2>2, <2>3, PauseAsAsked
  <2>8. lastErr.after <= 0 => LeastPause(lastErr.after) = Base \div 2
    BY DEF LeastPause
  <2>. HIDE DEF asked
  <2>. QED BY <2>1, <2>3, <2>4, <2>5, <2>6, <2>7, <2>8, BackoffAssumption
<1>. QED BY <1>1, AlwaysInv, AlwaysAdvice, PTL DEF Spec, RetryWaits

---------------------------------------------------------------------------
\* The bits of base that a shift by k leaves in the word, all of them below the
\* sign bit.
BitsFit(k) == k + BaseTwos < WordBits /\ Halved[WordBits - 1 - k - BaseTwos] = 0

\* Each place further right halves what is left of base.
LEMMA HalvedHalves ==
    \A b \in 1 .. WordBits : Halved[b] = Halved[b - 1] \div 2
<1>. DEFINE F == [x \in Nat |-> x \div 2]
<1>1. BaseOdd \in Nat /\ WordBits \in Nat /\ F \in [Nat -> Nat]
  BY BackoffAssumption
<1>2. PICK f \in [0 .. WordBits -> Nat] : Iterates(f, BaseOdd, F, WordBits)
  <2>. HIDE DEF F
  <2>. QED BY <1>1, IteratesExist, Zenon
<1>3. f = [b \in 0 .. WordBits |-> IF b = 0 THEN BaseOdd ELSE f[b - 1] \div 2]
  <2>1. ASSUME NEW b \in 0 .. WordBits
        PROVE  f[b] = IF b = 0 THEN BaseOdd ELSE f[b - 1] \div 2
    <3>1. CASE b = 0
      BY <1>2, <3>1 DEF Iterates
    <3>2. CASE b # 0
      <4>1. b \in 1 .. WordBits /\ b - 1 \in 0 .. WordBits
        BY <3>2, <1>1
      <4>. QED BY <1>2, <3>2, <4>1 DEF Iterates
    <3>. QED BY <3>1, <3>2
  <2>. QED BY <2>1
<1>4. Halved = [b \in 0 .. WordBits |-> IF b = 0 THEN BaseOdd ELSE Halved[b - 1] \div 2]
  BY <1>3 DEF Halved
<1>5. \A b \in 1 .. WordBits : b \in 0 .. WordBits /\ b # 0
  BY <1>1
<1>. QED BY <1>4, <1>5

\* Once nothing is left of base, nothing is left further right.
LEMMA HalvedStaysZero ==
    ASSUME NEW b \in 0 .. WordBits, Halved[b] = 0
    PROVE  \A c \in b .. WordBits : Halved[c] = 0
<1>. DEFINE S == {n \in Nat : b + n <= WordBits => Halved[b + n] = 0}
<1>. b \in Nat /\ WordBits \in Nat
  BY BackoffAssumption
<1>1. 0 \in S
  <2>1. b + 0 = b
    OBVIOUS
  <2>. QED BY <2>1
<1>2. ASSUME NEW n \in Nat, n \in S, b + (n + 1) <= WordBits
      PROVE  Halved[b + (n + 1)] = 0
  <2>1. b + (n + 1) \in 1 .. WordBits /\ b + (n + 1) - 1 = b + n /\ b + n <= WordBits
    BY <1>2
  <2>2. Halved[b + (n + 1)] = Halved[b + n] \div 2 /\ Halved[b + n] = 0
    BY <1>2, <2>1, HalvedHalves
  <2>. QED BY <2>2
<1>3. \A n \in Nat : n \in S => n + 1 \in S
  BY <1>2
<1>4. \A n \in Nat : n \in S
  <2>. HIDE DEF S
  <2>. QED BY <1>1, <1>3, EveryNumber
<1>5. ASSUME NEW c \in b .. WordBits PROVE Halved[c] = 0
  <2>1. c - b \in Nat /\ b + (c - b) = c /\ c <= WordBits
    OBVIOUS
  <2>2. c - b \in S
    BY <1>4, <2>1
  <2>. QED BY <2>1, <2>2
<1>. QED BY <1>5

\* A window whose bits fit is positive, and so are all before it.
LEMMA WindowOpen ==
    ASSUME NEW r \in Nat, NEW n \in 1 .. r, BitsFit(r - 1)
    PROVE  Window(n) > 0
<1>. DEFINE last  == WordBits - 1 - (r - 1) - BaseTwos
            index == WordBits - 1 - (n - 1) - BaseTwos
<1>1. /\ n - 1 \in Nat /\ r - 1 \in Nat /\ WordBits \in Nat /\ BaseTwos \in Nat /\ Ceiling \in Nat
      /\ 1 <= Ceiling /\ n <= r
  BY BackoffAssumption
<1>2. (r - 1) + BaseTwos < WordBits /\ Halved[last] = 0
  BY DEF BitsFit
<1>3. /\ ~((n - 1) + BaseTwos >= WordBits) /\ n - 1 \in 0 .. WordBits
      /\ last \in 0 .. WordBits /\ index \in last .. WordBits
  BY <1>1, <1>2
<1>4. Halved[index] = 0
  BY <1>2, <1>3, HalvedStaysZero
<1>5. Grown[n - 1] \in 1 .. Ceiling + 1
  BY <1>3, GrownBounded
<1>6. Shifted(n - 1) = Grown[n - 1]
  BY <1>3, <1>4 DEF Shifted
<1>. QED BY <1>1, <1>5, <1>6 DEF Window

\* The budget is one of those configured.
NoPanicInv == retries \in {Budget(r) : r \in RetryBudgets} /\ pc # "panicked"

\* A call configured with no more retries than base has room to double can never
\* crash in its backoff: with 64 bits and a base of 200ms, up to 36 retries. With
\* more it can (backoff, rand.Int63n).
THEOREM SmallBudgetsNeverPanic ==
    ASSUME \A r \in RetryBudgets : r > 0 => BitsFit(r - 1)
    PROVE  Spec => []BackoffNeverPanics
<1>1. Init => NoPanicInv
  BY DEF Init, NoPanicInv
<1>2. ASSUME Inv, NoPanicInv, [Next]_vars PROVE NoPanicInv'
  <2>1. retries' = retries
    BY <1>2 DEF Next, Program, Environment, vars, Decide, Send, ContextEndsAttempt,
       ContextEndsRead, ClientTimesOut, ConnectionFails, OversizedBody, ReadBody, Parse, Wake,
       HeadersArrive, Interrupt, Tick, AttemptFails, ContextFails, Return, config
  <2>2. ASSUME NEW f, AttemptFails(f) PROVE pc' # "panicked"
    <3>1. SUFFICES ASSUME pc' = "panicked" PROVE FALSE
      OBVIOUS
    <3>2. ~BudgetSpent /\ Panics(attempt + 1, f.after)
      BY <2>2, <3>1 DEF AttemptFails, Return
    <3>3. attempt \in Nat /\ retries \in Nat /\ attempt + 1 \in 1 .. retries
      BY <1>2, <3>2 DEF Inv, TypeOK, BudgetSpent
    <3>4. PICK r \in RetryBudgets : retries = Budget(r)
      BY <1>2 DEF NoPanicInv
    <3>5. r \in Int /\ r > 0 /\ retries = r
      BY <3>3, <3>4, JevAssumption DEF Budget
    <3>6. BitsFit(retries - 1)
      BY <3>5
    <3>7. Window(attempt + 1) > 0
      BY <3>3, <3>6, WindowOpen
    <3>8. Window(attempt + 1) \in Int
      BY <3>3, WindowCapped
    <3>. QED BY <3>2, <3>7, <3>8 DEF Panics
  <2>3. pc' # "panicked"
    BY <1>2, <2>2 DEF NoPanicInv, Next, Program, Environment, vars, Decide, Send,
       ContextEndsAttempt, ContextEndsRead, ClientTimesOut, ConnectionFails, OversizedBody,
       ReadBody, Parse, Wake, HeadersArrive, Interrupt, Tick, ContextFails, Return
  <2>. QED BY <1>2, <2>1, <2>3 DEF NoPanicInv
<1>3. NoPanicInv => BackoffNeverPanics
  BY DEF NoPanicInv, BackoffNeverPanics
<1>. QED BY <1>1, <1>2, <1>3, AlwaysInv, PTL DEF Spec

---------------------------------------------------------------------------
\* As far as safety goes, the adapter is a Provider as the engine knows one: it
\* answers once, says "timeout" only over a finished context, and never revives
\* one (interface Provider).
THEOREM SafeProvider == Spec => Contract!Init /\ [][Contract!Next]_(Contract!cvars)
<1>1. Init => Contract!Init
  BY DEF Init, Contract!Init
<1>2. ASSUME Inv, Inv', [Next]_vars
      PROVE  [Contract!Next]_(Contract!cvars)
  <2>. USE DEF Contract!cvars
  <2>1. CASE UNCHANGED <<ctx, result>>
    BY <2>1
  <2>2. CASE ctx' # ctx
    <3>1. /\ ctx = "live" /\ result = "pending" /\ result' = result
          /\ ctx' \in {"deadline", "interrupted"}
      BY <1>2, <2>2 DEF Inv, ClockInv, Next, Program, Environment, vars, Decide, Send,
         ContextEndsAttempt, ContextEndsRead, ClientTimesOut, ConnectionFails, OversizedBody,
         ReadBody, Parse, Wake, HeadersArrive, Interrupt, Tick, Blocked, SleepInterrupted,
         AttemptFails, ContextFails, Return
    <3>. QED BY <3>1 DEF Contract!Next, Contract!Expire, Contract!Interrupt
  <2>3. CASE ctx' = ctx /\ result' # result
    <3>1. result = "pending"
      BY <1>2, <2>3 DEF Inv, ClockInv, Next, Program, Environment, vars, Decide, Send,
         ContextEndsAttempt, ContextEndsRead, ClientTimesOut, ConnectionFails, OversizedBody,
         ReadBody, Parse, Wake, HeadersArrive, Interrupt, Tick,
         AttemptFails, ContextFails, Return
    <3>2. result' \in Contract!Results /\ (result' = "timeout" => ctx # "live")
      BY <1>2, <2>3, <3>1 DEF Inv, TypeOK, ClockInv
    <3>. QED BY <2>3, <3>1, <3>2 DEF Contract!Next, Contract!Return
  <2>. QED BY <2>1, <2>2, <2>3
<1>. QED BY <1>1, <1>2, AlwaysInv, PTL DEF Spec
=============================================================================
