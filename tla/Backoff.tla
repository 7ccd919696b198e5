------------------------------- MODULE Backoff -------------------------------
(***************************************************************************)
(* The delay before a retry (backoff, parseRetryAfter in                   *)
(* internal/provider/jev/jev.go).  Durations are in ticks; the code's      *)
(* unit is the nanosecond in an int64.                                     *)
(*                                                                         *)
(* The exponential window is a left shift of a 64-bit signed word.  Its    *)
(* value matters in two ways only: whether it exceeds Ceiling, and whether *)
(* it has wrapped to zero or to a negative word.  The two are computed     *)
(* apart: Grown counts ticks, and the sign is read off the bits of         *)
(* base = BaseOdd * 2^BaseTwos nanoseconds, exactly, for any word size.    *)
(* The seconds of a Retry-After are multiplied in the same word, which is  *)
(* taken to hold whole ticks.                                              *)
(***************************************************************************)
EXTENDS Integers

CONSTANTS
    Base,           \* first window, in ticks (200ms)
    Ceiling,        \* widest window, in ticks (2s)
    MaxRetryAfter,  \* longest Retry-After honoured, in ticks (5s)
    WordBits,       \* width of time.Duration (64)
    BaseOdd,        \* odd part of the first window in nanoseconds (390625)
    BaseTwos,       \* exponent of its power of two (9)
    Second,         \* a second, in ticks
    HalfWord        \* ticks that a time.Duration cannot reach (2^63 nanoseconds)

ASSUME BackoffAssumption ==
    /\ Base \in Nat \ {0}
    /\ Ceiling \in Nat /\ Base <= Ceiling
    /\ MaxRetryAfter \in Nat \ {0}
    /\ WordBits \in Nat /\ BaseTwos \in 0 .. WordBits - 1
    /\ BaseOdd \in Nat /\ BaseOdd % 2 = 1
    /\ Second \in Nat \ {0} /\ HalfWord \in Nat \ {0}

\* BaseOdd shifted right b places: its bit b is Halved[b] % 2.
Halved[b \in 0 .. WordBits] == IF b = 0 THEN BaseOdd ELSE Halved[b - 1] \div 2

\* Base * 2^k in ticks, saturating just above Ceiling.
Grown[k \in 0 .. WordBits] ==
    IF k = 0 THEN Base
    ELSE IF 2 * Grown[k - 1] > Ceiling THEN Ceiling + 1 ELSE 2 * Grown[k - 1]

\* base << k as a signed word: 0 once every one of base's bits is shifted
\* out, negative when one of them is the sign bit, else at least 2^k ticks.
Shifted(k) ==
    IF k + BaseTwos >= WordBits THEN 0
    ELSE IF Halved[WordBits - 1 - k - BaseTwos] % 2 = 1 THEN -1
    ELSE Grown[k]

\* The jitter window of the retry numbered attempt (1 is the first retry).
Window(attempt) ==
    LET w == Shifted(attempt - 1) IN IF w > Ceiling THEN Ceiling ELSE w

\* rand.Int63n panics on a window that is not positive.
Panics(attempt, retryAfter) == retryAfter <= 0 /\ Window(attempt) <= 0

\* A Retry-After header: absent or neither a number nor a date, a number of
\* seconds, or a date that is so many ticks away.
Headers == [form : {"none", "seconds", "date"}, n : Int]

NoHeader == [form |-> "none", n |-> 0]

\* A product of durations, as the signed word that the code computes.
Wrapped(d) == ((d + HalfWord) % (2 * HalfWord)) - HalfWord

\* time.Until saturates where the product of seconds wraps.
ParseRetryAfter(h) ==
    CASE h.form = "seconds" /\ h.n >= 0 -> Wrapped(h.n * Second)
      [] h.form = "date" /\ h.n > 0     -> h.n
      [] OTHER                          -> 0

RetryAfterUncapped(attempt, retryAfter) ==
    IF retryAfter > 0 THEN {retryAfter}
                      ELSE {r + Base \div 2 : r \in 0 .. Window(attempt) - 1}

RetryAfterIgnored(attempt, retryAfter) ==
    {r + Base \div 2 : r \in 0 .. Window(attempt) - 1}

\* The delays backoff may choose.
Delays(attempt, retryAfter) ==
    IF retryAfter > 0
      THEN {IF retryAfter > MaxRetryAfter THEN MaxRetryAfter ELSE retryAfter}
      ELSE {r + Base \div 2 : r \in 0 .. Window(attempt) - 1}

\* No delay is longer than this, whatever the provider asks for.
LongestDelay ==
    LET jittered == Ceiling - 1 + Base \div 2
    IN  IF jittered > MaxRetryAfter THEN jittered ELSE MaxRetryAfter
=============================================================================
