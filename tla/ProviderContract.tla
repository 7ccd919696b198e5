-------------------------- MODULE ProviderContract --------------------------
(***************************************************************************)
(* What the engine may rely on when it calls a Provider                    *)
(* (pkg/instinct/judgment.go, interface Provider): a call answers once, with *)
(* judgments or a classified error, it says "timeout" only when the        *)
(* caller's context is over, and it honours that context.                  *)
(***************************************************************************)
VARIABLES
    ctx,     \* the caller's context: live, past its deadline, interrupted
    result   \* pending, ok, or the kind of the error returned

cvars == <<ctx, result>>

CtxStates == {"live", "deadline", "interrupted"}

Results == {"ok", "invalid_input", "configuration", "provider_unavailable",
            "provider_response_invalid", "timeout"}

Init == ctx \in {"live", "interrupted"} /\ result = "pending"

\* The deadline of the engine's context.WithTimeout fires.
Expire ==
    /\ result = "pending" /\ ctx = "live"
    /\ ctx' = "deadline"
    /\ UNCHANGED result

\* The caller cancels: SIGINT or SIGTERM in the command-line program.
Interrupt ==
    /\ result = "pending" /\ ctx = "live"
    /\ ctx' = "interrupted"
    /\ UNCHANGED result

ReturnWhileLive == result = "pending" /\ ctx = "live" /\ result' = "ok" /\ UNCHANGED ctx

Return ==
    /\ result = "pending"
    /\ \E r \in Results :
         /\ r = "timeout" => ctx # "live"
         /\ result' = r
    /\ UNCHANGED ctx

Next == Expire \/ Interrupt \/ Return

\* A call over a finished context returns, and a deadline eventually fires.
Spec ==
    /\ Init /\ [][Next]_cvars
    /\ WF_cvars(Expire)
    /\ WF_cvars(ctx # "live" /\ Return)
=============================================================================
