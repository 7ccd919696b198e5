----------------------------- MODULE ExitCodes -----------------------------
(* The process exit codes of the command line (pkg/cli/exit.go). *)

ExitOK == 0
ExitBadInput == 2
ExitConfig == 3
ExitProviderUnavailable == 4
ExitProviderResponseInvalid == 5
ExitTimeout == 6
ExitEvalGate == 7

\* exitCodeFor: the code of an error kind, 1 for an error nobody classified.
ExitCodeFor(kind) ==
    CASE kind = "invalid_input"             -> ExitBadInput
      [] kind = "configuration"             -> ExitConfig
      [] kind = "provider_unavailable"      -> ExitProviderUnavailable
      [] kind = "provider_response_invalid" -> ExitProviderResponseInvalid
      [] kind = "timeout"                   -> ExitTimeout
      [] OTHER                              -> 1
=============================================================================
