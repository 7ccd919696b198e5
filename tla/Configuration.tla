---------------------------- MODULE Configuration ----------------------------
(***************************************************************************)
(* How a configuration is resolved from its layers, what is refused, what  *)
(* adapter is built from it and what doctor warns of                       *)
(* (internal/config/config.go, pkg/cli/flags.go, provider.go, doctor.go,   *)
(* internal/provider/jev/config.go).                                       *)
(*                                                                         *)
(* A text is "" when absent and " " when blank.  A number in a file or in  *)
(* the environment is a text: Nil when absent, else {p}, where p is what it *)
(* parses to, Nil when it does not parse.  The parts of a setup are        *)
(*   file:  Nil when there is none, else {[readable, provider, baseURL,    *)
(*          model, apiKeyEnv, timeout, maxRetries, strictSchema]}, where   *)
(*          the last two are pointers; explicit tells whether the operator *)
(*          named it.  One that is too large or not TOML is not readable.  *)
(*   env:   [provider, baseURL, model, apiKeyEnv, timeout, maxRetries]     *)
(*   flags: the same, with a number for timeout and a pointer for          *)
(*          maxRetries                                                     *)
(*   keys:  the environment variables that hold a credential               *)
(***************************************************************************)
EXTENDS Instinct

CONSTANTS
    DefaultTimeout, DefaultRetries,
    Urls    \* what url.Parse makes of a base URL: [scheme, host], where host
            \* is "" for none (or no URL at all), "loopback" or "remote"

ASSUME DefaultsAssumption == DefaultTimeout \in Nat \ {0} /\ DefaultRetries \in Nat

\* An absent or blank URL names no host.
ASSUME UrlsAssumption == \A x \in {"", " "} : Urls[x].host = ""

\* The numbers of a setup's layers, read or not, are pointers to integers.
WellFormed(s) ==
    /\ \A f \in s.file : /\ Numeric(UNION f.timeout) /\ Numeric(f.maxRetries)
                          /\ AtMostOne(f.strictSchema)
    /\ Numeric(UNION s.env.timeout) /\ Numeric(UNION s.env.maxRetries)
    /\ s.flags.timeout \in Int /\ Numeric(s.flags.maxRetries)

\* A nil StrictSchema stands for the adapter's own default, which is strict.
Default ==
    [provider |-> "mock", baseURL |-> "", model |-> "", apiKeyEnv |-> "",
     timeout |-> DefaultTimeout, maxRetries |-> DefaultRetries, strictSchema |-> TRUE]

Fields == DOMAIN Default

---------------------------------------------------------------------------
\* A layer gives each field a pointer, Nil where it has nothing to say.
Trimmed(text) == IF text = " " THEN "" ELSE text
Said(text) == IF text = "" THEN Nil ELSE {text}
Parsed(text) == UNION text
Positive(p) == {n \in p : n > 0}

\* toml.Unmarshal leaves a number the file does not mention at 0.
FromToml(p) == IF p = Nil THEN {0} ELSE p

\* mergeFile: a zero is taken for silence.
FileLayer(f) ==
    [provider |-> Said(f.provider), baseURL |-> Said(f.baseURL), model |-> Said(f.model),
     apiKeyEnv |-> Said(f.apiKeyEnv), timeout |-> Positive(Parsed(f.timeout)),
     maxRetries |-> Positive(FromToml(f.maxRetries)), strictSchema |-> f.strictSchema]

\* mergeEnv: texts are trimmed, and a number that does not parse or is out of
\* range is passed over.
EnvLayer(e) ==
    [provider |-> Said(Trimmed(e.provider)), baseURL |-> Said(Trimmed(e.baseURL)),
     model |-> Said(Trimmed(e.model)), apiKeyEnv |-> Said(Trimmed(e.apiKeyEnv)),
     timeout |-> Positive(Parsed(e.timeout)),
     maxRetries |-> {n \in Parsed(e.maxRetries) : n >= 0}, strictSchema |-> Nil]

\* overrides and mergeOverrides: the presence of --max-retries counts, not its
\* value, and a negative one is 0.
FlagLayer(o) ==
    [provider |-> Said(o.provider), baseURL |-> Said(o.baseURL), model |-> Said(o.model),
     apiKeyEnv |-> Said(o.apiKeyEnv), timeout |-> Positive({o.timeout}),
     maxRetries |-> {IF n < 0 THEN 0 ELSE n : n \in o.maxRetries}, strictSchema |-> Nil]

\* What a pointer points at, d where it is Nil.
Or(p, d) == IF p = Nil THEN d ELSE CHOOSE v \in p : TRUE

\* A layer over a configuration.
Over(c, layer) == [f \in Fields |-> Or(layer[f], c[f])]

\* The file over the defaults, if there is one.
WithFile(s) == IF s.file = Nil THEN Default
                               ELSE Over(Default, FileLayer(CHOOSE f \in s.file : TRUE))

EnvOverFlags(s) == Over(Over(WithFile(s), FlagLayer(s.flags)), EnvLayer(s.env))

\* Defaults, file, environment, flags.
Resolved(s) == Over(Over(WithFile(s), EnvLayer(s.env)), FlagLayer(s.flags))

\* loadFile's errors, and Load's for an explicit file that does not exist.
FileRefused(s) ==
    \/ s.file = Nil /\ s.explicit
    \/ \E f \in s.file : ~f.readable \/ f.timeout = {Nil}

\* Config.Validate.
ValidConfig(c) ==
    /\ \/ c.provider = "mock"
       \/ c.provider = "jev" /\ c.baseURL # ""
    /\ c.timeout > 0 /\ c.maxRetries >= 0

---------------------------------------------------------------------------
\* jev.New accepts a base URL that names a host to be reached over HTTP.
ValidEndpoint(c) ==
    Trimmed(c.baseURL) # "" /\ Urls[c.baseURL].scheme \in {"http", "https"}
                            /\ Urls[c.baseURL].host # ""

\* buildProvider fails for a jev provider without such an endpoint.
Buildable(c) == c.provider = "mock" \/ ValidEndpoint(c)

\* jevConfig and the clamps of jev.New: what the adapter runs with.
Adapter(c) ==
    [timeout |-> IF c.timeout <= 0 THEN DefaultTimeout ELSE c.timeout,
     maxRetries |-> IF c.maxRetries < 0 THEN 0 ELSE c.maxRetries,
     strictSchema |-> c.strictSchema]

\* apiKey: none is configured, or the variable named holds one.
CredentialOK(c, keys) == c.apiKeyEnv = "" \/ c.apiKeyEnv \in keys

KeyUnchecked(c, keys) ==
    LET u == Urls[c.baseURL]
    IN  c.provider = "jev" /\ (u.host = "" \/ (u.scheme # "https" /\ u.host # "loopback")
                               \/ (c.apiKeyEnv = "" /\ u.host # "loopback") \/ c.model = "")

\* runChecks has something to warn of. (A URL's credentials and query string are
\* left out: both are stripped.)
DoctorWarns(c, keys) ==
    LET u == Urls[c.baseURL]
    IN  /\ c.provider = "jev"
        /\ \/ u.host = ""
           \/ u.scheme # "https" /\ u.host # "loopback"
           \/ c.apiKeyEnv = "" /\ u.host # "loopback"
           \/ ~CredentialOK(c, keys)
           \/ c.model = ""
=============================================================================
