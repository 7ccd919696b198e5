---------------------------- MODULE DecideCommand ----------------------------
(***************************************************************************)
(* One run of `howlinstinct decide` (pkg/cli/decide.go, provider.go): the  *)
(* configuration is loaded, the request taken from flags or a document, an *)
(* adapter built, the engine asked, and what it returned printed.          *)
(*                                                                         *)
(* The engine is the Decision specification itself, on one call; the       *)
(* adapter behind it answers as the mock does, or as the Jev adapter does  *)
(* with or without its credential.                                         *)
(*                                                                         *)
(* A setup is what the process starts with: the layers of Configuration    *)
(* and                                                                     *)
(*   input:    "" or "-" or "path", of --input; openable says whether the  *)
(*             path can be read within the outer bound                     *)
(*   piped:    standard input is not a terminal                            *)
(*   document: the request that the document decodes to, Nil when          *)
(*             DecodeRequest refuses its syntax                            *)
(*   single:   the flags of a single question, [type, state, question, id, *)
(*             names, meaning, foreign, minConfidence, minMargin]; id is a *)
(*             pointer, the last two are texts of numbers                  *)
(*   retain, json: --retain-state, --json                                  *)
(***************************************************************************)
EXTENDS Configuration, Lowering, ExitCodes

CONSTANTS
    Setups,    \* what a process may be started with
    TypeIds,   \* the question id that a decision type's name is
    Bodies     \* the response bodies a provider may send

ASSUME SetupsAssumption ==
    \A s \in Setups :
      /\ WellFormed(s) /\ AtMostOne(s.document) /\ s.single.id \subseteq Nat
      /\ \A d \in s.document :
           /\ DOMAIN d = {"state", "trace", "retain", "questions", "escalation"}
           /\ DOMAIN d.questions \subseteq Nat /\ IsFiniteSet(DOMAIN d.questions)
           /\ \A id \in DOMAIN d.questions : "type" \in DOMAIN d.questions[id]

ASSUME TypeIdsAssumption == \A t \in DecisionTypes : TypeIds[t] \in Nat

\* A decoded pointer holds at most one value.
ASSUME BodiesAssumption ==
    \A b \in Bodies : \A id \in DOMAIN b.answers : \A v, w \in b.answers[id].noul : v = w

VARIABLES
    setup,     \* what this process was started with
    stage,     \* loading, reading, building, deciding, exited
    cfg,       \* the loaded configuration, <<>> before
    adapter,   \* what the Jev adapter was built with, <<>> if none was
    printed,   \* pointer to what was printed: [judgments, receipts]
    exit,      \* the exit code, -1 while running
    pc, req, asked, batch, ctx, answer, issued, log   \* the engine's

command == <<setup, stage, cfg, adapter, printed, exit>>
engine  == <<pc, req, asked, batch, ctx, answer, issued, log>>
vars    == <<command, engine>>

---------------------------------------------------------------------------
MarginDefaulted(f) ==
    [confidence |-> Parsed(f.minConfidence),
     margin |-> IF f.minMargin = Nil THEN {1} ELSE Parsed(f.minMargin)]

\* escalationRule: a flag that was not given contributes nothing.
Rule(f) == [confidence |-> Parsed(f.minConfidence), margin |-> Parsed(f.minMargin)]

RuleUnreadable(f) == {f.minConfidence, f.minMargin} \cap {{Nil}} # {}

\* buildSingleQuestion: the request, without its validation.
FlagRequest(s) ==
    LET f  == s.single
        id == Or(f.id, TypeIds[f.type])
    IN  [state |-> f.state, retain |-> s.retain, trace |-> "",
         questions |-> [i \in {id} |->
            [type |-> f.type, text |-> f.question, names |-> f.names,
             meaning |-> f.meaning, foreign |-> f.foreign]],
         escalation |-> [i \in IF Rule(f) = NoRule THEN {} ELSE {id} |-> Rule(f)]]

FromFlags(s) ==
    IF s.single.type \notin DecisionTypes \/ s.single.question = "" \/ RuleUnreadable(s.single)
    THEN Nil ELSE {r \in {FlagRequest(s)} : ValidRequest(r)}

\* DecodeRequest, and --retain-state on top of it. No other flag is looked at.
FromDocument(s) ==
    {[r EXCEPT !.retain = r.retain \/ s.retain] : r \in {d \in s.document : ValidRequest(d)}}

UsesFlags(s) == s.input = "" /\ (s.single.state # "" \/ s.single.type # "")

\* A reader of standard input waits for its end.
ReadsStdin(s) == s.input = "-" \/ (s.input = "" /\ ~UsesFlags(s) /\ s.piped)

\* requestReader and buildRequest: a pointer to the request, Nil when refused.
Request(s) ==
    IF UsesFlags(s) THEN FromFlags(s)
    ELSE IF ReadsStdin(s) \/ (s.input = "path" /\ s.openable) THEN FromDocument(s)
    ELSE Nil

---------------------------------------------------------------------------
\* The requests that some process may make.
Requested == UNION {Request(s) : s \in Setups}

Engine == INSTANCE Decision WITH Submissions <- Requested, MaxCalls <- 1

Init ==
    /\ setup \in Setups
    /\ stage = "loading" /\ cfg = <<>> /\ adapter = <<>> /\ printed = Nil /\ exit = -1
    /\ Engine!Init

Exits(code) == stage' = "exited" /\ exit' = code

\* config.Load: exit on its error, or go on to the request.
LoadConfig ==
    /\ stage = "loading"
    /\ IF FileRefused(setup) \/ ~ValidConfig(Resolved(setup))
       THEN Exits(ExitConfig) /\ UNCHANGED cfg
       ELSE stage' = "reading" /\ cfg' = Resolved(setup) /\ UNCHANGED exit
    /\ UNCHANGED <<setup, adapter, printed, engine>>

ReadRequest ==
    /\ stage = "reading"
    /\ IF Request(setup) = Nil THEN Exits(ExitBadInput)
                               ELSE stage' = "building" /\ UNCHANGED exit
    /\ UNCHANGED <<setup, cfg, adapter, printed, engine>>

BuildProvider ==
    /\ stage = "building"
    /\ IF Buildable(cfg)
       THEN /\ stage' = "deciding" /\ UNCHANGED exit
            /\ adapter' = IF cfg.provider = "jev" THEN Adapter(cfg) ELSE <<>>
       ELSE Exits(ExitConfig) /\ UNCHANGED adapter
    /\ UNCHANGED <<setup, cfg, printed, engine>>

\* engine.Decide, from here to the entry in the log.
Ask ==
    /\ stage = "deciding"
    /\ \E r \in Request(setup) : Engine!Submit(r)
    /\ UNCHANGED command

\* The mock fails over a finished context only. The Jev adapter reads its
\* credential before it sends anything.
AdapterMay(result) ==
    IF cfg.provider = "mock" THEN result \in {"ok", "timeout"}
    ELSE CredentialOK(cfg, setup.keys) \/ result = "configuration"

AdapterReturns ==
    /\ Engine!During(Engine!Provider!Return) /\ AdapterMay(answer')
    /\ UNCHANGED command

ClockRuns ==
    /\ \/ Engine!During(Engine!Provider!Expire)
       \/ Engine!During(Engine!Provider!Interrupt)
    /\ UNCHANGED command

\* SIGINT or SIGTERM before the engine is asked ends the context, nothing else.
InterruptEarly ==
    /\ stage \in {"loading", "reading", "building"}
    /\ Engine!InterruptBetween /\ UNCHANGED command

\* Either adapter answers every question it was asked.
DecideReturns ==
    /\ \/ Engine!ReturnFailure
       \/ Engine!ReturnJudgments /\ DOMAIN log'[1].judgments = DOMAIN asked
    /\ UNCHANGED command

DecisionErrorFirst(err, written) ==
    IF err # "" THEN ExitCodeFor(err) ELSE IF written THEN ExitOK ELSE 1

\* runDecide's end: an error of writing comes before the decision's.
FinalCode(err, written) == IF ~written THEN 1 ELSE IF err = "" THEN ExitOK ELSE ExitCodeFor(err)

FailureWithoutReceipts(call) ==
    IF call.judgments = <<>> /\ call.receipts = {} THEN Nil
    ELSE {[judgments |-> call.judgments,
           receipts |-> IF setup.json /\ call.err = "" THEN call.receipts ELSE {}]}

\* What render is given: nothing where a call left neither judgments nor receipts.
Rendered(call) ==
    IF call.judgments = <<>> /\ call.receipts = {} THEN Nil
    ELSE {[judgments |-> call.judgments,
           receipts |-> IF setup.json THEN call.receipts ELSE {}]}

\* render, and the exit. Only the JSON encoder reports that writing failed.
Output ==
    /\ stage = "deciding" /\ log # <<>>
    /\ \E written \in IF setup.json /\ Rendered(log[1]) # Nil THEN BOOLEAN ELSE {TRUE} :
         /\ printed' = IF written THEN Rendered(log[1]) ELSE Nil
         /\ Exits(FinalCode(log[1].err, written))
    /\ UNCHANGED <<setup, cfg, adapter, engine>>

Next ==
    \/ LoadConfig \/ ReadRequest \/ BuildProvider \/ Ask \/ AdapterReturns \/ ClockRuns
    \/ InterruptEarly \/ DecideReturns \/ Output

\* The command runs when it can; a deadline fires and an adapter honours it. The
\* writer of standard input need never end, and nobody has to interrupt.
Fairness ==
    /\ WF_vars(LoadConfig) /\ WF_vars(~ReadsStdin(setup) /\ ReadRequest)
    /\ WF_vars(BuildProvider) /\ WF_vars(Ask) /\ WF_vars(DecideReturns) /\ WF_vars(Output)
    /\ WF_vars(Engine!During(Engine!Provider!Expire) /\ UNCHANGED command)
    /\ WF_vars(ctx # "live" /\ AdapterReturns)

Spec == Init /\ [][Next]_vars /\ Fairness
---------------------------------------------------------------------------
\* The engine was asked and has returned.
Asked == log # <<>>

\* The exit code tells how the command fared and nothing else: 0 for a decision
\* that was made and printed, the code of its error for one that failed and was
\* printed all the same, 1 where printing failed, and 2 or 3 where no provider was
\* ever asked (runDecide, asExit; decide.go:134).
ExitTellsTheOutcome ==
    stage = "exited" =>
      /\ exit = ExitOK <=> Asked /\ log[1].err = "" /\ printed # Nil
      /\ Asked /\ printed # Nil => exit = IF log[1].err = "" THEN ExitOK
                                                             ELSE ExitCodeFor(log[1].err)
      /\ Asked /\ printed = Nil => exit = 1 /\ setup.json
      /\ ~Asked => exit \in {ExitBadInput, ExitConfig} /\ printed = Nil

\* What is printed leaves no question out, whether it was answered or the call
\* failed, and with --json no receipt either, and the two agree (runDecide, render).
NothingAskedUnprinted ==
    \A p \in printed : \A r \in Request(setup) :
      /\ DOMAIN p.judgments = DOMAIN r.questions
      /\ setup.json => {c.question : c \in p.receipts} = DOMAIN r.questions
      /\ \A c \in p.receipts : c.judgment = p.judgments[c.question]

\* The thresholds the caller wrote: the flags', or the document's where the
\* request came from one.
CallersRule(id) ==
    IF UsesFlags(setup)
    THEN [confidence |-> Parsed(setup.single.minConfidence),
          margin |-> Parsed(setup.single.minMargin)]
    ELSE LET d == CHOOSE d \in setup.document : TRUE IN RuleFor(d, id)

\* What a caller wrote takes effect in what is printed: an answer is acceptable
\* exactly when it meets the thresholds that came with the request, one that was
\* not given escalates nothing, and the state is stored only where a flag or the
\* document says so (escalationRule, buildRequest).
CallersWordCounts ==
    \A p \in printed :
      /\ log[1].err = "" => \A id \in DOMAIN p.judgments :
           LET j == p.judgments[id]
           IN  /\ j.escalate <=> ~(/\ Engine!Meets(CallersRule(id).confidence, j.confidence)
                                   /\ Engine!Meets(CallersRule(id).margin, j.margin))
               /\ j.escalate <=> j.outcome # "ACCEPTABLE_CONFIDENCE"
      /\ \A c \in p.receipts :
           c.state # Nil <=>
             setup.retain \/ (~UsesFlags(setup) /\ \E d \in setup.document : d.retain)

\* What file, environment and flags have to say of a field.
Words(f) ==
    << IF setup.file = Nil THEN Nil ELSE FileLayer(CHOOSE x \in setup.file : TRUE)[f],
       EnvLayer(setup.env)[f], FlagLayer(setup.flags)[f] >>

\* In every field the last layer that has anything to say decides, and the adapter
\* runs with what it says: flags over environment over file over defaults, all the
\* way through jevConfig and New (config.Load). A max_retries of 0 in the file
\* counts as saying nothing, since the code cannot tell the two apart.
LastWordReachesAdapter ==
    cfg # <<>> =>
      /\ \A f \in Fields :
           LET spoken == {i \in 1 .. 3 : Words(f)[i] # Nil}
           IN  IF spoken = {} THEN cfg[f] = Default[f]
               ELSE \E i \in spoken : /\ \A k \in spoken : k <= i
                                      /\ Words(f)[i] = {cfg[f]}
      /\ adapter # <<>> => \A f \in DOMAIN adapter : adapter[f] = cfg[f]

\* A configuration that doctor has no warning for is one that decide can use: only
\* a provider that refuses the credential can still end it as a configuration
\* problem. (A loopback address under another scheme than http is the one thing
\* doctor misses; runChecks, jev.New, apiKey.)
DoctorForetells ==
    cfg # <<>> /\ exit = ExitConfig =>
      \/ DoctorWarns(cfg, setup.keys)
      \/ Asked /\ cfg.provider = "jev" /\ CredentialOK(cfg, setup.keys)
      \/ Urls[cfg.baseURL].host = "loopback" /\ Urls[cfg.baseURL].scheme # "http"

\* The command ends once it has its request: an engine's call returns, and nothing
\* after it waits. While it reads standard input it waits for the writer, and an
\* interrupt does not end that (main's signal.NotifyContext, runDecide).
CommandEnds ==
    (stage \notin {"loading", "reading"} \/ ~ReadsStdin(setup)) ~> (stage = "exited")
=============================================================================
