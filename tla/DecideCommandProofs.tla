------------------------- MODULE DecideCommandProofs -------------------------
(***************************************************************************)
(* Proofs about one run of decide: for every way the process may be        *)
(* started and every answer a provider may give, what it runs with and     *)
(* what its exit code says.                                                *)
(***************************************************************************)
EXTENDS DecideCommand, JudgmentProofs, FiniteSetTheorems

---------------------------------------------------------------------------
\* Of three layers over a default, the last that says anything decides.
LEMMA LastSpoken ==
    ASSUME NEW w, AtMostOne(w[1]), AtMostOne(w[2]), AtMostOne(w[3]), NEW d
    PROVE  LET v == Or(w[3], Or(w[2], Or(w[1], d)))
               spoken == {i \in 1 .. 3 : w[i] # Nil}
           IN  IF spoken = {} THEN v = d
               ELSE \E i \in spoken : (\A k \in spoken : k <= i) /\ w[i] = {v}
<1>. DEFINE v == Or(w[3], Or(w[2], Or(w[1], d)))
            spoken == {i \in 1 .. 3 : w[i] # Nil}
<1>1. \A p, e : AtMostOne(p) => IF p = Nil THEN Or(p, e) = e ELSE p = {Or(p, e)}
  BY DEF AtMostOne, Or, Nil
<1>3. CASE w[3] # Nil
  <2>1. 3 \in spoken /\ \A k \in spoken : k <= 3
    BY <1>3
  <2>2. w[3] = {v}
    BY <1>1, <1>3
  <2>. QED BY <2>1, <2>2
<1>4. CASE w[3] = Nil /\ w[2] # Nil
  <2>1. 2 \in spoken /\ \A k \in spoken : k <= 2
    BY <1>4
  <2>2. v = Or(w[2], Or(w[1], d)) /\ w[2] = {v}
    BY <1>1, <1>4
  <2>. QED BY <2>1, <2>2
<1>5. CASE w[3] = Nil /\ w[2] = Nil /\ w[1] # Nil
  <2>1. 1 \in spoken /\ \A k \in spoken : k <= 1
    BY <1>5
  <2>2. v = Or(w[1], d) /\ w[1] = {v}
    BY <1>1, <1>5
  <2>. QED BY <2>1, <2>2
<1>6. CASE w[3] = Nil /\ w[2] = Nil /\ w[1] = Nil
  <2>1. spoken = {} /\ v = d
    BY <1>1, <1>6
  <2>. QED BY <2>1
<1>. QED BY <1>3, <1>4, <1>5, <1>6

\* What each layer says of a field is a pointer.
LEMMA LayersSayOne ==
    ASSUME NEW s, WellFormed(s), NEW f \in Fields
    PROVE  /\ \A x \in s.file : AtMostOne(FileLayer(x)[f])
           /\ AtMostOne(EnvLayer(s.env)[f]) /\ AtMostOne(FlagLayer(s.flags)[f])
<1>1. \A t : AtMostOne(Said(t))
  BY DEF AtMostOne, Said, Nil
<1>2. \A p : Numeric(p) => AtMostOne(p) /\ AtMostOne(Positive(p)) /\ AtMostOne(Positive(FromToml(p)))
                           /\ AtMostOne({n \in p : n >= 0})
                           /\ AtMostOne({IF n < 0 THEN 0 ELSE n : n \in p})
  BY DEF AtMostOne, Numeric, Positive, FromToml, Nil
<1>3. \A n : AtMostOne(Positive({n})) /\ AtMostOne(Nil)
  BY DEF AtMostOne, Positive, Nil
<1>4. f \in {"provider", "baseURL", "model", "apiKeyEnv", "timeout", "maxRetries", "strictSchema"}
  BY DEF Fields, Default
<1>5. ASSUME NEW x \in s.file PROVE AtMostOne(FileLayer(x)[f])
  <2>. DEFINE l == FileLayer(x)
  <2>1. /\ AtMostOne(Positive(Parsed(x.timeout))) /\ AtMostOne(Positive(FromToml(x.maxRetries)))
        /\ AtMostOne(x.strictSchema)
    BY <1>2, <1>3, <1>5 DEF WellFormed, Parsed
  <2>2. /\ l.provider = Said(x.provider) /\ l.baseURL = Said(x.baseURL)
        /\ l.model = Said(x.model) /\ l.apiKeyEnv = Said(x.apiKeyEnv)
    BY DEF FileLayer
  <2>3. /\ l.timeout = Positive(Parsed(x.timeout))
        /\ l.maxRetries = Positive(FromToml(x.maxRetries))
        /\ l.strictSchema = x.strictSchema
    BY DEF FileLayer
  <2>. HIDE DEF l
  <2>4. f \in {"provider", "baseURL", "model", "apiKeyEnv"} => AtMostOne(l[f])
    BY <1>1, <2>2
  <2>5. f \in {"timeout", "maxRetries", "strictSchema"} => AtMostOne(l[f])
    BY <2>1, <2>3
  <2>. QED BY <1>4, <2>4, <2>5 DEF l
<1>6. AtMostOne(EnvLayer(s.env)[f])
  <2>. DEFINE l == EnvLayer(s.env)
  <2>1. /\ AtMostOne(Positive(Parsed(s.env.timeout)))
        /\ AtMostOne({n \in Parsed(s.env.maxRetries) : n >= 0}) /\ AtMostOne(Nil)
    BY <1>2, <1>3 DEF WellFormed, Parsed
  <2>2. /\ l.provider = Said(Trimmed(s.env.provider)) /\ l.baseURL = Said(Trimmed(s.env.baseURL))
        /\ l.model = Said(Trimmed(s.env.model)) /\ l.apiKeyEnv = Said(Trimmed(s.env.apiKeyEnv))
    BY DEF EnvLayer
  <2>3. /\ l.timeout = Positive(Parsed(s.env.timeout))
        /\ l.maxRetries = {n \in Parsed(s.env.maxRetries) : n >= 0}
        /\ l.strictSchema = Nil
    BY DEF EnvLayer
  <2>. HIDE DEF l
  <2>4. f \in {"provider", "baseURL", "model", "apiKeyEnv"} => AtMostOne(l[f])
    BY <1>1, <2>2
  <2>5. f \in {"timeout", "maxRetries", "strictSchema"} => AtMostOne(l[f])
    BY <2>1, <2>3
  <2>. QED BY <1>4, <2>4, <2>5 DEF l
<1>7. AtMostOne(FlagLayer(s.flags)[f])
  <2>. DEFINE l == FlagLayer(s.flags)
  <2>1. /\ AtMostOne(Positive({s.flags.timeout}))
        /\ AtMostOne({IF n < 0 THEN 0 ELSE n : n \in s.flags.maxRetries}) /\ AtMostOne(Nil)
    BY <1>2, <1>3 DEF WellFormed, Parsed
  <2>2. /\ l.provider = Said(s.flags.provider) /\ l.baseURL = Said(s.flags.baseURL)
        /\ l.model = Said(s.flags.model) /\ l.apiKeyEnv = Said(s.flags.apiKeyEnv)
    BY DEF FlagLayer
  <2>3. /\ l.timeout = Positive({s.flags.timeout})
        /\ l.maxRetries = {IF n < 0 THEN 0 ELSE n : n \in s.flags.maxRetries}
        /\ l.strictSchema = Nil
    BY DEF FlagLayer
  <2>. HIDE DEF l
  <2>4. f \in {"provider", "baseURL", "model", "apiKeyEnv"} => AtMostOne(l[f])
    BY <1>1, <2>2
  <2>5. f \in {"timeout", "maxRetries", "strictSchema"} => AtMostOne(l[f])
    BY <2>1, <2>3
  <2>. QED BY <1>4, <2>4, <2>5 DEF l
<1>. QED BY <1>5, <1>6, <1>7

\* What the resolved configuration says, field by field.
LEMMA ResolvedSays ==
    ASSUME NEW s, NEW f \in Fields
    PROVE  LET p1 == IF s.file = Nil THEN Nil ELSE FileLayer(CHOOSE x \in s.file : TRUE)[f]
           IN  Resolved(s)[f] = Or(FlagLayer(s.flags)[f],
                                   Or(EnvLayer(s.env)[f], Or(p1, Default[f])))
<1>. DEFINE p1 == IF s.file = Nil THEN Nil ELSE FileLayer(CHOOSE x \in s.file : TRUE)[f]
<1>1. \A c, l : Over(c, l)[f] = Or(l[f], c[f])
  BY DEF Over
<1>2. WithFile(s)[f] = Or(p1, Default[f])
  <2>1. CASE s.file = Nil
    BY <2>1 DEF WithFile, Or
  <2>2. CASE s.file # Nil
    BY <1>1, <2>2 DEF WithFile
  <2>. QED BY <2>1, <2>2
<1>. HIDE DEF p1
<1>3. Resolved(s)[f] = Or(FlagLayer(s.flags)[f], Or(EnvLayer(s.env)[f], Or(p1, Default[f])))
  BY <1>1, <1>2 DEF Resolved
<1>. QED BY <1>3 DEF p1

\* The numbers of a resolved configuration are integers.
LEMMA ResolvedNumbers ==
    ASSUME NEW s, WellFormed(s)
    PROVE  Resolved(s).timeout \in Int /\ Resolved(s).maxRetries \in Int
<1>. DEFINE file == CHOOSE x \in s.file : TRUE
<1>1. "timeout" \in Fields /\ "maxRetries" \in Fields
  BY DEF Fields, Default
<1>2. \A p, d : p \subseteq Int /\ d \in Int => Or(p, d) \in Int
  BY DEF Or, Nil
<1>3. \A p : Numeric(p) => /\ Positive(p) \subseteq Int /\ Positive(FromToml(p)) \subseteq Int
                           /\ {n \in p : n >= 0} \subseteq Int
                           /\ {IF n < 0 THEN 0 ELSE n : n \in p} \subseteq Int
  <2>1. \A p : Positive(p) \subseteq p
    BY DEF Positive
  <2>2. ASSUME NEW p, Numeric(p)
        PROVE  /\ p \subseteq Int /\ FromToml(p) \subseteq Int
               /\ {n \in p : n >= 0} \subseteq Int
               /\ {IF n < 0 THEN 0 ELSE n : n \in p} \subseteq Int
    <3>1. p \subseteq Int
      BY <2>2 DEF Numeric
    <3>2. FromToml(p) \subseteq Int
      <4>1. CASE p = Nil
        <5>1. FromToml(p) = {0}
          BY <4>1 DEF FromToml
        <5>2. \A x \in FromToml(p) : x = 0
          BY <5>1, Zenon
        <5>. QED BY <5>2
      <4>2. CASE p # Nil
        BY <3>1, <4>2 DEF FromToml
      <4>. QED BY <4>1, <4>2
    <3>3. \A n \in p : (IF n < 0 THEN 0 ELSE n) \in Int
      BY <3>1
    <3>. QED BY <3>1, <3>2, <3>3
  <2>3. ASSUME NEW p, Numeric(p)
        PROVE  Positive(p) \subseteq Int /\ Positive(FromToml(p)) \subseteq Int
    <3>1. Positive(p) \subseteq p /\ Positive(FromToml(p)) \subseteq FromToml(p)
      BY <2>1
    <3>. QED BY <2>2, <2>3, <3>1
  <2>. QED BY <2>2, <2>3
<1>4. \A n \in Int : Positive({n}) \subseteq Int
  BY DEF Positive
<1>5. s.file # Nil => FileLayer(file).timeout \subseteq Int /\ FileLayer(file).maxRetries \subseteq Int
  <2>1. s.file # Nil => file \in s.file
    BY DEF Nil
  <2>2. FileLayer(file).timeout = Positive(Parsed(file.timeout))
    BY DEF FileLayer
  <2>3. FileLayer(file).maxRetries = Positive(FromToml(file.maxRetries))
    BY DEF FileLayer
  <2>. HIDE DEF file
  <2>. QED BY <1>3, <2>1, <2>2, <2>3 DEF WellFormed, Parsed
<1>6. EnvLayer(s.env).timeout \subseteq Int /\ EnvLayer(s.env).maxRetries \subseteq Int
  <2>1. /\ EnvLayer(s.env).timeout = Positive(Parsed(s.env.timeout))
        /\ EnvLayer(s.env).maxRetries = {n \in Parsed(s.env.maxRetries) : n >= 0}
    BY DEF EnvLayer
  <2>. QED BY <1>3, <2>1 DEF WellFormed, Parsed
<1>7. FlagLayer(s.flags).timeout \subseteq Int /\ FlagLayer(s.flags).maxRetries \subseteq Int
  <2>1. /\ FlagLayer(s.flags).timeout = Positive({s.flags.timeout})
        /\ FlagLayer(s.flags).maxRetries = {IF n < 0 THEN 0 ELSE n : n \in s.flags.maxRetries}
    BY DEF FlagLayer
  <2>. QED BY <1>3, <1>4, <2>1 DEF WellFormed
<1>8. Default.timeout \in Int /\ Default.maxRetries \in Int
  BY DefaultsAssumption DEF Default
<1>. HIDE DEF file
<1>9. ASSUME NEW f \in {"timeout", "maxRetries"} PROVE Resolved(s)[f] \in Int
  <2>. DEFINE p1 == IF s.file = Nil THEN Nil ELSE FileLayer(file)[f]
  <2>1. Resolved(s)[f] = Or(FlagLayer(s.flags)[f], Or(EnvLayer(s.env)[f], Or(p1, Default[f])))
    BY <1>1, ResolvedSays DEF file
  <2>2. /\ p1 \subseteq Int /\ EnvLayer(s.env)[f] \subseteq Int
        /\ FlagLayer(s.flags)[f] \subseteq Int /\ Default[f] \in Int
    BY <1>5, <1>6, <1>7, <1>8 DEF Nil
  <2>. QED BY <1>2, <2>1, <2>2
<1>. QED BY <1>9

\* The adapter of a valid configuration runs with that configuration.
LEMMA AdapterFaithful ==
    ASSUME NEW s, WellFormed(s), ValidConfig(Resolved(s))
    PROVE  \A f \in DOMAIN Adapter(Resolved(s)) : Adapter(Resolved(s))[f] = Resolved(s)[f]
<1>. DEFINE c == Resolved(s)
<1>1. c.timeout \in Int /\ c.maxRetries \in Int /\ c.timeout > 0 /\ c.maxRetries >= 0
  BY ResolvedNumbers DEF ValidConfig
<1>. HIDE DEF c
<1>2. Adapter(c) = [timeout |-> c.timeout, maxRetries |-> c.maxRetries,
                    strictSchema |-> c.strictSchema]
  BY <1>1 DEF Adapter
<1>. QED BY <1>2 DEF c

---------------------------------------------------------------------------
\* The configuration is loaded once and stays as it was resolved; an adapter is
\* built from it.
Loaded == cfg = Resolved(setup) /\ ValidConfig(cfg)

ConfigInv ==
    /\ setup \in Setups
    /\ stage \in {"loading", "reading", "building", "deciding", "exited"}
    /\ stage = "loading" => cfg = <<>>
    /\ stage \in {"reading", "building", "deciding"} => Loaded
    /\ cfg # <<>> => Loaded
    /\ adapter # <<>> => Loaded /\ adapter = Adapter(cfg)

LEMMA ConfigInit == Init => ConfigInv
BY DEF Init, ConfigInv

LEMMA ConfigStep == ConfigInv /\ [Next]_vars => ConfigInv'
<1>. SUFFICES ASSUME ConfigInv, [Next]_vars PROVE ConfigInv'
  OBVIOUS
<1>1. CASE LoadConfig
  BY <1>1 DEF ConfigInv, Loaded, LoadConfig, Exits
<1>2. CASE ReadRequest
  BY <1>2 DEF ConfigInv, Loaded, ReadRequest, Exits
<1>3. CASE BuildProvider
  BY <1>3 DEF ConfigInv, Loaded, BuildProvider, Exits
<1>4. CASE Output
  BY <1>4 DEF ConfigInv, Loaded, Output, Exits
<1>5. CASE UNCHANGED command
  BY <1>5 DEF ConfigInv, Loaded, command
<1>6. CASE InterruptEarly
  BY <1>5, <1>6 DEF InterruptEarly, Engine!InterruptBetween
<1>7. CASE Ask \/ AdapterReturns \/ ClockRuns \/ DecideReturns
  BY <1>5, <1>7 DEF Ask, AdapterReturns, ClockRuns, DecideReturns
<1>8. CASE UNCHANGED vars
  BY <1>5, <1>8 DEF vars
<1>. QED BY <1>1, <1>2, <1>3, <1>4, <1>6, <1>7, <1>8 DEF Next

\* The configuration of every reachable state is the resolved one.
THEOREM ConfigInvariance == Spec => []ConfigInv
BY ConfigInit, ConfigStep, PTL DEF Spec

---------------------------------------------------------------------------
\* The command's steps are the engine's, or leave it as it is.
LEMMA EngineStep == ConfigInv /\ [Next]_vars => [Engine!Next]_(Engine!vars)
<1>. SUFFICES ASSUME ConfigInv, [Next]_vars PROVE Engine!Next \/ UNCHANGED engine
  BY DEF engine, Engine!vars
<1>1. CASE LoadConfig \/ ReadRequest \/ BuildProvider \/ Output \/ UNCHANGED vars
  BY <1>1 DEF LoadConfig, ReadRequest, BuildProvider, Output, vars
<1>2. CASE Ask
  <2>1. PICK r \in Request(setup) : Engine!Submit(r)
    BY <1>2 DEF Ask
  <2>2. r \in Requested
    BY <2>1 DEF Requested, ConfigInv
  <2>. QED BY <2>1, <2>2 DEF Engine!Next
<1>3. CASE AdapterReturns \/ ClockRuns
  <2>1. Engine!ProviderRuns
    BY <1>3 DEF AdapterReturns, ClockRuns, Engine!ProviderRuns
  <2>. QED BY <2>1 DEF Engine!Next
<1>4. CASE InterruptEarly
  BY <1>4 DEF InterruptEarly, Engine!Next
<1>5. CASE DecideReturns
  BY <1>5 DEF DecideReturns, Engine!Next
<1>. QED BY <1>1, <1>2, <1>3, <1>4, <1>5 DEF Next

\* Whatever the command does around it, the engine starts and steps as Decision's
\* does, on one call of a request some process makes: it is asked for this process's
\* request at most once, over a context that may be gone already, and what it returns
\* is left as it is (runDecide, engine.Decide).
THEOREM EngineImplemented == Spec => Engine!Init /\ [][Engine!Next]_(Engine!vars)
<1>1. Init => Engine!Init
  BY DEF Init
<1>. QED BY <1>1, EngineStep, ConfigInvariance, PTL DEF Spec

\* Every request a process makes is one that the engine may be given: a finite
\* batch of typed questions under numeric ids.
LEMMA RequestedSubmittable ==
    \A r \in Requested :
      /\ DOMAIN r.questions \subseteq Nat /\ IsFiniteSet(DOMAIN r.questions)
      /\ \A id \in DOMAIN r.questions : "type" \in DOMAIN r.questions[id]
<1>. SUFFICES ASSUME NEW s \in Setups, NEW r \in Request(s)
              PROVE  /\ DOMAIN r.questions \subseteq Nat /\ IsFiniteSet(DOMAIN r.questions)
                     /\ \A id \in DOMAIN r.questions : "type" \in DOMAIN r.questions[id]
  BY DEF Requested
<1>1. r \in FromFlags(s) \/ r \in FromDocument(s)
  BY DEF Request, Nil
<1>2. CASE r \in FromFlags(s)
  <2>. DEFINE id == Or(s.single.id, TypeIds[s.single.type])
  <2>1. r = FlagRequest(s) /\ s.single.type \in DecisionTypes
    BY <1>2 DEF FromFlags, Nil
  <2>2. id \in Nat
    BY <2>1, SetupsAssumption, TypeIdsAssumption DEF Or, Nil
  <2>3. DOMAIN r.questions = {id} /\ "type" \in DOMAIN r.questions[id]
    BY <2>1 DEF FlagRequest
  <2>. HIDE DEF id
  <2>. QED BY <2>2, <2>3, FS_Singleton
<1>3. CASE r \in FromDocument(s)
  <2>1. PICK d \in s.document : r = [d EXCEPT !.retain = d.retain \/ s.retain]
    BY <1>3 DEF FromDocument
  <2>2. r.questions = d.questions
    BY <2>1, SetupsAssumption
  <2>. QED BY <2>2, SetupsAssumption
<1>. QED BY <1>1, <1>2, <1>3

LEMMA LastWordFromInv == ConfigInv => LastWordReachesAdapter
<1>. SUFFICES ASSUME ConfigInv, cfg # <<>> PROVE LastWordReachesAdapter
  BY DEF LastWordReachesAdapter
<1>1. setup \in Setups /\ WellFormed(setup) /\ cfg = Resolved(setup) /\ ValidConfig(cfg)
  BY SetupsAssumption DEF ConfigInv, Loaded
<1>2. ASSUME NEW f \in Fields
      PROVE  LET spoken == {i \in 1 .. 3 : Words(f)[i] # Nil}
             IN  IF spoken = {} THEN cfg[f] = Default[f]
                 ELSE \E i \in spoken : (\A k \in spoken : k <= i) /\ Words(f)[i] = {cfg[f]}
  <2>. DEFINE p1 == IF setup.file = Nil THEN Nil
                    ELSE FileLayer(CHOOSE x \in setup.file : TRUE)[f]
              p2 == EnvLayer(setup.env)[f]
              p3 == FlagLayer(setup.flags)[f]
  <2>1. AtMostOne(p1) /\ AtMostOne(p2) /\ AtMostOne(p3)
    BY <1>1, LayersSayOne DEF AtMostOne, Nil
  <2>2. cfg[f] = Or(p3, Or(p2, Or(p1, Default[f])))
    BY <1>1, ResolvedSays
  <2>3. Words(f)[1] = p1 /\ Words(f)[2] = p2 /\ Words(f)[3] = p3
    BY DEF Words
  <2>. DEFINE w == Words(f)
              v == Or(w[3], Or(w[2], Or(w[1], Default[f])))
              spoken == {i \in 1 .. 3 : w[i] # Nil}
  <2>. HIDE DEF p1, p2, p3
  <2>4. AtMostOne(w[1]) /\ AtMostOne(w[2]) /\ AtMostOne(w[3]) /\ cfg[f] = v
    BY <2>1, <2>2, <2>3
  <2>. HIDE DEF w
  <2>5. IF spoken = {} THEN v = Default[f]
        ELSE \E i \in spoken : (\A k \in spoken : k <= i) /\ w[i] = {v}
    BY <2>4, LastSpoken
  <2>. HIDE DEF v
  <2>. QED BY <2>4, <2>5 DEF w
<1>3. adapter # <<>> => \A f \in DOMAIN adapter : adapter[f] = cfg[f]
  BY <1>1, AdapterFaithful DEF ConfigInv
<1>. QED BY <1>2, <1>3 DEF LastWordReachesAdapter

\* In every field the last layer with anything to say decides, whatever the layers
\* say, and the adapter runs with it.
THEOREM LastWordCounts == Spec => []LastWordReachesAdapter
BY LastWordFromInv, ConfigInvariance, PTL

---------------------------------------------------------------------------
\* The engine's validation is the command's.
LEMMA SameValidity ==
    ASSUME NEW r
    PROVE  Engine!ValidRequest(r) <=> ValidRequest(r)
<1>1. \A S : Engine!Cardinality(S) = Cardinality(S)
  BY Zenon DEF Engine!Cardinality, Cardinality
<1>2. \A q : Engine!ValidQuestion(q) <=> ValidQuestion(q)
  BY DEF Engine!ValidQuestion, ValidQuestion, Engine!ValidNames, ValidNames,
         Engine!Lower, Lower, Engine!DecisionTypes, DecisionTypes
<1>3. Engine!ValidEscalation(r) <=> ValidEscalation(r)
  BY DEF Engine!ValidEscalation, ValidEscalation, Engine!ValidRule, ValidRule,
         Engine!InUnit, InUnit
<1>. QED BY <1>1, <1>2, <1>3 DEF Engine!ValidRequest, ValidRequest

\* A request that is not refused is valid and asks something.
LEMMA RequestsValid ==
    ASSUME NEW s \in Setups, NEW r \in Request(s)
    PROVE  Engine!ValidRequest(r) /\ DOMAIN r.questions # {}
<1>2. ASSUME NEW d \in s.document, ValidRequest(d),
             r = [d EXCEPT !.retain = d.retain \/ s.retain]
      PROVE  ValidRequest(r)
  <2>1. DOMAIN d = {"state", "trace", "retain", "questions", "escalation"}
    BY SetupsAssumption
  <2>2. /\ r.state = d.state /\ r.trace = d.trace /\ r.questions = d.questions
        /\ r.escalation = d.escalation
    BY <1>2, <2>1
  <2>. QED BY <1>2, <2>2 DEF ValidRequest, ValidEscalation
<1>3. r \in FromFlags(s) \/ r \in FromDocument(s)
  BY DEF Request, Nil
<1>4. ValidRequest(r)
  <2>1. CASE r \in FromFlags(s)
    BY <2>1 DEF FromFlags, Nil
  <2>2. CASE r \in FromDocument(s)
    BY <1>2, <2>2 DEF FromDocument
  <2>. QED BY <1>3, <2>1, <2>2
<1>5. DOMAIN r.questions # {}
  <2>1. Cardinality(DOMAIN r.questions) # 0
    BY <1>4, LimitsAssumption DEF ValidRequest
  <2>. QED BY <2>1, FS_EmptySet
<1>. QED BY <1>4, <1>5, SameValidity

---------------------------------------------------------------------------
\* A call that has returned left a receipt, and failed only as its adapter can.
Returned(e) ==
    /\ e.err \in (Engine!Provider!Results \ {"ok"}) \cup {""}
    /\ e.receipts # {}
    /\ cfg.provider = "mock" => e.err \in {"", "timeout"}

\* How far the engine's one call has come at each stage, and how it ended.
RunInv ==
    /\ pc \in {"idle", "calling"} /\ answer \in Engine!Provider!Results \cup {"pending"}
    /\ stage \notin {"deciding", "exited"} => pc = "idle" /\ log = <<>>
    /\ pc = "calling" => /\ stage = "deciding" /\ log = <<>> /\ DOMAIN req.questions # {}
                         /\ cfg.provider = "mock" => answer \in {"pending", "ok", "timeout"}
    /\ log # <<>> => Len(log) = 1 /\ Returned(log[1])
    /\ stage # "exited" => exit = -1 /\ printed = Nil
    /\ stage = "exited" =>
         \/ log = <<>> /\ printed = Nil /\ exit = ExitBadInput
         \/ log = <<>> /\ printed = Nil /\ exit = ExitConfig /\ (cfg = <<>> \/ ~Buildable(cfg))
         \/ /\ log # <<>> /\ printed # Nil
            /\ exit = IF log[1].err = "" THEN ExitOK ELSE ExitCodeFor(log[1].err)
         \/ log # <<>> /\ printed = Nil /\ exit = 1 /\ setup.json

LEMMA RunInit == Init => RunInv
BY DEF Init, RunInv, Engine!Init

\* The command's own steps leave the engine as it is.
LEMMA CommandSteps ==
    ASSUME ConfigInv, RunInv, LoadConfig \/ ReadRequest \/ BuildProvider
    PROVE  RunInv'
<1>1. UNCHANGED <<pc, req, answer, log, printed, setup>> /\ stage \notin {"deciding", "exited"}
  BY DEF LoadConfig, ReadRequest, BuildProvider, engine
<1>2. log = <<>> /\ pc = "idle" /\ printed = Nil /\ exit = -1
  BY <1>1 DEF RunInv
<1>3. CASE LoadConfig
  BY <1>1, <1>2, <1>3 DEF RunInv, ConfigInv, LoadConfig, Exits
<1>4. CASE ReadRequest
  BY <1>1, <1>2, <1>4 DEF RunInv, ReadRequest, Exits
<1>5. CASE BuildProvider
  BY <1>1, <1>2, <1>5 DEF RunInv, BuildProvider, Exits
<1>. QED BY <1>3, <1>4, <1>5

LEMMA AskStep ==
    ASSUME ConfigInv, RunInv, Ask
    PROVE  RunInv'
<1>1. PICK r \in Request(setup) : Engine!Submit(r)
  BY DEF Ask
<1>2. Engine!ValidRequest(r) /\ DOMAIN r.questions # {}
  BY RequestsValid DEF ConfigInv
<1>3. /\ stage = "deciding" /\ Len(log) < 1 /\ UNCHANGED <<setup, stage, cfg, adapter, printed, exit>>
      /\ pc' = "calling" /\ req' = r /\ answer' = "pending" /\ log' = log
  BY <1>1, <1>2 DEF Ask, Engine!Submit, command
<1>4. log = <<>>
  BY <1>3 DEF RunInv
<1>. QED BY <1>2, <1>3, <1>4 DEF RunInv

LEMMA AdapterSteps ==
    ASSUME ConfigInv, RunInv, AdapterReturns \/ ClockRuns \/ InterruptEarly
    PROVE  RunInv'
<1>1. UNCHANGED <<setup, stage, cfg, adapter, printed, exit, pc, req, log>>
  BY DEF AdapterReturns, ClockRuns, InterruptEarly, command, Engine!During, Engine!InterruptBetween
<1>2. answer' = answer \/ (answer' \in Engine!Provider!Results /\ AdapterMay(answer'))
  BY DEF AdapterReturns, ClockRuns, InterruptEarly, Engine!During, Engine!InterruptBetween,
         Engine!Provider!Return, Engine!Provider!Expire, Engine!Provider!Interrupt
<1>3. cfg.provider = "mock" /\ answer' # answer => answer' \in {"ok", "timeout"}
  BY <1>2 DEF AdapterMay
<1>4. log # <<>> => Returned(log[1])'
  BY <1>1 DEF RunInv, Returned
<1>. QED BY <1>1, <1>2, <1>3, <1>4 DEF RunInv

LEMMA ReturnStep ==
    ASSUME ConfigInv, RunInv, DecideReturns
    PROVE  RunInv'
<1>1. PICK err, J : /\ Engine!Finish(err, J) /\ pc = "calling"
                    /\ err = "" \/ (err = answer /\ answer \notin {"pending", "ok"})
  BY DEF DecideReturns, Engine!ReturnFailure, Engine!ReturnJudgments
<1>. DEFINE R == Engine!Build(req, J)
            e == [req |-> req, err |-> err, batch |-> batch, judgments |-> J, receipts |-> R]
<1>2. /\ log = <<>> /\ stage = "deciding" /\ DOMAIN req.questions # {}
      /\ cfg.provider = "mock" => err \in {"", "timeout"}
      /\ err \in (Engine!Provider!Results \ {"ok"}) \cup {""}
  BY <1>1 DEF RunInv
<1>3. log' = Append(log, e) /\ pc' = "idle" /\ UNCHANGED <<req, answer>>
  BY <1>1 DEF Engine!Finish
<1>4. UNCHANGED <<setup, stage, cfg, adapter, printed, exit>>
  BY DEF DecideReturns, command
<1>5. R # {}
  BY <1>2 DEF Engine!Build, Engine!Receipted
<1>6. e.err = err /\ e.receipts = R
  OBVIOUS
<1>. HIDE DEF e, R
<1>7. Len(log') = 1 /\ log'[1] = e
  <2>1. Append(<<>>, e) = <<e>> /\ Len(<<e>>) = 1 /\ <<e>>[1] = e
    OBVIOUS
  <2>. QED BY <1>2, <1>3, <2>1
<1>8. Returned(log[1])'
  BY <1>2, <1>4, <1>5, <1>6, <1>7 DEF Returned
<1>. QED BY <1>2, <1>3, <1>4, <1>7, <1>8 DEF RunInv

LEMMA OutputStep ==
    ASSUME ConfigInv, RunInv, Output
    PROVE  RunInv'
<1>1. PICK written \in IF setup.json /\ Rendered(log[1]) # Nil THEN BOOLEAN ELSE {TRUE} :
        /\ printed' = IF written THEN Rendered(log[1]) ELSE Nil
        /\ Exits(FinalCode(log[1].err, written))
  BY DEF Output
<1>2. /\ stage = "deciding" /\ log # <<>> /\ stage' = "exited"
      /\ exit' = FinalCode(log[1].err, written)
      /\ UNCHANGED <<setup, cfg, adapter, pc, req, answer, log>>
  BY <1>1 DEF Output, Exits, engine
<1>3. Len(log) = 1 /\ Returned(log[1]) /\ pc = "idle"
  BY <1>2 DEF RunInv
<1>4. Rendered(log[1]) # Nil
  BY <1>3 DEF Returned, Rendered, Nil
<1>5. CASE written = TRUE
  <2>1. printed' # Nil /\ exit' = IF log[1].err = "" THEN ExitOK ELSE ExitCodeFor(log[1].err)
    BY <1>1, <1>2, <1>4, <1>5 DEF FinalCode
  <2>. QED BY <1>2, <1>3, <2>1 DEF RunInv, Returned
<1>6. CASE written = FALSE
  <2>1. printed' = Nil /\ exit' = 1 /\ setup.json
    BY <1>1, <1>2, <1>6 DEF FinalCode
  <2>. QED BY <1>2, <1>3, <2>1 DEF RunInv, Returned
<1>. QED BY <1>1, <1>5, <1>6

LEMMA RunStep == ConfigInv /\ RunInv /\ [Next]_vars => RunInv'
<1>. SUFFICES ASSUME ConfigInv, RunInv, [Next]_vars PROVE RunInv'
  OBVIOUS
<1>1. CASE UNCHANGED vars
  BY <1>1 DEF RunInv, Returned, vars, command, engine
<1>. QED BY <1>1, CommandSteps, AskStep, AdapterSteps, ReturnStep, OutputStep DEF Next

\* Both invariants hold of every reachable state.
THEOREM RunInvariance == Spec => [](ConfigInv /\ RunInv)
<1>1. Init => ConfigInv /\ RunInv
  BY ConfigInit, RunInit
<1>2. ConfigInv /\ RunInv /\ [Next]_vars => (ConfigInv /\ RunInv)'
  BY ConfigStep, RunStep
<1>. QED BY <1>1, <1>2, PTL DEF Spec

---------------------------------------------------------------------------
LEMMA ExitFromInv == RunInv => ExitTellsTheOutcome
<1>. SUFFICES ASSUME RunInv, stage = "exited"
              PROVE  /\ exit = ExitOK <=> Asked /\ log[1].err = "" /\ printed # Nil
                     /\ Asked /\ printed # Nil => exit = IF log[1].err = "" THEN ExitOK
                                                         ELSE ExitCodeFor(log[1].err)
                     /\ Asked /\ printed = Nil => exit = 1 /\ setup.json
                     /\ ~Asked => exit \in {ExitBadInput, ExitConfig} /\ printed = Nil
  BY DEF ExitTellsTheOutcome
<1>1. \A kind : ExitCodeFor(kind) \in {1, 2, 3, 4, 5, 6}
  BY DEF ExitCodeFor, ExitBadInput, ExitConfig, ExitProviderUnavailable,
         ExitProviderResponseInvalid, ExitTimeout
<1>2. CASE log = <<>>
  <2>1. exit \in {2, 3} /\ printed = Nil
    BY <1>2 DEF RunInv, ExitBadInput, ExitConfig
  <2>. QED BY <1>2, <2>1 DEF Asked, ExitOK, ExitBadInput, ExitConfig
<1>3. CASE log # <<>> /\ printed # Nil
  <2>1. exit = IF log[1].err = "" THEN ExitOK ELSE ExitCodeFor(log[1].err)
    BY <1>3 DEF RunInv
  <2>2. ExitCodeFor(log[1].err) # 0
    BY <1>1
  <2>. HIDE DEF ExitCodeFor
  <2>. QED BY <1>3, <2>1, <2>2 DEF Asked, ExitOK
<1>4. CASE log # <<>> /\ printed = Nil
  <2>1. exit = 1 /\ setup.json
    BY <1>4 DEF RunInv
  <2>. QED BY <1>4, <2>1 DEF Asked, ExitOK
<1>. QED BY <1>2, <1>3, <1>4

\* However the command is started and whatever happens to it, its exit code says
\* how it fared.
THEOREM ExitCodesTell == Spec => []ExitTellsTheOutcome
BY ExitFromInv, RunInvariance, PTL

LEMMA DoctorFromInv == ConfigInv /\ RunInv => DoctorForetells
<1>. SUFFICES ASSUME ConfigInv, RunInv, cfg # <<>>, exit = ExitConfig
              PROVE  \/ DoctorWarns(cfg, setup.keys)
                     \/ Asked /\ cfg.provider = "jev" /\ CredentialOK(cfg, setup.keys)
                     \/ /\ Urls[cfg.baseURL].host = "loopback"
                        /\ Urls[cfg.baseURL].scheme # "http"
  BY DEF DoctorForetells
<1>1. stage = "exited" /\ cfg.provider \in {"mock", "jev"}
  <2>1. exit = 3
    BY DEF ExitConfig
  <2>2. stage = "exited"
    <3>1. stage # "exited" => exit = -1
      BY Zenon DEF RunInv
    <3>. QED BY <2>1, <3>1
  <2>3. ValidConfig(cfg)
    BY DEF ConfigInv, Loaded
  <2>. QED BY <2>2, <2>3 DEF ValidConfig
<1>2. CASE log = <<>>
  <2>1. cfg.provider = "jev" /\ ~ValidEndpoint(cfg)
    BY <1>1, <1>2 DEF RunInv, Buildable, ExitBadInput, ExitConfig
  <2>2. Trimmed(cfg.baseURL) = "" => Urls[cfg.baseURL].host = ""
    BY UrlsAssumption DEF Trimmed
  <2>. QED BY <2>1, <2>2 DEF ValidEndpoint, DoctorWarns
<1>3. CASE log # <<>>
  <2>1. log[1].err = "configuration"
    <3>1. exit = 3
      BY DEF ExitConfig
    <3>2. exit = IF log[1].err = "" THEN ExitOK ELSE ExitCodeFor(log[1].err)
      <4>1. \/ exit = IF log[1].err = "" THEN ExitOK ELSE ExitCodeFor(log[1].err)
            \/ exit = 1
        BY <1>1, <1>3, Zenon DEF RunInv
      <4>. DEFINE code == IF log[1].err = "" THEN ExitOK ELSE ExitCodeFor(log[1].err)
      <4>2. exit = code \/ exit = 1
        BY <4>1
      <4>. HIDE DEF code
      <4>3. exit = code
        BY <3>1, <4>2
      <4>. QED BY <4>3 DEF code
    <3>3. \A kind : ExitCodeFor(kind) = 3 => kind = "configuration"
      BY DEF ExitCodeFor, ExitBadInput, ExitConfig, ExitProviderUnavailable,
             ExitProviderResponseInvalid, ExitTimeout
    <3>4. ExitOK # 3
      BY DEF ExitOK
    <3>. QED BY <3>1, <3>2, <3>3, <3>4, Zenon
  <2>2. cfg.provider = "jev"
    BY <1>1, <1>3, <2>1 DEF RunInv, Returned
  <2>. QED BY <1>3, <2>2 DEF Asked, DoctorWarns
<1>. QED BY <1>2, <1>3

\* A configuration doctor has nothing to say of is one that decide can use,
\* whatever its layers and URLs are.
THEOREM DoctorIsRight == Spec => []DoctorForetells
BY DoctorFromInv, RunInvariance, PTL

---------------------------------------------------------------------------
\* The engine's words for judgments are the command's.
LEMMA SameWords ==
    /\ \A t : Engine!Lower(t) = Lower(t) /\ Engine!CompiledTo(t) = CompiledTo(t)
    /\ \A t, o : Engine!EmptyJudgment(t, o) = EmptyJudgment(t, o)
<1>1. \A t : Engine!Lower(t) = Lower(t)
  BY DEF Engine!Lower, Lower
<1>2. \A t : Engine!CompiledTo(t) = CompiledTo(t)
  BY <1>1 DEF Engine!CompiledTo, CompiledTo
<1>3. \A t, o : Engine!EmptyJudgment(t, o) = EmptyJudgment(t, o)
  BY <1>2 DEF Engine!EmptyJudgment, EmptyJudgment, Engine!Nil, Nil
<1>. QED BY <1>1, <1>2, <1>3

LEMMA SameMargins ==
    /\ \A p : Engine!BoolFromProbabilityYes(p) = BoolFromProbabilityYes(p)
    /\ \A p : Engine!MarginFromProbabilityYes(p) = MarginFromProbabilityYes(p)
    /\ \A d : Engine!MarginFromDistribution(d) = MarginFromDistribution(d)
<1>1. \A p : Engine!BoolFromProbabilityYes(p) = BoolFromProbabilityYes(p)
  BY DEF Engine!BoolFromProbabilityYes, BoolFromProbabilityYes
<1>2. \A p : Engine!MarginFromProbabilityYes(p) = MarginFromProbabilityYes(p)
  BY DEF Engine!MarginFromProbabilityYes, MarginFromProbabilityYes
<1>3. \A d : Engine!MarginFromDistribution(d) = MarginFromDistribution(d)
  BY DEF Engine!MarginFromDistribution, MarginFromDistribution
<1>. QED BY <1>1, <1>2, <1>3

LEMMA SameDistribution ==
    ASSUME NEW q, NEW a
    PROVE  Engine!Distribution(q, a) = Distribution(q, a)
<1>1. \A n : Engine!DecodedFloat(n) = DecodedFloat(n)
  BY DEF Engine!DecodedFloat, DecodedFloat
<1>2. \A v : Engine!Decoded(v) = Decoded(v)
  BY <1>1 DEF Engine!Decoded, Decoded
<1>3. Engine!NamesOf(q) = NamesOf(q)
  BY DEF Engine!NamesOf, NamesOf
<1>. QED BY <1>1, <1>2, <1>3, SameWords DEF Engine!Distribution, Distribution

LEMMA SameJudged ==
    ASSUME NEW q, NEW a
    PROVE  Engine!Judged(q, a) = Judged(q, a)
<1>1. Engine!ReportedConfidence(a) = ReportedConfidence(a)
  BY DEF Engine!ReportedConfidence, ReportedConfidence
<1>. QED BY <1>1, SameWords, SameMargins, SameDistribution DEF Engine!Judged, Judged

\* The engine escalates as the command would.
LEMMA SameEscalation ==
    ASSUME NEW j, NEW rule
    PROVE  Engine!ApplyEscalation(j, rule) = ApplyEscalation(j, rule)
<1>1. \A v, t : Engine!Verdict(v, t) = Verdict(v, t)
  BY DEF Engine!Verdict, Verdict, Engine!Nil, Nil
<1>. QED BY <1>1 DEF Engine!ApplyEscalation, ApplyEscalation

LEMMA SameRule ==
    ASSUME NEW r, NEW id
    PROVE  Engine!RuleFor(r, id) = RuleFor(r, id)
BY DEF Engine!RuleFor, RuleFor, Engine!NoRule, NoRule, Engine!Nil, Nil

---------------------------------------------------------------------------
\* A process has at most one request, which says what its flags and its document
\* said: the rules of its questions, and whether the state is to be kept.
LEMMA RequestSays ==
    ASSUME NEW s \in Setups, NEW r \in Request(s)
    PROVE  /\ Request(s) = {r}
           /\ r.retain <=> s.retain \/ (~UsesFlags(s) /\ \E d \in s.document : d.retain)
           /\ \A id \in DOMAIN r.questions :
                RuleFor(r, id) = IF UsesFlags(s) THEN Rule(s.single)
                                 ELSE LET d == CHOOSE d \in s.document : TRUE IN RuleFor(d, id)
<1>1. CASE UsesFlags(s)
  <2>1. Request(s) = FromFlags(s)
    BY <1>1 DEF Request
  <2>2. r = FlagRequest(s) /\ FromFlags(s) = {r}
    BY <2>1 DEF FromFlags, Nil
  <2>. DEFINE id == Or(s.single.id, TypeIds[s.single.type])
  <2>3. /\ r.retain = s.retain /\ DOMAIN r.questions = {id}
        /\ r.escalation = [i \in IF Rule(s.single) = NoRule THEN {} ELSE {id} |-> Rule(s.single)]
    BY <2>2 DEF FlagRequest
  <2>4. RuleFor(r, id) = Rule(s.single)
    BY <2>3 DEF RuleFor
  <2>. QED BY <1>1, <2>1, <2>2, <2>3, <2>4
<1>2. CASE ~UsesFlags(s)
  <2>1. Request(s) = FromDocument(s)
    BY <1>2 DEF Request, Nil
  <2>2. PICK d \in s.document : ValidRequest(d) /\ r = [d EXCEPT !.retain = d.retain \/ s.retain]
    BY <2>1 DEF FromDocument
  <2>3. s.document = {d} /\ (CHOOSE x \in s.document : TRUE) = d
    BY SetupsAssumption DEF AtMostOne
  <2>4. DOMAIN d = {"state", "trace", "retain", "questions", "escalation"}
    BY SetupsAssumption
  <2>5. r.escalation = d.escalation /\ r.retain = (d.retain \/ s.retain)
    BY <2>2, <2>4
  <2>6. Request(s) = {r}
    BY <2>1, <2>2, <2>3 DEF FromDocument
  <2>7. \A id : RuleFor(r, id) = RuleFor(d, id)
    BY <2>5 DEF RuleFor
  <2>8. r.retain <=> s.retain \/ \E x \in s.document : x.retain
    BY <2>3, <2>5
  <2>. QED BY <1>2, <2>3, <2>6, <2>7, <2>8
<1>. QED BY <1>1, <1>2

\* The questions of a request have types the engine knows.
LEMMA TypesKnown ==
    ASSUME NEW s \in Setups, NEW r \in Request(s), NEW id \in DOMAIN r.questions
    PROVE  r.questions[id].type \in DecisionTypes
BY RequestsValid, SameValidity DEF ValidRequest, ValidQuestion

\* Receipts about judgments in their questions' words say what the judgments say.
LEMMA ReceiptsTell ==
    ASSUME NEW r, NEW J, DOMAIN J = DOMAIN r.questions,
           \A id \in DOMAIN J : InWordsOf(J[id], r.questions[id].type)
    PROVE  /\ {c.question : c \in Engine!Build(r, J)} = DOMAIN r.questions
           /\ \A c \in Engine!Build(r, J) :
                /\ c.judgment = J[c.question]
                /\ c.state = IF r.retain THEN {r.state} ELSE Nil
<1>. DEFINE ids == DOMAIN r.questions
            of(id) == Engine!Receipt(r, J, id, Engine!DecisionId(issued, id, ids))
<1>1. Engine!Build(r, J) = {of(id) : id \in ids}
  BY DEF Engine!Build, Engine!Receipted
<1>2. ASSUME NEW id \in ids
      PROVE  /\ of(id).question = id /\ of(id).judgment = J[id]
             /\ of(id).state = IF r.retain THEN {r.state} ELSE Nil
  <2>. DEFINE t == r.questions[id].type
  <2>1. of(id).judgment = [J[id] EXCEPT !.type = t, !.compiledTo = CompiledTo(t)]
    BY SameWords DEF Engine!Receipt
  <2>2. [J[id] EXCEPT !.type = t, !.compiledTo = CompiledTo(t)] = J[id]
    BY ToldTwice
  <2>3. of(id).question = id /\ of(id).state = IF r.retain THEN {r.state} ELSE Nil
    BY DEF Engine!Receipt, Engine!Nil, Nil
  <2>. HIDE DEF of
  <2>. QED BY <2>1, <2>2, <2>3
<1>. HIDE DEF of
<1>3. {c.question : c \in Engine!Build(r, J)} = ids
  BY <1>1, <1>2
<1>. DEFINE kept == IF r.retain THEN {r.state} ELSE Nil
<1>4. \A id \in ids : of(id).question = id /\ of(id).judgment = J[id] /\ of(id).state = kept
  BY <1>2
<1>. HIDE DEF kept
<1>5. \A c \in Engine!Build(r, J) : c.judgment = J[c.question] /\ c.state = kept
  BY <1>1, <1>4
<1>. QED BY <1>3, <1>5 DEF kept

\* A judgment that a rule decided: it escalates exactly when it does not meet the
\* rule's thresholds.
Governed(j, rule) ==
    /\ j.escalate <=> ~(/\ Engine!Meets(rule.confidence, j.confidence)
                        /\ Engine!Meets(rule.margin, j.margin))
    /\ j.escalate <=> j.outcome # "ACCEPTABLE_CONFIDENCE"

LEMMA FollowingGoverns ==
    ASSUME NEW e, NEW j, NEW rule, NEW t, Follows(e, j, rule, t)
    PROVE  Governed(e, rule)
<1>. DEFINE reason == Because(j, rule)
<1>1. /\ e.outcome = (IF reason = "" THEN "ACCEPTABLE_CONFIDENCE" ELSE "LOW_CONFIDENCE")
      /\ e.escalate = (reason # "") /\ e.confidence = j.confidence /\ e.margin = j.margin
  BY DEF Follows
<1>2. \A v, t2 : Verdict(v, t2) = "" <=> Engine!Meets(t2, v)
  BY DEF Verdict, Nil, Engine!Meets, Engine!Nil
<1>3. reason = "" <=> /\ Engine!Meets(rule.confidence, j.confidence)
                      /\ Engine!Meets(rule.margin, j.margin)
  BY <1>2 DEF Because
<1>. HIDE DEF reason
<1>4. e.escalate <=> reason # ""
  BY <1>1
<1>5. e.outcome = "ACCEPTABLE_CONFIDENCE" <=> reason = ""
  BY <1>1
<1>. QED BY <1>1, <1>3, <1>4, <1>5 DEF Governed

\* The judgments the engine makes of a body, those it keeps.
Answered(r, asks, b, kept) ==
    Engine!Escalated(r, Engine!Restored(r,
      [id \in kept |-> Engine!ParseResponse(asks, b, TRUE).judgments[id]]))

\* The judgments the engine makes of an accepted body are in the words of their
\* questions, and governed by the rules of the request.
LEMMA AnswersGoverned ==
    ASSUME NEW s \in Setups, NEW r \in Request(s), NEW asks, asks = Engine!Lowered(r), NEW b,
           NEW kept \in SUBSET DOMAIN asks, Engine!ParseResponse(asks, b, TRUE).accepted
    PROVE  /\ DOMAIN Answered(r, asks, b, kept) = kept
           /\ \A id \in kept :
                /\ InWordsOf(Answered(r, asks, b, kept)[id], r.questions[id].type)
                /\ Governed(Answered(r, asks, b, kept)[id], RuleFor(r, id))
<1>. DEFINE parsed == Engine!ParseResponse(asks, b, TRUE)
            given == [id \in kept |-> parsed.judgments[id]]
            J == Engine!Escalated(r, Engine!Restored(r, given))
<1>0. Answered(r, asks, b, kept) = J
  BY DEF Answered
<1>1. parsed.judgments = [id \in DOMAIN asks |-> Engine!Judged(asks[id], b.answers[id])]
  BY DEF Engine!ParseResponse, Engine!Refused
<1>2. DOMAIN asks = DOMAIN r.questions
  BY DEF Engine!Lowered
<1>3. DOMAIN J = kept
  BY DEF Engine!Escalated, Engine!Restored
<1>4. ASSUME NEW id \in kept
      PROVE  InWordsOf(J[id], r.questions[id].type) /\ Governed(J[id], RuleFor(r, id))
  <2>. DEFINE t == r.questions[id].type
              j == Judged(asks[id], b.answers[id])
  <2>1. t \in DecisionTypes
    BY <1>2, TypesKnown
  <2>2. asks[id].type \in DecisionTypes
    <3>1. asks[id].type = Lower(t) \/ asks[id] = r.questions[id]
      BY <1>2, SameWords DEF Engine!Lowered
    <3>. QED BY <2>1, <3>1 DEF Lower, DecisionTypes
  <2>3. Fresh(j)
    BY <2>2, JudgedFresh
  <2>4. given[id] = j
    BY <1>1, <1>2, SameJudged
  <2>5. J[id] = Engine!ApplyEscalation(
                  [j EXCEPT !.type = t, !.compiledTo = Engine!CompiledTo(t)],
                  Engine!RuleFor(r, id))
    <3>. HIDE DEF parsed, j
    <3>. QED BY <2>4 DEF Engine!Escalated, Engine!Restored
  <2>. HIDE DEF j, t, J
  <2>6. Follows(J[id], j, RuleFor(r, id), t)
    BY <2>3, <2>5, SameWords, SameEscalation, SameRule, RestoredFollows
  <2>. QED BY <2>6, FollowingGoverns DEF Follows, t
<1>. HIDE DEF J
<1>. QED BY <1>0, <1>3, <1>4

---------------------------------------------------------------------------
\* What a call that has returned says of the request it was made for.
CallTold(e) ==
    /\ e.req \in Request(setup)
    /\ DOMAIN e.judgments = DOMAIN e.req.questions
    /\ {c.question : c \in e.receipts} = DOMAIN e.req.questions
    /\ \A c \in e.receipts : /\ c.judgment = e.judgments[c.question]
                             /\ c.state = IF e.req.retain THEN {e.req.state} ELSE Nil
    /\ e.err = "" => \A id \in DOMAIN e.judgments : Governed(e.judgments[id], RuleFor(e.req, id))

\* The call is made for this process's request, and what is printed is what the
\* call returned.
AnswerInv ==
    /\ pc = "calling" => req \in Request(setup) /\ asked = Engine!Lowered(req)
    /\ log # <<>> => CallTold(log[1])
    /\ printed # Nil =>
         /\ log # <<>>
         /\ printed = {[judgments |-> log[1].judgments,
                        receipts |-> IF setup.json THEN log[1].receipts ELSE {}]}

\* The first entry of a log.
LEMMA FirstOfOne == ASSUME NEW e PROVE Append(<<>>, e)[1] = e
OBVIOUS

\* A call that finishes with judgments in their questions' words says them.
LEMMA FinishTells ==
    ASSUME ConfigInv, RunInv, AnswerInv, UNCHANGED command, pc = "calling",
           NEW err, NEW J, Engine!Finish(err, J), DOMAIN J = DOMAIN req.questions,
           \A id \in DOMAIN J : /\ InWordsOf(J[id], req.questions[id].type)
                                /\ err = "" => Governed(J[id], RuleFor(req, id))
    PROVE  AnswerInv'
<1>. DEFINE R == Engine!Build(req, J)
            e == [req |-> req, err |-> err, batch |-> batch, judgments |-> J, receipts |-> R]
<1>1. log = <<>> /\ printed = Nil /\ req \in Request(setup)
  BY DEF RunInv, AnswerInv
<1>2. log' = Append(log, e) /\ pc' = "idle" /\ setup' = setup /\ printed' = printed
  BY DEF Engine!Finish, command
<1>3. /\ {c.question : c \in R} = DOMAIN req.questions
      /\ \A c \in R : /\ c.judgment = J[c.question]
                      /\ c.state = IF req.retain THEN {req.state} ELSE Nil
  BY ReceiptsTell
<1>4. e.req = req /\ e.err = err /\ e.judgments = J /\ e.receipts = R
  OBVIOUS
<1>. HIDE DEF e, R
<1>5. CallTold(e)
  BY <1>1, <1>3, <1>4 DEF CallTold
<1>6. log'[1] = e
  <2>1. Append(<<>>, e)[1] = e
    BY FirstOfOne
  <2>. QED BY <1>1, <1>2, <2>1
<1>7. CallTold(log[1])'
  BY <1>2, <1>5, <1>6 DEF CallTold
<1>. QED BY <1>1, <1>2, <1>7 DEF AnswerInv

LEMMA AnswerStep == ConfigInv /\ RunInv /\ AnswerInv /\ [Next]_vars => AnswerInv'
<1>. SUFFICES ASSUME ConfigInv, RunInv, AnswerInv, [Next]_vars PROVE AnswerInv'
  OBVIOUS
<1>1. CASE UNCHANGED <<pc, req, asked, log, setup, printed>>
  BY <1>1 DEF AnswerInv, CallTold
<1>2. CASE \/ LoadConfig \/ ReadRequest \/ BuildProvider \/ AdapterReturns \/ ClockRuns
           \/ InterruptEarly \/ UNCHANGED vars
  BY <1>1, <1>2 DEF LoadConfig, ReadRequest, BuildProvider, AdapterReturns, ClockRuns,
                    InterruptEarly, Engine!InterruptBetween, Engine!During, vars, command, engine
<1>3. CASE Ask
  <2>1. PICK r \in Request(setup) : Engine!Submit(r)
    BY <1>3 DEF Ask
  <2>2. Engine!ValidRequest(r)
    BY <2>1, RequestsValid DEF ConfigInv
  <2>3. /\ pc' = "calling" /\ req' = r /\ asked' = Engine!Lowered(r) /\ log' = log
        /\ setup' = setup /\ printed' = printed
    BY <1>3, <2>1, <2>2 DEF Ask, Engine!Submit, command
  <2>. QED BY <2>1, <2>3 DEF AnswerInv, CallTold
<1>4. CASE DecideReturns /\ Engine!ReturnFailure
  <2>. DEFINE J == Engine!FailureJudgments(req, answer)
  <2>1. /\ pc = "calling" /\ Engine!Finish(answer, J) /\ answer # "" /\ UNCHANGED command
    BY <1>4 DEF DecideReturns, Engine!ReturnFailure, RunInv, Engine!Provider!Results
  <2>2. DOMAIN J = DOMAIN req.questions
    BY DEF Engine!FailureJudgments
  <2>3. \A id \in DOMAIN J : InWordsOf(J[id], req.questions[id].type)
    BY <2>2, SameWords, EmptyFits DEF Engine!FailureJudgments
  <2>. HIDE DEF J
  <2>. QED BY <2>1, <2>2, <2>3, FinishTells
<1>5. CASE DecideReturns /\ Engine!ReturnJudgments /\ DOMAIN log'[1].judgments = DOMAIN asked
  <2>1. /\ pc = "calling" /\ UNCHANGED command /\ log = <<>>
        /\ setup \in Setups /\ req \in Request(setup) /\ asked = Engine!Lowered(req)
    BY <1>5 DEF DecideReturns, Engine!ReturnJudgments, ConfigInv, RunInv, AnswerInv
  <2>2. DOMAIN asked = DOMAIN req.questions
    BY <2>1 DEF Engine!Lowered
  <2>3. PICK b \in Bodies : \E kept \in SUBSET DOMAIN asked :
          LET parsed == Engine!ParseResponse(asked, b, TRUE)
              given  == [id \in kept |-> parsed.judgments[id]]
          IN  /\ parsed.accepted
              /\ Engine!Finish("", Engine!Escalated(req, Engine!Restored(req, given)))
    BY <1>5 DEF Engine!ReturnJudgments
  <2>4. PICK kept \in SUBSET DOMAIN asked :
          LET parsed == Engine!ParseResponse(asked, b, TRUE)
              given  == [id \in kept |-> parsed.judgments[id]]
          IN  /\ parsed.accepted
              /\ Engine!Finish("", Engine!Escalated(req, Engine!Restored(req, given)))
    BY <2>3
  <2>5. Engine!ParseResponse(asked, b, TRUE).accepted
    BY <2>4
  <2>. DEFINE J == Answered(req, asked, b, kept)
  <2>6. /\ DOMAIN J = kept
        /\ \A id \in kept : /\ InWordsOf(J[id], req.questions[id].type)
                            /\ Governed(J[id], RuleFor(req, id))
    <3>1. setup \in Setups /\ req \in Request(setup) /\ asked = Engine!Lowered(req)
      BY <2>1
    <3>. HIDE DEF J
    <3>2. Engine!ParseResponse(asked, b, TRUE).accepted =>
           /\ DOMAIN Answered(req, asked, b, kept) = kept
           /\ \A id \in kept :
                /\ InWordsOf(Answered(req, asked, b, kept)[id], req.questions[id].type)
                /\ Governed(Answered(req, asked, b, kept)[id], RuleFor(req, id))
      BY ONLY <3>1, kept \in SUBSET DOMAIN asked, AnswersGoverned, ZenonT(60)
    <3>. QED BY ONLY <2>5, <3>2 DEF J
  <2>7. Engine!Finish("", J)
    BY <2>4 DEF Answered
  <2>. HIDE DEF J
  <2>8. kept = DOMAIN asked
    <3>. DEFINE e == [req |-> req, err |-> "", batch |-> batch, judgments |-> J,
                      receipts |-> Engine!Build(req, J)]
    <3>1. log' = Append(log, e) /\ e.judgments = J
      BY <2>7 DEF Engine!Finish
    <3>. HIDE DEF e
    <3>2. Append(<<>>, e)[1] = e
      BY FirstOfOne
    <3>3. log'[1] = e
      BY <2>1, <3>1, <3>2
    <3>. QED BY <1>5, <2>6, <3>1, <3>3
  <2>. QED BY <2>1, <2>2, <2>6, <2>7, <2>8, FinishTells
<1>6. CASE Output
  <2>1. PICK written \in IF setup.json /\ Rendered(log[1]) # Nil THEN BOOLEAN ELSE {TRUE} :
          printed' = IF written THEN Rendered(log[1]) ELSE Nil
    BY <1>6 DEF Output
  <2>2. log # <<>> /\ UNCHANGED <<pc, req, asked, log, setup>>
    BY <1>6 DEF Output, engine
  <2>3. printed' # Nil =>
          printed' = {[judgments |-> log[1].judgments,
                       receipts |-> IF setup.json THEN log[1].receipts ELSE {}]}
    BY <2>1 DEF Rendered
  <2>. QED BY <2>2, <2>3 DEF AnswerInv, CallTold
<1>. QED BY <1>2, <1>3, <1>4, <1>5, <1>6 DEF Next, DecideReturns

\* What is printed is what was answered, in every reachable state.
THEOREM AnswerInvariance == Spec => [](ConfigInv /\ AnswerInv)
<1>1. Init => AnswerInv
  BY DEF Init, AnswerInv, Engine!Init
<1>2. AnswerInv /\ (ConfigInv /\ RunInv) /\ [Next]_vars => AnswerInv'
  BY AnswerStep
<1>. QED BY <1>1, <1>2, RunInvariance, PTL DEF Spec

LEMMA PrintedFromInv == AnswerInv /\ ConfigInv => NothingAskedUnprinted
<1>. SUFFICES ASSUME AnswerInv, ConfigInv, NEW p \in printed, NEW r \in Request(setup)
              PROVE  /\ DOMAIN p.judgments = DOMAIN r.questions
                     /\ setup.json => {c.question : c \in p.receipts} = DOMAIN r.questions
                     /\ \A c \in p.receipts : c.judgment = p.judgments[c.question]
  BY DEF NothingAskedUnprinted
<1>. DEFINE all == IF setup.json THEN log[1].receipts ELSE {}
<1>1. /\ CallTold(log[1]) /\ p.judgments = log[1].judgments
      /\ p.receipts = IF setup.json THEN log[1].receipts ELSE {}
  <2>1. log # <<>> /\ printed = {[judgments |-> log[1].judgments, receipts |-> all]}
    BY DEF AnswerInv, Nil
  <2>. HIDE DEF all
  <2>2. p.judgments = log[1].judgments /\ p.receipts = all
    BY <2>1
  <2>. QED BY <2>1, <2>2 DEF AnswerInv, all
<1>2. log[1].req = r
  BY <1>1, RequestSays DEF CallTold, ConfigInv
<1>. QED BY <1>1, <1>2 DEF CallTold

\* Whatever was asked, in flags or in a document, is printed, and the receipts with
\* it say the same.
THEOREM EverythingPrinted == Spec => []NothingAskedUnprinted
BY PrintedFromInv, AnswerInvariance, PTL

LEMMA CallersWordFromInv == AnswerInv /\ ConfigInv => CallersWordCounts
<1>. SUFFICES ASSUME AnswerInv, ConfigInv, NEW p \in printed
              PROVE  /\ log[1].err = "" => \A id \in DOMAIN p.judgments :
                          Governed(p.judgments[id], CallersRule(id))
                     /\ \A c \in p.receipts :
                          c.state # Nil <=>
                            \/ setup.retain
                            \/ ~UsesFlags(setup) /\ \E d \in setup.document : d.retain
  BY DEF CallersWordCounts, Governed
<1>1. /\ CallTold(log[1]) /\ p.judgments = log[1].judgments /\ setup \in Setups
      /\ p.receipts \subseteq log[1].receipts
  <2>. DEFINE all == IF setup.json THEN log[1].receipts ELSE {}
  <2>1. log # <<>> /\ printed = {[judgments |-> log[1].judgments, receipts |-> all]}
    BY DEF AnswerInv, Nil
  <2>2. all \subseteq log[1].receipts
    OBVIOUS
  <2>. HIDE DEF all
  <2>. QED BY <2>1, <2>2 DEF AnswerInv, ConfigInv
<1>. DEFINE r == log[1].req
<1>2. /\ r \in Request(setup) /\ DOMAIN p.judgments = DOMAIN r.questions
      /\ \A c \in p.receipts : c.state = IF r.retain THEN {r.state} ELSE Nil
      /\ log[1].err = "" =>
           \A id \in DOMAIN p.judgments : Governed(p.judgments[id], RuleFor(r, id))
  BY <1>1 DEF CallTold
<1>. HIDE DEF r
<1>3. /\ r.retain <=> \/ setup.retain
                      \/ ~UsesFlags(setup) /\ \E d \in setup.document : d.retain
      /\ \A id \in DOMAIN r.questions :
           RuleFor(r, id) = IF UsesFlags(setup) THEN Rule(setup.single)
                            ELSE LET d == CHOOSE d \in setup.document : TRUE IN RuleFor(d, id)
  BY <1>1, <1>2, RequestSays
<1>4. \A id \in DOMAIN r.questions : RuleFor(r, id) = CallersRule(id)
  BY <1>3 DEF CallersRule, Rule
<1>5. \A c \in p.receipts : c.state # Nil <=> r.retain
  BY <1>2 DEF Nil
<1>. QED BY <1>2, <1>3, <1>4, <1>5

\* The thresholds and the choice to keep the state that a caller wrote, in flags or
\* in a document, are what decides what is printed.
THEOREM CallersWordHolds == Spec => []CallersWordCounts
BY CallersWordFromInv, AnswerInvariance, PTL
=============================================================================
