-------------------------- MODULE MCDecideCommand --------------------------
(* Processes whose configuration varies around one request, and whose request
   varies around a few configurations. *)
EXTENDS DecideCommand, TLC

mcUrls == [x \in {"", " ", "host"} |-> [scheme |-> "", host |-> ""]]
          @@ ("https://remote" :> [scheme |-> "https", host |-> "remote"]
              @@ "http://remote" :> [scheme |-> "http", host |-> "remote"]
              @@ "http://local" :> [scheme |-> "http", host |-> "loopback"]
              @@ "ftp://local" :> [scheme |-> "ftp", host |-> "loopback"])

mcTypeIds == [noul |-> 1, choice |-> 2, score |-> 3, classify |-> 4]

mcNoFile == [readable |-> TRUE, provider |-> "", baseURL |-> "", model |-> "",
             apiKeyEnv |-> "", timeout |-> Nil, maxRetries |-> Nil, strictSchema |-> Nil]
mcNoEnv  == [provider |-> "", baseURL |-> "", model |-> "", apiKeyEnv |-> "",
             timeout |-> Nil, maxRetries |-> Nil]
mcNoFlags == [provider |-> "", baseURL |-> "", model |-> "", apiKeyEnv |-> "",
              timeout |-> 0, maxRetries |-> Nil]

mcJevFlags == [mcNoFlags EXCEPT !.provider = "jev", !.baseURL = "https://remote",
                                !.model = "m", !.apiKeyEnv = "KEY"]

mcNoSingle == [type |-> "", state |-> "", question |-> "", id |-> Nil, names |-> <<>>,
               meaning |-> "", foreign |-> FALSE, minConfidence |-> Nil, minMargin |-> Nil]
mcNoul == [mcNoSingle EXCEPT !.type = "noul", !.state = "ok", !.question = "ok"]
mcClassify == [mcNoul EXCEPT !.type = "classify", !.id = {7}, !.names = <<"a", "b">>]

mcDocument ==
    [state |-> "ok", trace |-> "", retain |-> FALSE,
     questions |-> (1 :> [type |-> "noul", text |-> "ok", names |-> <<>>,
                          meaning |-> "", foreign |-> FALSE]
                    @@ 7 :> [type |-> "classify", text |-> "ok", names |-> <<"a", "b">>,
                             meaning |-> "", foreign |-> FALSE]),
     escalation |-> (7 :> [confidence |-> {2}, margin |-> Nil])]

mcSetup == [file |-> Nil, explicit |-> FALSE, env |-> mcNoEnv, flags |-> mcNoFlags,
            keys |-> {"KEY"}, input |-> "", piped |-> FALSE, openable |-> TRUE,
            document |-> {mcDocument}, single |-> mcNoul, retain |-> FALSE, json |-> TRUE]

---------------------------------------------------------------------------
\* One text field in all of its layers, the rest saying nothing.
mcProviders ==
    { [mcSetup EXCEPT !.file = {[mcNoFile EXCEPT !.provider = p, !.baseURL = "http://local"]},
                      !.env.provider = e, !.flags.provider = f] :
        p \in {"", "jev", "other"}, e \in {"", " ", "mock", "jev"}, f \in {"", " ", "mock", "jev"} }

mcEndpoints ==
    { [mcSetup EXCEPT !.file = {[mcNoFile EXCEPT !.provider = "jev", !.baseURL = p]},
                      !.env.baseURL = e, !.flags.baseURL = f,
                      !.flags.model = m, !.flags.apiKeyEnv = k] :
        p \in {"", "http://local"}, e \in {"", " ", "ftp://local"},
        f \in {"", " ", "host", "https://remote", "http://remote"},
        m \in {"", "m"}, k \in {"", "KEY", "NOKEY"} }

mcNumbers ==
    { [mcSetup EXCEPT !.file = {[mcNoFile EXCEPT !.timeout = t, !.maxRetries = n,
                                                 !.strictSchema = x]},
                      !.env.timeout = u, !.env.maxRetries = o,
                      !.flags = [mcJevFlags EXCEPT !.timeout = v, !.maxRetries = q]] :
        t \in {Nil, {Nil}, {{-1}}, {{3}}}, n \in {Nil, {0}, {1}}, x \in {Nil, {FALSE}},
        u \in {Nil, {Nil}, {{0}}, {{4}}}, o \in {Nil, {{0}}},
        v \in {0, 5}, q \in {Nil, {-1}, {3}} }

mcFiles ==
    { [mcSetup EXCEPT !.file = f, !.explicit = x] :
        f \in {Nil, {mcNoFile}, {[mcNoFile EXCEPT !.readable = FALSE]}}, x \in BOOLEAN }

\* Requests from flags and from documents, for either adapter.
mcSingles ==
    { [m EXCEPT !.minConfidence = c, !.minMargin = g] :
        m \in {mcNoul, mcClassify}, c \in {Nil, {{2}}}, g \in {Nil, {Nil}, {{4}}, {{5}}} }
    \cup { mcNoSingle, [mcNoul EXCEPT !.type = "other"], [mcNoul EXCEPT !.question = ""],
           [mcNoul EXCEPT !.state = ""], [mcNoul EXCEPT !.foreign = TRUE],
           [mcNoul EXCEPT !.id = {9}] }

mcDocuments ==
    { Nil, {mcDocument}, {[mcDocument EXCEPT !.retain = TRUE]},
      {[mcDocument EXCEPT !.state = ""]} }

mcRequests ==
    { [mcSetup EXCEPT !.single = s, !.retain = r, !.json = j, !.flags = f] :
        s \in mcSingles, r \in BOOLEAN, j \in BOOLEAN, f \in {mcNoFlags, mcJevFlags} }
    \cup { [mcSetup EXCEPT !.single = s, !.document = d, !.input = i, !.piped = p,
                           !.openable = o, !.retain = r, !.flags = f] :
             s \in {mcNoSingle, mcClassify}, d \in mcDocuments, i \in {"", "-", "path"},
             p \in BOOLEAN, o \in BOOLEAN, r \in BOOLEAN, f \in {mcNoFlags, mcJevFlags} }

mcSetups == mcProviders \cup mcEndpoints \cup mcNumbers \cup mcFiles \cup mcRequests

---------------------------------------------------------------------------
mcBlank == [decodable |-> TRUE, unknown |-> FALSE, noul |-> Nil, choice |-> Nil,
            score |-> Nil, legend |-> <<>>, confidence |-> Nil,
            form |-> "absent", values |-> <<>>]

mcNouls == { [mcBlank EXCEPT !.noul = {p}] : p \in {0, 3} }
mcChoices == { [mcBlank EXCEPT !.choice = {"a"}],
               [mcBlank EXCEPT !.choice = {"b"}, !.confidence = {3}, !.form = "object",
                               !.values = [a |-> {0}, b |-> {4}]] }

mcBodies ==
    { [wellFormed |-> TRUE, unknown |-> FALSE, answers |-> a] :
        a \in { 1 :> n : n \in mcNouls } \cup { 7 :> c : c \in mcChoices }
              \cup { 1 :> n @@ 7 :> c : n \in mcNouls, c \in mcChoices } }
=============================================================================
