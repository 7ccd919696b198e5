---- MODULE MCJevParsing ----
(* Requests of one and two questions, and the bodies each may get. *)
EXTENDS JevParsing, TLC

mcNoul     == [type |-> "noul", names |-> <<>>]
mcChoice   == [type |-> "choice", names |-> <<"a", "b">>]
mcClassify == [type |-> "classify", names |-> <<"a", "b">>]
mcOneWay   == [type |-> "choice", names |-> <<"a">>]
mcScore    == [type |-> "score", names |-> <<"lo", "mid", "hi">>]

mcNumbers == -1 .. Unit + 1
mcSome    == {0, 1, 2, Unit, Unit + 1}

mcBlank == [decodable |-> TRUE, unknown |-> FALSE, noul |-> Nil, choice |-> Nil,
            score |-> Nil, legend |-> <<>>, confidence |-> Nil,
            form |-> "absent", values |-> <<>>]

mcNoulAnswers ==
    { [mcBlank EXCEPT !.noul = n, !.choice = c, !.score = s, !.legend = l,
                      !.confidence = k, !.form = f, !.decodable = d, !.unknown = u] :
        n \in Ptr(mcNumbers), c \in Ptr({"a"}), s \in Ptr({0}), l \in {<<>>, <<"a">>},
        k \in Ptr({-1, 0, Unit, Unit + 1}), f \in {"absent", "object"},
        d \in BOOLEAN, u \in BOOLEAN }

mcObjects(S) == [S -> Ptr(mcSome)]

mcChoiceAnswers ==
    { [mcBlank EXCEPT !.choice = c, !.noul = n, !.legend = l, !.confidence = k,
                      !.form = f[1], !.values = f[2], !.unknown = u] :
        c \in Ptr({"a", "b", "x"}), n \in Ptr({1}), l \in {<<>>, <<"a">>},
        k \in Ptr({1, Unit + 1}), u \in BOOLEAN,
        f \in {<<"absent", <<>>>>, <<"other", <<>>>>}
              \cup {<<"object", o>> : o \in mcObjects({"a"}) \cup mcObjects({"a", "b"})
                                                       \cup [{"a", "b", "x"} -> {{1}, {2}}]} }

mcScoreAnswers ==
    { [mcBlank EXCEPT !.score = s, !.choice = c, !.legend = l, !.confidence = k,
                      !.form = f[1], !.values = f[2]] :
        s \in Ptr({-1, 0, 1, 2 * Unit, 2 * Unit + 1}), c \in Ptr({"a"}), k \in Ptr({1}),
        l \in {<<>>, <<"lo", "mid", "hi">>, <<"mid", "lo", "hi">>, <<"lo">>},
        f \in {<<"absent", <<>>>>, <<"object", <<>>>>, <<"array", <<{Unit}, {0}>>>>}
              \cup {<<"array", v>> : v \in [1 .. 3 -> Ptr({0, 1, 2, Unit})]} }

mcBody(answers) == [wellFormed |-> TRUE, unknown |-> FALSE, answers |-> answers]

mcSingles(q, As) == [req |-> (1 :> q), bodies |-> {mcBody(1 :> a) : a \in As}]

\* Batches: every way to answer, drop or add an answer, over good and bad ones.
mcBatchAnswers == {mcBlank, [mcBlank EXCEPT !.noul = {1}], [mcBlank EXCEPT !.choice = {"b"}]}

mcBatch ==
    [req |-> (1 :> mcNoul @@ 2 :> mcChoice),
     bodies |-> { [wellFormed |-> w, unknown |-> u, answers |-> as] :
                    w \in BOOLEAN, u \in BOOLEAN,
                    as \in UNION {[S -> mcBatchAnswers] : S \in SUBSET (1 .. 3)} }]

mcExchanges ==
    { mcSingles(mcNoul, mcNoulAnswers), mcSingles(mcChoice, mcChoiceAnswers),
      mcSingles(mcClassify, mcChoiceAnswers), mcSingles(mcOneWay, mcChoiceAnswers),
      mcSingles(mcScore, mcScoreAnswers), mcBatch }
====
