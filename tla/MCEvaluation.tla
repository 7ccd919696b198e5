---- MODULE MCEvaluation ----
(* A dataset of three cases of three types, others of one, and the datasets Load
   refuses; answers with and without distributions; rules and gates. *)
EXTENDS Evaluation, TLC

mcQuestion(type, names) ==
    [type |-> type, text |-> "ok", names |-> names, meaning |-> "", foreign |-> FALSE]

mcNoul   == mcQuestion("noul", <<>>)
mcRoute  == mcQuestion("classify", <<"x", "y">>)
mcLevels == mcQuestion("score", <<"low", "mid", "high">>)

mcTrue     == [bool |-> {TRUE}, name |-> {}, index |-> {}]
mcName(n)  == [bool |-> {}, name |-> {n}, index |-> {}]
mcIndex(i) == [bool |-> {}, name |-> {}, index |-> {i}]
mcNone     == [bool |-> {}, name |-> {}, index |-> {}]

mcCase(id, q, e) == [id |-> id, state |-> "ok", question |-> q, expected |-> e]
mcSet(q, cases)  == [schema |-> TRUE, name |-> "set", question |-> q, cases |-> cases]

mcMixed == mcSet({mcNoul}, << mcCase("c1", Nil, mcTrue), mcCase("c2", {mcRoute}, mcName("y")),
                              mcCase("c3", {mcLevels}, mcIndex(1)) >>)
mcNouls == mcSet({mcNoul}, << mcCase("c1", Nil, mcName("yes")), mcCase("c2", Nil, mcName("no")),
                              mcCase("c3", Nil, mcTrue) >>)
\* A state that loads and that the engine refuses.
mcLong  == mcSet({mcNoul}, << [mcCase("c1", Nil, mcName("no")) EXCEPT !.state = "bad"],
                              mcCase("c2", {mcRoute}, mcName("y")) >>)

\* Each is refused for a reason of its own.
mcBad ==
    { [mcMixed EXCEPT !.schema = FALSE],
      [mcMixed EXCEPT !.cases = <<>>],
      mcSet(Nil, <<mcCase("c1", Nil, mcTrue)>>),
      mcSet({mcNoul}, <<mcCase("c1", Nil, mcTrue), mcCase("c1", Nil, mcTrue)>>),
      mcSet({mcNoul}, <<mcCase("bad id", Nil, mcTrue)>>),
      mcSet({mcNoul}, <<mcCase("c1", Nil, mcNone)>>),
      mcSet({mcRoute}, <<mcCase("c1", Nil, mcName("typo"))>>),
      mcSet({mcRoute}, <<[mcCase("c1", Nil, mcName("x")) EXCEPT !.state = ""]>>),
      mcSet({mcQuestion("choice", <<"x", "y", "z">>)}, <<mcCase("c1", Nil, mcName("z"))>>),
      mcSet({mcLevels}, <<mcCase("c1", Nil, mcIndex(3))>>) }

mcDataSets == {mcMixed, mcNouls, mcLong} \cup mcBad

\* None, one a judgment may miss, and one no request may carry.
mcRules == { NoRule, [confidence |-> {2}, margin |-> {2}], [confidence |-> {5}, margin |-> Nil] }

mcGates == { Nil, {[kind |-> "number", at |-> 3]}, {[kind |-> "nan", at |-> 0]},
             {[kind |-> "text", at |-> 0]} }

mcBlank == [decodable |-> TRUE, unknown |-> FALSE, noul |-> Nil, choice |-> Nil,
            score |-> Nil, legend |-> <<>>, confidence |-> Nil,
            form |-> "absent", values |-> <<>>]

mcAnswers ==
    { [mcBlank EXCEPT !.noul = {p}] : p \in {0, 1, 4} }
    \cup { [mcBlank EXCEPT !.choice = {"x"}],
           [mcBlank EXCEPT !.choice = {"y"}, !.confidence = {1}, !.form = "object",
                           !.values = [x |-> {1}, y |-> {3}]],
           [mcBlank EXCEPT !.choice = {"x"}, !.form = "object",
                           !.values = [x |-> {4}, y |-> {0}]],
           [mcBlank EXCEPT !.choice = {"x"}, !.form = "object",
                           !.values = [x |-> {}, y |-> {4}]] }
    \cup { [mcBlank EXCEPT !.score = {2}, !.legend = <<"low", "mid", "high">>],
           [mcBlank EXCEPT !.score = {6}, !.legend = <<"low", "mid", "high">>,
                           !.form = "array", !.values = <<{0}, {2}, {2}>>],
           [mcBlank EXCEPT !.score = {1}, !.legend = <<"low", "mid", "high">>,
                           !.form = "array", !.values = <<{3}, {1}, {0}>>] }
====
