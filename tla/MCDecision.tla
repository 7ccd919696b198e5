---- MODULE MCDecision ----
(* Batches of a classify and a noul question, with and without rules, the
   requests validation refuses, the batch of the dogfood example, and the
   answers a provider may give. *)
EXTENDS Dogfood, TLC

mcClassify == [type |-> "classify", text |-> "ok", names |-> <<"a", "b">>,
               meaning |-> "", foreign |-> FALSE]
mcNoul     == [type |-> "noul", text |-> "ok", names |-> <<>>,
               meaning |-> "ok", foreign |-> FALSE]

mcRequest == [state |-> "ok", questions |-> (1 :> mcClassify @@ 2 :> mcNoul),
              escalation |-> <<>>, trace |-> "", retain |-> FALSE]

mcConfident(t) == [confidence |-> {t}, margin |-> Nil]
mcDecisive(t)  == [confidence |-> Nil, margin |-> {t}]

mcGood ==
    { mcRequest,
      [mcRequest EXCEPT !.escalation = (1 :> mcConfident(2)), !.retain = TRUE],
      [mcRequest EXCEPT !.escalation = (2 :> mcConfident(0))],
      [mcRequest EXCEPT !.escalation = (1 :> [confidence |-> {1}, margin |-> {2}]
                                        @@ 2 :> mcDecisive(3))],
      [mcRequest EXCEPT !.questions = (2 :> mcNoul), !.escalation = (2 :> mcDecisive(4))] }

\* Each is refused for a reason of its own.
mcBad ==
    { [mcRequest EXCEPT !.state = ""],
      [mcRequest EXCEPT !.trace = "bad"],
      [mcRequest EXCEPT !.questions = <<>>],
      [mcRequest EXCEPT !.questions = (9 :> mcNoul)],
      [mcRequest EXCEPT !.questions = (1 :> [mcClassify EXCEPT !.names = <<"a", "a">>])],
      [mcRequest EXCEPT !.questions = (1 :> [mcNoul EXCEPT !.foreign = TRUE])],
      [mcRequest EXCEPT !.escalation = (3 :> mcConfident(4))],
      [mcRequest EXCEPT !.escalation = (2 :> mcDecisive(5))] }

\* The event of the dogfood example: 1 is category, 2 is_incident, 3 severity.
mcDogfood ==
    [mcRequest EXCEPT
       !.questions = (1 :> [mcClassify EXCEPT !.type = "choice"] @@ 2 :> mcNoul
                      @@ 3 :> [mcClassify EXCEPT !.type = "score"]),
       !.escalation = (1 :> mcDecisive(1))]

mcSubmissions == mcGood \cup mcBad \cup {mcDogfood}

mcBlank == [decodable |-> TRUE, unknown |-> FALSE, noul |-> Nil, choice |-> Nil,
            score |-> Nil, legend |-> <<>>, confidence |-> Nil,
            form |-> "absent", values |-> <<>>]

mcChoices ==
    { [mcBlank EXCEPT !.choice = {"a"}],
      [mcBlank EXCEPT !.choice = {"a"}, !.confidence = {1}],
      [mcBlank EXCEPT !.choice = {"b"}, !.confidence = {3}, !.form = "object",
                      !.values = [a |-> {0}, b |-> {4}]],
      [mcBlank EXCEPT !.choice = {"b"}, !.confidence = {2}, !.form = "object",
                      !.values = [a |-> {2}, b |-> {2}]] }

mcNouls == { [mcBlank EXCEPT !.noul = {p}] : p \in {0, 2, 3} }

\* What the provider says of the event: no distribution, one that passes the rule but
\* is not decisive, and one that is.
mcCategories ==
    { [mcBlank EXCEPT !.choice = {"a"}],
      [mcBlank EXCEPT !.choice = {"a"}, !.form = "object", !.values = [a |-> {3}, b |-> {1}]],
      [mcBlank EXCEPT !.choice = {"b"}, !.form = "object", !.values = [a |-> {0}, b |-> {4}]] }

\* An incident worth a page, and one worth a ticket.
mcRated(s) == [mcBlank EXCEPT !.score = {s}, !.legend = <<"a", "b">>]

mcBodies ==
    { [wellFormed |-> TRUE, unknown |-> FALSE, answers |-> (1 :> c @@ 2 :> n)] :
        c \in mcChoices, n \in mcNouls }
    \cup { [wellFormed |-> TRUE, unknown |-> FALSE, answers |-> (2 :> n)] : n \in mcNouls }
    \cup { [wellFormed |-> TRUE, unknown |-> FALSE,
             answers |-> (1 :> c @@ 2 :> n @@ 3 :> mcRated(s))] :
             c \in mcCategories, n \in {x \in mcNouls : x.noul # {2}}, s \in {2, 4} }
====
