------------------------------ MODULE Datasets ------------------------------
(***************************************************************************)
(* An evaluation dataset and its validation (internal/eval/dataset.go).    *)
(*                                                                         *)
(* A dataset is [schema, name, question, cases]: schema says that it       *)
(* declares the right one, question is the default question or Nil.  A     *)
(* case is [id, state, question, expected].  Expected is the label as it   *)
(* was written, [bool, name, index], all Nil when there is none.           *)
(*                                                                         *)
(* Dataset and engine share instinct.DefaultLimits, but not what they look *)
(* at: here a state need only be there, and the engine refuses one that is *)
(* too long.                                                               *)
(***************************************************************************)
EXTENDS Lowering

\* resolveQuestion: a case's own question, else the dataset's; Nil for neither.
ResolveQuestion(c, fallback) == IF c.question # Nil THEN c.question ELSE fallback

Spellings == [true |-> {"true", "yes"}, false |-> {"false", "no"}]

BoolLabel(b) == IF b THEN "true" ELSE "false"

AnyLabel(q, raw) == {[label |-> n, index |-> 0] : n \in raw.name}

\* normalizeExpected: the [label, index] a written label stands for, none when
\* the question cannot produce it. Levels are indexed from 0.
NormalizeExpected(q, raw) ==
    CASE Lower(q.type) = "noul" ->
           {[label |-> l, index |-> 0] : l \in {k \in DOMAIN Spellings :
              raw.name \cap Spellings[k] # {} \/ \E b \in raw.bool : BoolLabel(b) = k}}
      [] Lower(q.type) = "choice" ->
           {[label |-> n, index |-> 0] : n \in raw.name \cap NamesOf(q)}
      [] Lower(q.type) = "score" ->
           {[label |-> q.names[i], index |-> i - 1] : i \in {k \in DOMAIN q.names :
              q.names[k] \in raw.name \/ k - 1 \in raw.index}}

ValidCase(c, fallback) ==
    /\ c.id # "" /\ c.state # ""
    /\ ResolveQuestion(c, fallback) # Nil
    /\ \A q \in ResolveQuestion(c, fallback) :
         /\ c.id \notin BadIds /\ ValidQuestion(q)
         /\ NormalizeExpected(q, c.expected) # {}

\* Validate: a dataset that is not refused can be run case by case, each with a
\* question and a label the question can produce.
ValidDataset(d) ==
    /\ d.schema /\ d.name # "" /\ d.cases # <<>>
    /\ \A i, k \in DOMAIN d.cases : d.cases[i].id = d.cases[k].id => i = k
    /\ \A i \in DOMAIN d.cases : ValidCase(d.cases[i], d.question)
=============================================================================
