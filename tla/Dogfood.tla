------------------------------- MODULE Dogfood -------------------------------
(***************************************************************************)
(* The engine with its consumers: whoever reads the receipts back from     *)
(* where they were stored, and the policy of the dogfood example, which is *)
(* given the receipts of every call whether or not it failed               *)
(* (examples/dogfood/main.go, handle).                                     *)
(***************************************************************************)
EXTENDS Decision, StoredReceipts, Policy

\* Whatever Build makes, a reader accepts: on answers, on failures of either kind
\* and on questions left out (receipt.go, Build and Validate).
BuiltReceiptsValidate == \A r \in AllReceipts : ValidReceipt(r)

\* "A judgment that could not be made is not a judgment of no" (policy.go:83): a
\* call that was refused or failed, or that left out a judgment the policy needs,
\* always ends at a human.
UnknownGoesToAHuman ==
    \A c \in Calls :
      c.err # "" \/ ~(Consulted \subseteq DOMAIN c.judgments)
        => Apply(c.receipts) = "ESCALATE_TO_HUMAN"

\* The policy acts only on what a provider answered and the caller's own rule let
\* pass: it ignores an event on an answered no, and acts on one on an answered
\* yes under a category as decisive as the policy and the rule both ask.
ActsOnlyOnAnswers ==
    \A c \in Contacted :
      LET action == Apply(c.receipts)
      IN  /\ action # "ESCALATE_TO_HUMAN" =>
               /\ Consulted \subseteq DOMAIN c.judgments
               /\ Meets(RuleFor(c.req, Category).margin, c.judgments[Category].margin)
          /\ action = "IGNORE" /\ c.req.questions[Incident].type = "noul" =>
               c.judgments[Incident].bool = {FALSE}
          /\ action \in {"PAGE_ONCALL", "FILE_TICKET"} =>
               /\ c.judgments[Incident].bool = {TRUE}
               /\ c.judgments[Category].margin # Nil
               /\ \A m \in c.judgments[Category].margin : m >= ConfidentEnoughToAct
=============================================================================
