------------------------------ MODULE Decoding ------------------------------
(***************************************************************************)
(* Decoding a JSON request (pkg/instinct/decode.go, DecodeRequest): a walk *)
(* over the tokens that refuses a repeated key, then a decoder that reads  *)
(* the same bytes again.                                                   *)
(*                                                                         *)
(* The document is chosen token by token as the walk asks for them.  A key *)
(* is a member of Keys, a scalar is "q", standing for a complete question; *)
(* the fields of a request other than questions are left out, and commas   *)
(* and colons with them.  The decoder, encoding/json, is external: it      *)
(* matches the name of a struct's field without regard to case, keeps the  *)
(* last value of a repeated map key, and adds to a map it already has.     *)
(***************************************************************************)
EXTENDS Integers, Sequences, FiniteSets

CONSTANTS
    Keys,       \* the strings a document uses as keys
    Field,      \* Field[k] is the field of a request that the name k matches
    MaxTokens   \* bound: length of a document

ASSUME KeysAssumption ==
    /\ Keys \cap {"{", "}", "[", "]", "q"} = {} /\ "questions" \in Keys
    /\ Field \in [Keys -> Keys] /\ Field["questions"] = "questions"
ASSUME MaxTokensAssumption == MaxTokens \in Nat

VARIABLES
    doc,       \* the tokens read so far
    stack,     \* the walk's open calls, innermost last: the keys seen in an
               \* object, or Array
    due,       \* a key has been read and its value has not
    verdict,   \* walking, walked, duplicate, malformed, refused or accepted
    decoded    \* the ids of the decoded request's questions

vars == <<doc, stack, due, verdict, decoded>>

Init ==
    /\ doc = <<>> /\ stack = <<>> /\ due = TRUE
    /\ verdict = "walking" /\ decoded = {}

---------------------------------------------------------------------------
Array == {"["}   \* walkArray, which has seen no keys

Top == stack[Len(stack)]
Below == SubSeq(stack, 1, Len(stack) - 1)

InObject == stack # <<>> /\ Top # Array

Read(token) ==
    /\ verdict = "walking" /\ Len(doc) < MaxTokens
    /\ doc' = Append(doc, token)
    /\ UNCHANGED decoded

\* A value has been walked: the document is over if nothing is open.
Walked(open) ==
    /\ stack' = open /\ due' = FALSE
    /\ verdict' = IF open = <<>> THEN "walked" ELSE "walking"

\* Where walkValue is called: for the document, after a key, and in an array.
ValueExpected == due \/ (stack # <<>> /\ Top = Array)

ReadScalar == ValueExpected /\ Read("q") /\ Walked(stack)

OpenObject ==
    /\ ValueExpected /\ Read("{")
    /\ stack' = Append(stack, {}) /\ due' = FALSE /\ UNCHANGED verdict

OpenArray ==
    /\ ValueExpected /\ Read("[")
    /\ stack' = Append(stack, Array) /\ due' = FALSE /\ UNCHANGED verdict

\* The return of walkObject, and of walkArray.
CloseObject == InObject /\ ~due /\ Read("}") /\ Walked(Below)
CloseArray  == stack # <<>> /\ Top = Array /\ Read("]") /\ Walked(Below)

SeenOnce(k) == \E i \in DOMAIN stack : k \in stack[i]

SeenAtTop(k) == Len(stack) = 1 /\ k \in Top

\* A key is seen if this very object has had it.
Seen(k) == k \in Top

\* The next key of walkObject.
ReadKey(k) ==
    /\ InObject /\ ~due /\ Read(k)
    /\ IF Seen(k) THEN verdict' = "duplicate" /\ UNCHANGED <<stack, due>>
       ELSE /\ stack' = Append(Below, Top \cup {k})
            /\ due' = TRUE /\ UNCHANGED verdict

\* The decoder's Token refuses what is not JSON, and the end of the input.
Malformed ==
    /\ verdict = "walking"
    /\ verdict' = "malformed"
    /\ UNCHANGED <<doc, stack, due, decoded>>

---------------------------------------------------------------------------
\* The document by position, without the walk.
Opens(i) == Cardinality({k \in 1 .. i - 1 : doc[k] \in {"{", "["}})
Closes(i) == Cardinality({k \in 1 .. i - 1 : doc[k] \in {"}", "]"}})

\* How many objects and arrays the token at i is inside of.
Depth(i) == Opens(i) - Closes(i)

\* The keys, by position, of the object opened at position o.
KeysOf(o) ==
    {i \in o + 1 .. Len(doc) :
        /\ doc[i] \in Keys /\ Depth(i) = Depth(o) + 1
        /\ \A k \in o + 1 .. i : Depth(k) > Depth(o)}

Objects == {o \in DOMAIN doc : doc[o] = "{"}

\* Decode's errors: the document or its questions are no object, a field is
\* unknown, or a question is no question.
DecodeFails ==
    \/ doc[1] # "{"
    \/ \E i \in KeysOf(1) : \/ Field[doc[i]] # "questions"
                            \/ doc[i + 1] # "{"
                            \/ \E e \in KeysOf(i + 1) : doc[e + 1] # "q"

\* The questions a document writes, as <<field, id>> by position.
Written == UNION {{<<i, e>> : e \in KeysOf(i + 1)} : i \in KeysOf(1)}

\* Decode, the check of what follows the document, and the request's validation. What
\* follows is nothing, the start of a value, or a closing bracket, which Decoder.More
\* does not count as more.
Decode(trailing) ==
    /\ verdict = "walked"
    /\ IF DecodeFails \/ trailing = "value" \/ Written = {}
       THEN verdict' = "refused" /\ UNCHANGED decoded
       ELSE verdict' = "accepted" /\ decoded' = {doc[w[2]] : w \in Written}
    /\ UNCHANGED <<doc, stack, due>>

Next ==
    \/ ReadScalar \/ OpenObject \/ OpenArray \/ CloseObject \/ CloseArray
    \/ \E k \in Keys : ReadKey(k)
    \/ Malformed
    \/ \E trailing \in {"none", "value", "bracket"} : Decode(trailing)

Spec == Init /\ [][Next]_vars
---------------------------------------------------------------------------
Repeats == \E o \in Objects : \E i, k \in KeysOf(o) : i # k /\ doc[i] = doc[k]

\* A document is refused as ambiguous exactly when some object in it, at whatever
\* depth and in whatever array, has had a key twice (checkDuplicateKeys).
RefusesExactlyRepeats == verdict # "malformed" => (verdict = "duplicate" <=> Repeats)

\* A request has as many questions as its document writes, so that none is dropped
\* on the way (DecodeRequest's doc comment; README.md:141).
NoQuestionDropped == verdict = "accepted" => Cardinality(decoded) = Cardinality(Written)

\* The same of documents that spell the field's name as it is documented.
NoQuestionDroppedAsSpelled ==
    (\A i \in DOMAIN doc : doc[i] \in Keys => Field[doc[i]] = doc[i]) => NoQuestionDropped
=============================================================================
