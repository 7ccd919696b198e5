--------------------------- MODULE DecodingProofs ---------------------------
(***************************************************************************)
(* What holds of the decoder in every reachable state, whatever the keys   *)
(* and however long the document: the walk refuses exactly the documents   *)
(* with a repeated key, and no question of a document that spells its      *)
(* fields as documented is lost.                                           *)
(***************************************************************************)
EXTENDS Decoding, FiniteSetTheorems, TLAPS

Tokens == Keys \cup {"{", "}", "[", "]", "q"}

Opening == {"{", "["}
Closing == {"}", "]"}

\* What the walk keeps of an open call.
Frames == {Array} \cup SUBSET Keys

\* The call at level i of the walk's stack began at o: since then the walk has
\* not been outside of it, and an object's call has seen the keys it has had.
Began(i, o) ==
    /\ Depth(o) = i - 1
    /\ \A k \in o + 1 .. Len(doc) + 1 : Depth(k) >= i
    /\ stack[i] # Array => doc[o] = "{" /\ stack[i] = {doc[e] : e \in KeysOf(o)}

\* The stack is the brackets the document has left open.
WalkInv ==
    /\ doc \in Seq(Tokens)
    /\ stack \in Seq(Frames)
    /\ Depth(Len(doc) + 1) = Len(stack)
    /\ verdict # "duplicate" => \A i \in DOMAIN stack : \E o \in DOMAIN doc : Began(i, o)
    /\ verdict = "duplicate" <=> Repeats

\* A document that has been walked does not end in a key, and one that has been
\* accepted was decoded as it is written.
EndInv ==
    /\ verdict \in {"walked", "accepted"} => doc # <<>> /\ doc[Len(doc)] \notin Keys
    /\ verdict = "accepted" => ~DecodeFails /\ decoded = {doc[w[2]] : w \in Written}
---------------------------------------------------------------------------
\* The positions before i of a document s whose tokens are in B.
Before(s, i, B) == {k \in 1 .. i - 1 : s[k] \in B}

LEMMA BeforeFinite ==
    ASSUME NEW s, NEW i \in Int, NEW B
    PROVE  IsFiniteSet(Before(s, i, B)) /\ Cardinality(Before(s, i, B)) \in Nat
<1>1. IsFiniteSet(1 .. i - 1) /\ Before(s, i, B) \subseteq 1 .. i - 1
  BY FS_Interval DEF Before
<1>. QED BY <1>1, FS_Subset, FS_CardinalityType

\* A document e of n + 1 tokens counts what one of n counts, and its last token once.
CountsOnce(d, e, t, B, n) ==
    /\ \A i \in 1 .. n + 1 : Before(e, i, B) = Before(d, i, B)
    /\ Cardinality(Before(e, n + 2, B)) =
         Cardinality(Before(d, n + 1, B)) + IF t \in B THEN 1 ELSE 0

LEMMA CountGrows ==
    ASSUME NEW d \in Seq(Tokens), NEW t, NEW B, NEW n, n = Len(d), NEW e, e = Append(d, t)
    PROVE  CountsOnce(d, e, t, B, n)
<1>1. n \in Nat /\ Len(e) = n + 1 /\ e[n + 1] = t /\ \A k \in 1 .. n : e[k] = d[k]
  OBVIOUS
<1>2. ASSUME NEW i \in 1 .. n + 1 PROVE Before(e, i, B) = Before(d, i, B)
  <2>1. \A k \in 1 .. i - 1 : k \in 1 .. n
    BY <1>1
  <2>. QED BY <1>1, <2>1 DEF Before
<1>3. Before(e, n + 2, B) = IF t \in B THEN Before(d, n + 1, B) \cup {n + 1}
                            ELSE Before(d, n + 1, B)
  <2>1. 1 .. (n + 2) - 1 = (1 .. (n + 1) - 1) \cup {n + 1} /\ (n + 1) - 1 = n
    BY <1>1
  <2>. QED BY <1>1, <2>1 DEF Before
<1>4. n + 1 \notin Before(d, n + 1, B)
  BY <1>1 DEF Before
<1>5. IsFiniteSet(Before(d, n + 1, B)) /\ Cardinality(Before(d, n + 1, B)) \in Nat
  BY <1>1, BeforeFinite
<1>6. \A S, x : IsFiniteSet(S) /\ x \notin S => Cardinality(S \cup {x}) = Cardinality(S) + 1
  BY FS_AddElement
<1>7. CASE t \in B
  BY <1>2, <1>3, <1>4, <1>5, <1>6, <1>7 DEF CountsOnce
<1>8. CASE t \notin B
  BY <1>2, <1>3, <1>5, <1>8 DEF CountsOnce
<1>. QED BY <1>7, <1>8

\* The walk's next token is inside of what the tokens before it are, and is itself a
\* step out or in.
LEMMA DepthGrows ==
    ASSUME doc \in Seq(Tokens), NEW t \in Tokens, doc' = Append(doc, t),
           NEW n, n = Len(doc)
    PROVE  /\ \A i \in 1 .. n + 1 : Depth(i) \in Int /\ Depth(i)' = Depth(i)
           /\ Depth(n + 2)' = Depth(n + 1) + (IF t \in Opening THEN 1
                                              ELSE IF t \in Closing THEN -1 ELSE 0)
<1>0. \A i : /\ Opens(i) = Cardinality(Before(doc, i, Opening))
             /\ Closes(i) = Cardinality(Before(doc, i, Closing))
             /\ Opens(i)' = Cardinality(Before(doc', i, Opening))
             /\ Closes(i)' = Cardinality(Before(doc', i, Closing))
  BY DEF Opens, Closes, Opening, Closing, Before
<1>1. ASSUME NEW B
      PROVE  /\ \A i \in 1 .. n + 1 : Before(doc', i, B) = Before(doc, i, B)
             /\ Cardinality(Before(doc', n + 2, B)) =
                  Cardinality(Before(doc, n + 1, B)) + IF t \in B THEN 1 ELSE 0
  <2>1. CountsOnce(doc, doc', t, B, n)
    BY CountGrows, Zenon
  <2>. QED BY <2>1 DEF CountsOnce
<1>2. \A B : \A i \in 1 .. n + 1 : Cardinality(Before(doc, i, B)) \in Nat
  <2>1. \A i \in 1 .. n + 1 : i \in Int
    OBVIOUS
  <2>. QED BY <2>1, BeforeFinite
<1>3. ~(t \in Opening /\ t \in Closing)
  BY DEF Opening, Closing
<1>4. n + 1 \in 1 .. n + 1
  OBVIOUS
<1>5. ASSUME NEW i \in 1 .. n + 1 PROVE Depth(i) \in Int /\ Depth(i)' = Depth(i)
  <2>1. /\ Opens(i)' = Opens(i) /\ Opens(i) \in Nat
        /\ Closes(i)' = Closes(i) /\ Closes(i) \in Nat
    BY <1>0, <1>1, <1>2
  <2>. QED BY <2>1 DEF Depth
<1>6. Depth(n + 2)' = Opens(n + 2)' - Closes(n + 2)'
  BY DEF Depth
<1>7. Depth(n + 1) = Opens(n + 1) - Closes(n + 1)
  BY DEF Depth
<1>8. Opens(n + 1) \in Nat /\ Closes(n + 1) \in Nat
  BY <1>0, <1>2, <1>4
<1>9. /\ Opens(n + 2)' = Opens(n + 1) + IF t \in Opening THEN 1 ELSE 0
      /\ Closes(n + 2)' = Closes(n + 1) + IF t \in Closing THEN 1 ELSE 0
  BY <1>0, <1>1
<1>. QED BY <1>3, <1>5, <1>6, <1>7, <1>8, <1>9

\* Position i is directly inside of what is opened at o.
Inside(i, o) == Depth(i) = Depth(o) + 1 /\ \A k \in o + 1 .. i : Depth(k) > Depth(o)

\* A new token is a key of the object it is directly inside of, if it is a key.
LEMMA KeysGrow ==
    ASSUME doc \in Seq(Tokens), NEW t \in Tokens, doc' = Append(doc, t),
           NEW n, n = Len(doc), NEW o \in 1 .. n
    PROVE  /\ t \in Keys /\ Inside(n + 1, o) => KeysOf(o)' = KeysOf(o) \cup {n + 1}
           /\ ~(t \in Keys /\ Inside(n + 1, o)) => KeysOf(o)' = KeysOf(o)
<1>1. n \in Nat /\ Len(doc') = n + 1 /\ doc'[n + 1] = t /\ \A k \in 1 .. n : doc'[k] = doc[k]
  OBVIOUS
<1>2. \A i \in 1 .. n + 1 : Depth(i)' = Depth(i)
  BY DepthGrows
<1>3. \A i \in o + 1 .. n + 1 : Inside(i, o)' <=> Inside(i, o)
  <2>. TAKE i \in o + 1 .. n + 1
  <2>1. i \in 1 .. n + 1 /\ o \in 1 .. n + 1 /\ \A k \in o + 1 .. i : k \in 1 .. n + 1
    BY <1>1
  <2>. QED BY <1>2, <2>1 DEF Inside
<1>4. KeysOf(o)' = {i \in o + 1 .. n + 1 : doc'[i] \in Keys /\ Inside(i, o)'}
  BY <1>1 DEF KeysOf, Inside
<1>5. KeysOf(o) = {i \in o + 1 .. n : doc[i] \in Keys /\ Inside(i, o)}
  BY DEF KeysOf, Inside
<1>6. o + 1 .. n + 1 = (o + 1 .. n) \cup {n + 1} /\ \A i \in o + 1 .. n : i \in 1 .. n
  BY <1>1
<1>7. \A i : i \in KeysOf(o)' <=> i \in KeysOf(o) \/ (i = n + 1 /\ t \in Keys /\ Inside(i, o))
  BY <1>1, <1>3, <1>4, <1>5, <1>6
<1>. QED BY <1>7

---------------------------------------------------------------------------
\* A token that is no key adds no keys to any object, and an object it opens has none.
LEMMA QuietKeys ==
    ASSUME doc \in Seq(Tokens), NEW t \in Tokens \ Keys, doc' = Append(doc, t),
           NEW n, n = Len(doc)
    PROVE  /\ \A o \in 1 .. n : KeysOf(o)' = KeysOf(o)
           /\ KeysOf(n + 1)' = {}
           /\ Repeats' <=> Repeats
<1>1. /\ n \in Nat /\ Len(doc') = n + 1 /\ doc'[n + 1] = t /\ \A k \in 1 .. n : doc'[k] = doc[k]
      /\ DOMAIN doc = 1 .. n /\ DOMAIN doc' = 1 .. n + 1
  OBVIOUS
<1>2. ASSUME NEW o \in 1 .. n PROVE KeysOf(o)' = KeysOf(o)
  BY KeysGrow
<1>3. KeysOf(n + 1)' = {}
  BY <1>1 DEF KeysOf
<1>4. \A o \in 1 .. n : KeysOf(o) \subseteq 1 .. n
  BY <1>1 DEF KeysOf
<1>5. Objects' \subseteq Objects \cup {n + 1} /\ Objects \subseteq Objects' /\ Objects \subseteq 1 .. n
  <2>1. /\ Objects = {o \in 1 .. n : doc[o] = "{"}
        /\ Objects' = {o \in 1 .. n + 1 : doc'[o] = "{"}
    BY <1>1 DEF Objects
  <2>2. 1 .. n + 1 = (1 .. n) \cup {n + 1}
    BY <1>1
  <2>. QED BY <1>1, <2>1, <2>2
<1>6. Repeats => Repeats'
  <2>1. SUFFICES ASSUME NEW o \in Objects, NEW i \in KeysOf(o), NEW k \in KeysOf(o),
                        i # k, doc[i] = doc[k]
                 PROVE  Repeats'
    BY DEF Repeats
  <2>2. o \in Objects' /\ KeysOf(o)' = KeysOf(o) /\ doc'[i] = doc[i] /\ doc'[k] = doc[k]
    BY <1>1, <1>2, <1>4, <1>5
  <2>. QED BY <2>1, <2>2 DEF Repeats
<1>7. Repeats' => Repeats
  <2>1. SUFFICES ASSUME NEW o \in Objects', NEW i \in KeysOf(o)', NEW k \in KeysOf(o)',
                        i # k, doc'[i] = doc'[k]
                 PROVE  Repeats
    BY DEF Repeats
  <2>2. o # n + 1
    BY <1>3
  <2>3. o \in Objects /\ KeysOf(o)' = KeysOf(o)
    BY <1>2, <1>5, <2>2
  <2>4. doc'[i] = doc[i] /\ doc'[k] = doc[k]
    BY <1>1, <1>4, <1>5, <2>3
  <2>. QED BY <2>1, <2>3, <2>4 DEF Repeats
<1>. QED BY <1>2, <1>3, <1>6, <1>7

\* A position of the longer document that is not its end is one of the shorter.
LEMMA EarlierPosition ==
    ASSUME NEW n \in Nat, NEW o \in 1 .. n, NEW j \in o + 1 .. n + 2, j # n + 2
    PROVE  j \in 1 .. n + 1 /\ j \in o + 1 .. n + 1
OBVIOUS

\* A call that is still open began where it began.
LEMMA StillBegan ==
    ASSUME doc \in Seq(Tokens), NEW t \in Tokens, doc' = Append(doc, t),
           NEW n, n = Len(doc), NEW o \in 1 .. n, NEW i \in Nat,
           Began(i, o), stack'[i] = stack[i], KeysOf(o)' = KeysOf(o), Depth(n + 2)' >= i
    PROVE  Began(i, o)'
<1>1. /\ n \in Nat /\ Len(doc') = n + 1 /\ \A k \in 1 .. n : doc'[k] = doc[k]
  OBVIOUS
<1>2. \A k \in 1 .. n + 1 : Depth(k)' = Depth(k)
  BY DepthGrows
<1>3. Depth(o)' = i - 1
  <2>1. o \in 1 .. n + 1
    BY <1>1
  <2>. QED BY <1>2, <2>1 DEF Began
<1>4. ASSUME NEW k \in o + 1 .. n + 2 PROVE Depth(k)' >= i
  <2>1. CASE k = n + 2
    BY <2>1
  <2>2. CASE k \in o + 1 .. n + 1
    <3>1. k \in 1 .. n + 1
      BY <1>1, <2>2
    <3>. QED BY <1>2, <2>2, <3>1 DEF Began
  <2>. QED BY <1>1, <2>1, <2>2
<1>5. \A e \in KeysOf(o) : doc'[e] = doc[e]
  BY <1>1 DEF KeysOf
<1>6. Len(doc') + 1 = n + 2
  BY <1>1
<1>7. doc'[o] = doc[o]
  BY <1>1
<1>8. {doc'[e] : e \in KeysOf(o)'} = {doc[e] : e \in KeysOf(o)}
  BY <1>5
<1>9. stack'[i] # Array => doc'[o] = "{" /\ stack'[i] = {doc'[e] : e \in KeysOf(o)'}
  BY <1>7, <1>8 DEF Began
<1>10. \A k \in o + 1 .. Len(doc') + 1 : Depth(k)' >= i
  BY <1>4, <1>6
<1>. QED BY <1>3, <1>9, <1>10 DEF Began, Array
---------------------------------------------------------------------------
LEMMA DepthAtStart == Depth(1) = 0
<1>1. Before(doc, 1, Opening) = {} /\ Before(doc, 1, Closing) = {}
  BY DEF Before
<1>2. Opens(1) = 0 /\ Closes(1) = 0
  <2>1. /\ Opens(1) = Cardinality(Before(doc, 1, Opening))
        /\ Closes(1) = Cardinality(Before(doc, 1, Closing))
    BY DEF Opens, Closes, Opening, Closing, Before
  <2>. QED BY <1>1, <2>1, FS_EmptySet
<1>. QED BY <1>2 DEF Depth

LEMMA WalkInit == Init => WalkInv
<1>. SUFFICES ASSUME Init PROVE WalkInv
  OBVIOUS
<1>1. doc = <<>> /\ stack = <<>> /\ Len(doc) = 0 /\ Len(stack) = 0 /\ verdict = "walking"
  BY DEF Init
<1>2. Depth(Len(doc) + 1) = Len(stack)
  BY <1>1, DepthAtStart
<1>3. DOMAIN stack = {} /\ DOMAIN doc = {}
  BY <1>1
<1>4. ~Repeats
  BY <1>3 DEF Repeats, Objects
<1>5. doc \in Seq(Tokens) /\ stack \in Seq(Frames)
  BY <1>1
<1>. QED BY <1>1, <1>2, <1>3, <1>4, <1>5 DEF WalkInv

Turn(t) == IF t \in Opening THEN 1 ELSE IF t \in Closing THEN -1 ELSE 0

\* The walk's stack follows a token that is no key: what is open after it was open
\* before, or is what it opens.
Follows(t) ==
    /\ stack' \in Seq(Frames)
    /\ Len(stack') = Len(stack) + Turn(t)
    /\ \A i \in DOMAIN stack' \cap DOMAIN stack : stack'[i] = stack[i]
    /\ t \in Opening => stack'[Len(stack) + 1] = IF t = "{" THEN {} ELSE Array

LEMMA QuietStep ==
    ASSUME WalkInv, verdict = "walking", NEW t \in Tokens \ Keys, Read(t),
           verdict' # "duplicate", Follows(t), NEW n, n = Len(doc)
    PROVE  WalkInv'
<1>. DEFINE D == Len(stack)
            E == Len(stack')
<1>1. /\ doc \in Seq(Tokens) /\ doc' = Append(doc, t) /\ n \in Nat /\ t \in Tokens
      /\ Depth(n + 1) = D /\ D \in Nat /\ verdict # "duplicate"
  BY DEF WalkInv, Read
<1>2. /\ doc' \in Seq(Tokens) /\ Len(doc') = n + 1 /\ doc'[n + 1] = t
      /\ DOMAIN doc = 1 .. n /\ DOMAIN doc' = 1 .. n + 1
  BY <1>1
<1>9. DOMAIN stack = 1 .. D /\ DOMAIN stack' = 1 .. E /\ E \in Nat /\ E = D + Turn(t)
  <2>1. stack \in Seq(Frames) /\ stack' \in Seq(Frames) /\ E = D + Turn(t)
    BY Zenon DEF WalkInv, Follows
  <2>. QED BY <2>1
<1>0. /\ t \notin Opening => E <= D
      /\ t \in Opening => E = D + 1
  BY <1>1, <1>9 DEF Turn
<1>. HIDE DEF D, E
<1>3. /\ \A k \in 1 .. n + 1 : Depth(k)' = Depth(k)
      /\ Depth(n + 2)' = Depth(n + 1) + Turn(t)
  BY <1>1, DepthGrows DEF Turn
<1>4. Depth(n + 2)' = E
  BY <1>0, <1>9, <1>1, <1>3
<1>5. ~Repeats'
  BY <1>1, QuietKeys DEF WalkInv
<1>6. ASSUME NEW i \in DOMAIN stack'
      PROVE  \E o \in DOMAIN doc' : Began(i, o)'
  <2>1. CASE i \in DOMAIN stack
    <3>1. PICK o \in 1 .. n : Began(i, o)
      BY <1>1, <1>2, <2>1 DEF WalkInv
    <3>2. KeysOf(o)' = KeysOf(o)
      BY <1>1, QuietKeys
    <3>3. i \in Nat /\ Depth(n + 2)' >= i /\ stack'[i] = stack[i]
      <4>1. stack'[i] = stack[i]
        BY <2>1 DEF Follows
      <4>. QED BY <1>4, <1>9, <2>1, <4>1
    <3>4. Began(i, o)'
      BY <1>1, <3>1, <3>2, <3>3, StillBegan
    <3>. QED BY <1>2, <3>1, <3>4
  <2>2. CASE i \notin DOMAIN stack
    <3>1. t \in Opening /\ i = D + 1 /\ E = D + 1
      BY <1>0, <1>9, <1>1, <2>2
    <3>2. Depth(n + 1)' = i - 1 /\ Depth(n + 2)' >= i
      <4>1. n + 1 \in 1 .. n + 1
        BY <1>1
      <4>. QED BY <1>0, <1>9, <1>1, <1>3, <1>4, <3>1, <4>1
    <3>3. stack'[i] # Array => t = "{" /\ stack'[i] = {}
      BY <3>1 DEF Follows, D
    <3>4. KeysOf(n + 1)' = {}
      BY <1>1, QuietKeys
    <3>5. \A k \in (n + 1) + 1 .. Len(doc') + 1 : Depth(k)' >= i
      <4>1. \A k \in (n + 1) + 1 .. Len(doc') + 1 : k = n + 2
        BY <1>1, <1>2
      <4>. QED BY <3>2, <4>1
    <3>6. stack'[i] # Array => doc'[n + 1] = "{" /\ stack'[i] = {doc'[e] : e \in KeysOf(n + 1)'}
      BY <1>2, <3>3, <3>4
    <3>7. Began(i, n + 1)'
      BY <3>2, <3>5, <3>6 DEF Began, Array
    <3>. QED BY <1>2, <3>7
  <2>. QED BY <2>1, <2>2
<1>7. Len(doc') + 1 = n + 2
  BY <1>1, <1>2
<1>8. Depth(Len(doc) + 1)' = Len(stack')
  BY <1>4, <1>7 DEF E
<1>. QED BY <1>2, <1>5, <1>6, <1>8 DEF WalkInv, Follows, Array

\* The stack without its last call, and with another in its place.
LEMMA Stacked ==
    ASSUME NEW s \in Seq(Frames), NEW x \in Frames
    PROVE  /\ Append(s, x) \in Seq(Frames) /\ Len(Append(s, x)) = Len(s) + 1
           /\ \A i \in 1 .. Len(s) : Append(s, x)[i] = s[i]
           /\ Append(s, x)[Len(s) + 1] = x
OBVIOUS

LEMMA Popped ==
    ASSUME stack \in Seq(Frames), stack # <<>>
    PROVE  /\ Len(stack) \in Nat \ {0} /\ DOMAIN stack = 1 .. Len(stack) /\ Top \in Frames
           /\ Below \in Seq(Frames) /\ Len(Below) = Len(stack) - 1
           /\ \A i \in 1 .. Len(stack) - 1 : Below[i] = stack[i]
<1>1. Len(stack) \in Nat \ {0} /\ DOMAIN stack = 1 .. Len(stack)
  OBVIOUS
<1>2. Top \in Frames
  BY <1>1 DEF Top
<1>3. /\ Below \in Seq(Frames) /\ Len(Below) = Len(stack) - 1
      /\ \A i \in 1 .. Len(stack) - 1 : Below[i] = stack[i]
  BY <1>1 DEF Below
<1>. QED BY <1>1, <1>2, <1>3

\* A key is added to the object that the walk is in, and to no other.
LEMMA KeyAdded ==
    ASSUME WalkInv, verdict # "duplicate", NEW k \in Keys, doc' = Append(doc, k),
           NEW n, n = Len(doc), NEW D, D = Len(stack), NEW o \in 1 .. n, Began(D, o)
    PROVE  /\ KeysOf(o)' = KeysOf(o) \cup {n + 1}
           /\ \A o2 \in 1 .. n \ {o} : KeysOf(o2)' = KeysOf(o2)
           /\ Objects' = Objects /\ Objects \subseteq 1 .. n
<1>1. /\ doc \in Seq(Tokens) /\ n \in Nat /\ k \in Tokens /\ Depth(n + 1) = D /\ D \in Nat
      /\ DOMAIN doc = 1 .. n /\ DOMAIN doc' = 1 .. n + 1 /\ Len(doc) + 1 = n + 1
      /\ doc'[n + 1] = k /\ \A i \in 1 .. n : doc'[i] = doc[i]
  <2>1. doc \in Seq(Tokens) /\ stack \in Seq(Frames) /\ Depth(n + 1) = D
    BY Zenon DEF WalkInv
  <2>2. k \in Tokens
    BY DEF Tokens
  <2>. QED BY <2>1, <2>2
<1>2. Depth(o) = D - 1 /\ \A i \in o + 1 .. n + 1 : Depth(i) >= D
  BY <1>1 DEF Began
<1>3. \A i \in 1 .. n + 1 : Depth(i) \in Int
  BY <1>1, DepthGrows
<1>4. Inside(n + 1, o)
  <2>1. \A i \in o + 1 .. n + 1 : i \in 1 .. n + 1
    BY <1>1
  <2>. QED BY <1>1, <1>2, <1>3, <2>1 DEF Inside
<1>5. ASSUME NEW o2 \in 1 .. n \ {o} PROVE ~Inside(n + 1, o2)
  <2>1. SUFFICES ASSUME Depth(n + 1) = Depth(o2) + 1,
                        \A i \in o2 + 1 .. n + 1 : Depth(i) > Depth(o2)
                 PROVE  FALSE
    BY DEF Inside
  <2>2. Depth(o2) = D - 1
    <3>1. o2 \in 1 .. n + 1
      BY <1>1
    <3>. QED BY <1>1, <1>3, <2>1, <3>1
  <2>3. CASE o2 < o
    <3>1. o \in o2 + 1 .. n + 1
      BY <1>1, <2>3
    <3>. QED BY <1>1, <1>2, <2>1, <2>2, <3>1
  <2>4. CASE o < o2
    <3>1. o2 \in o + 1 .. n + 1
      BY <1>1, <2>4
    <3>. QED BY <1>1, <1>2, <2>2, <3>1
  <2>. QED BY <1>1, <2>3, <2>4
<1>6. KeysOf(o)' = KeysOf(o) \cup {n + 1}
  BY <1>1, <1>4, KeysGrow
<1>7. ASSUME NEW o2 \in 1 .. n \ {o} PROVE KeysOf(o2)' = KeysOf(o2)
  BY <1>1, <1>5, KeysGrow
<1>8. Objects' = Objects /\ Objects \subseteq 1 .. n
  <2>1. k # "{"
    BY KeysAssumption
  <2>2. /\ Objects = {i \in 1 .. n : doc[i] = "{"}
        /\ Objects' = {i \in 1 .. n + 1 : doc'[i] = "{"}
    BY <1>1 DEF Objects
  <2>3. 1 .. n + 1 = (1 .. n) \cup {n + 1}
    BY <1>1
  <2>. QED BY <1>1, <2>1, <2>2, <2>3
<1>. QED BY <1>6, <1>7, <1>8

LEMMA KeyStep ==
    ASSUME WalkInv, NEW k \in Keys, ReadKey(k), NEW n, n = Len(doc), NEW D, D = Len(stack)
    PROVE  WalkInv'
<1>1. /\ verdict = "walking" /\ doc' = Append(doc, k) /\ stack # <<>> /\ Top # Array
      /\ doc \in Seq(Tokens) /\ stack \in Seq(Frames) /\ k \in Tokens
      /\ Depth(n + 1) = D /\ n \in Nat
  <2>1. /\ doc \in Seq(Tokens) /\ stack \in Seq(Frames) /\ Depth(n + 1) = D
        /\ verdict = "walking" /\ doc' = Append(doc, k) /\ stack # <<>> /\ Top # Array
    BY Zenon DEF ReadKey, Read, InObject, WalkInv
  <2>2. k \in Tokens
    BY DEF Tokens
  <2>. QED BY <2>1, <2>2
<1>2. D \in Nat \ {0} /\ DOMAIN stack = 1 .. D /\ Top \in Frames /\ Top = stack[D]
  BY <1>1, Popped DEF Top
<1>3. PICK o \in 1 .. n : Began(D, o)
  BY <1>1, <1>2 DEF WalkInv
<1>4. /\ doc' \in Seq(Tokens) /\ DOMAIN doc' = 1 .. n + 1 /\ Len(doc') = n + 1
      /\ DOMAIN doc = 1 .. n
      /\ doc'[n + 1] = k /\ \A i \in 1 .. n : doc'[i] = doc[i]
  BY <1>1
<1>5. /\ \A i \in 1 .. n + 1 : Depth(i)' = Depth(i)
      /\ Depth(n + 2)' = D
  <2>1. k \notin Opening /\ k \notin Closing
    BY KeysAssumption DEF Opening, Closing
  <2>. QED BY <1>1, <1>2, <2>1, DepthGrows
<1>6. doc[o] = "{" /\ Top = {doc[e] : e \in KeysOf(o)} /\ Depth(o) = D - 1
  BY <1>1, <1>2, <1>3 DEF Began
<1>7. /\ KeysOf(o)' = KeysOf(o) \cup {n + 1}
      /\ \A o2 \in 1 .. n \ {o} : KeysOf(o2)' = KeysOf(o2)
      /\ Objects' = Objects /\ Objects \subseteq 1 .. n
  BY <1>1, <1>3, KeyAdded
<1>8. \A i \in 1 .. n : KeysOf(i) \subseteq 1 .. n
  BY <1>1 DEF KeysOf
<1>9. ~Repeats
  BY <1>1 DEF WalkInv
<1>10. CASE Seen(k)
  <2>1. PICK e \in KeysOf(o) : k = doc[e]
    BY <1>6, <1>10 DEF Seen
  <2>2. o \in Objects' /\ e \in KeysOf(o)' /\ n + 1 \in KeysOf(o)' /\ e # n + 1
        /\ doc'[e] = doc'[n + 1]
    <3>1. o \in Objects
      BY <1>4, <1>6 DEF Objects
    <3>2. e \in 1 .. n
      BY <1>8
    <3>. QED BY <1>1, <1>4, <1>7, <2>1, <3>1, <3>2
  <2>3. Repeats'
    BY <2>2 DEF Repeats
  <2>4. verdict' = "duplicate" /\ stack' = stack
    BY <1>10 DEF ReadKey
  <2>5. Depth(Len(doc) + 1)' = Len(stack')
    <3>1. Len(doc') + 1 = n + 2
      BY <1>1, <1>4
    <3>. QED BY <1>5, <2>4, <3>1
  <2>. QED BY <1>1, <1>4, <2>3, <2>4, <2>5 DEF WalkInv, Frames, Array
<1>11. CASE ~Seen(k)
  <2>1. stack' = Append(Below, Top \cup {k}) /\ verdict' = verdict
    BY <1>11 DEF ReadKey
  <2>2. Top \cup {k} \in Frames
    BY <1>1, <1>2 DEF Frames
  <2>3. /\ stack' \in Seq(Frames) /\ Len(stack') = D /\ stack'[D] = Top \cup {k}
        /\ \A i \in 1 .. D - 1 : stack'[i] = stack[i]
    <3>1. /\ Below \in Seq(Frames) /\ Len(Below) = D - 1
          /\ \A i \in 1 .. D - 1 : Below[i] = stack[i]
      BY <1>1, Popped
    <3>2. /\ Append(Below, Top \cup {k}) \in Seq(Frames)
          /\ Len(Append(Below, Top \cup {k})) = Len(Below) + 1
          /\ \A i \in 1 .. Len(Below) : Append(Below, Top \cup {k})[i] = Below[i]
          /\ Append(Below, Top \cup {k})[Len(Below) + 1] = Top \cup {k}
      BY <2>2, <3>1, Stacked
    <3>3. (D - 1) + 1 = D
      BY <1>2
    <3>. QED BY <2>1, <3>1, <3>2, <3>3
  <2>4. ~Repeats'
    <3>1. SUFFICES ASSUME NEW o2 \in Objects', NEW i \in KeysOf(o2)', NEW j \in KeysOf(o2)',
                          i # j, doc'[i] = doc'[j]
                   PROVE  FALSE
      BY DEF Repeats
    <3>2. o2 \in Objects /\ o2 \in 1 .. n
      BY <1>7
    <3>3. CASE i \in KeysOf(o2) /\ j \in KeysOf(o2)
      <4>1. doc[i] = doc[j]
        BY <1>4, <1>8, <3>1, <3>2, <3>3
      <4>. QED BY <1>9, <3>1, <3>2, <3>3, <4>1 DEF Repeats
    <3>4. CASE ~(i \in KeysOf(o2) /\ j \in KeysOf(o2))
      <4>1. o2 = o
        BY <1>7, <3>2, <3>4
      <4>2. \A e \in KeysOf(o) : doc'[e] # k
        BY <1>4, <1>6, <1>8, <1>11 DEF Seen
      <4>3. (i = n + 1 /\ j \in KeysOf(o)) \/ (j = n + 1 /\ i \in KeysOf(o))
        BY <1>7, <3>1, <3>4, <4>1
      <4>. QED BY <1>4, <3>1, <4>2, <4>3
    <3>. QED BY <3>3, <3>4
  <2>5. ASSUME NEW i \in DOMAIN stack' PROVE \E o2 \in DOMAIN doc' : Began(i, o2)'
    <3>1. i \in 1 .. D
      BY <2>3
    <3>2. CASE i # D
      <4>1. PICK o2 \in 1 .. n : Began(i, o2)
        BY <1>1, <1>2, <1>4, <3>1 DEF WalkInv
      <4>2. o2 # o
        <5>1. Depth(o2) = i - 1
          BY <4>1 DEF Began
        <5>2. i - 1 # D - 1
          BY <1>2, <3>1, <3>2
        <5>. QED BY <1>6, <5>1, <5>2, Zenon
      <4>3. KeysOf(o2)' = KeysOf(o2) /\ stack'[i] = stack[i] /\ Depth(n + 2)' >= i /\ i \in Nat
        BY <1>2, <1>5, <1>7, <2>3, <3>1, <3>2, <4>2
      <4>4. Began(i, o2)'
        BY <1>1, <4>1, <4>3, StillBegan
      <4>. QED BY <1>4, <4>1, <4>4
    <3>3. CASE i = D
      <4>1. {doc'[e] : e \in KeysOf(o)'} = Top \cup {k}
        <5>1. \A e \in KeysOf(o) : doc'[e] = doc[e]
          BY <1>4, <1>8
        <5>2. {doc'[e] : e \in KeysOf(o)'} = {doc'[e] : e \in KeysOf(o)} \cup {doc'[n + 1]}
          BY <1>7
        <5>. QED BY <1>4, <1>6, <5>1, <5>2, ZenonT(60)
      <4>2. \A j \in o + 1 .. Len(doc') + 1 : Depth(j)' >= D
        <5>1. ASSUME NEW j \in o + 1 .. n + 2 PROVE Depth(j)' >= D
          <6>1. CASE j = n + 2
            BY <1>2, <1>5, <6>1
          <6>2. CASE j # n + 2
            <7>1. j \in 1 .. n + 1 /\ j \in o + 1 .. n + 1
              <8>1. n \in Nat
                BY <1>1
              <8>. QED BY <6>2, <8>1, EarlierPosition
            <7>2. j \in o + 1 .. Len(doc) + 1
              BY <7>1
            <7>3. Depth(j) >= D
              BY <1>3, <7>2 DEF Began
            <7>. QED BY <1>5, <7>1, <7>3
          <6>. QED BY <6>1, <6>2
        <5>2. Len(doc') + 1 = n + 2
          BY <1>1, <1>4
        <5>. QED BY <5>1, <5>2
      <4>3. Depth(o)' = D - 1
        <5>1. o \in 1 .. n + 1
          BY <1>1
        <5>. QED BY <1>5, <1>6, <5>1
      <4>4. doc'[o] = "{" /\ stack'[D] = {doc'[e] : e \in KeysOf(o)'}
        BY <1>4, <1>6, <2>3, <4>1
      <4>5. Began(D, o)'
        BY <4>2, <4>3, <4>4 DEF Began
      <4>6. o \in DOMAIN doc'
        BY <1>1, <1>4
      <4>. QED BY <3>3, <4>5, <4>6
    <3>. QED BY <3>2, <3>3
  <2>6. Depth(Len(doc) + 1)' = Len(stack')
    <3>1. Len(doc') + 1 = n + 2
      BY <1>1, <1>4
    <3>. QED BY <1>5, <2>3, <3>1
  <2>7. verdict' # "duplicate"
    BY <1>1, <2>1
  <2>. QED BY <1>4, <2>3, <2>4, <2>5, <2>6, <2>7 DEF WalkInv, Frames, Array
<1>. QED BY <1>10, <1>11

\* What the document says by position depends on the document alone.
LEMMA SameDocument ==
    ASSUME doc' = doc
    PROVE  /\ \A i : Depth(i)' = Depth(i) /\ KeysOf(i)' = KeysOf(i)
           /\ Repeats' <=> Repeats
           /\ DecodeFails' <=> DecodeFails
           /\ Written' = Written
<1>1. \A i : Depth(i)' = Depth(i)
  BY DEF Depth, Opens, Closes
<1>2. \A i : KeysOf(i)' = KeysOf(i)
  BY <1>1 DEF KeysOf
<1>3. Objects' = Objects
  BY DEF Objects
<1>4. Repeats' <=> Repeats
  BY <1>2, <1>3, ZenonT(60) DEF Repeats
<1>5. DecodeFails' <=> DecodeFails
  BY <1>2, Zenon DEF DecodeFails
<1>6. Written' = Written
  <2>1. \A i : {<<i, e>> : e \in KeysOf(i + 1)'} = {<<i, e>> : e \in KeysOf(i + 1)}
    BY <1>2
  <2>2. \A w : w \in Written' <=> \E i \in KeysOf(1)' : w \in {<<i, e>> : e \in KeysOf(i + 1)'}
    BY DEF Written
  <2>3. \A w : w \in Written <=> \E i \in KeysOf(1) : w \in {<<i, e>> : e \in KeysOf(i + 1)}
    BY DEF Written
  <2>4. \A w : w \in Written' <=> w \in Written
    BY <1>2, <2>1, <2>2, <2>3, Zenon
  <2>. QED BY <2>4, Zenon
<1>. QED BY <1>1, <1>2, <1>4, <1>5, <1>6

LEMMA WalkStep == WalkInv /\ [Next]_vars => WalkInv'
<1>. SUFFICES ASSUME WalkInv, [Next]_vars PROVE WalkInv'
  OBVIOUS
<1>. PICK n : n = Len(doc)
  OBVIOUS
<1>0. doc \in Seq(Tokens) /\ stack \in Seq(Frames)
  BY Zenon DEF WalkInv
<1>1. CASE UNCHANGED vars \/ Malformed \/ \E trailing \in {"none", "value", "bracket"} : Decode(trailing)
  <2>1. /\ doc' = doc /\ stack' = stack
        /\ verdict' = "duplicate" <=> verdict = "duplicate"
    BY <1>1 DEF vars, Malformed, Decode
  <2>2. \A i : Depth(i)' = Depth(i) /\ KeysOf(i)' = KeysOf(i)
    BY <2>1, SameDocument
  <2>4. Repeats' <=> Repeats
    BY <2>1, SameDocument
  <2>5. \A i, o : Began(i, o)' <=> Began(i, o)
    BY <2>1, <2>2 DEF Began, Array
  <2>6. Depth(Len(doc) + 1)' = Len(stack')
    <3>1. Depth(Len(doc') + 1) = Len(stack')
      BY <2>1 DEF WalkInv
    <3>. QED BY <2>2, <3>1
  <2>. QED BY <2>1, <2>4, <2>5, <2>6 DEF WalkInv, Frames, Array
<1>2. CASE ReadScalar
  <2>1. /\ Read("q") /\ stack' = stack /\ verdict = "walking" /\ verdict' # "duplicate"
    BY <1>2 DEF ReadScalar, Read, Walked
  <2>2. "q" \in Tokens \ Keys
    BY KeysAssumption DEF Tokens
  <2>3. Follows("q")
    <3>1. Turn("q") = 0 /\ "q" \notin Opening /\ Len(stack) \in Nat
      BY <1>0 DEF Turn, Opening, Closing
    <3>. QED BY <1>0, <2>1, <3>1 DEF Follows
  <2>. QED BY <2>1, <2>2, <2>3, QuietStep
<1>3. ASSUME NEW t \in Opening, NEW x, x = (IF t = "{" THEN {} ELSE Array),
             Read(t), stack' = Append(stack, x), verdict' = verdict
      PROVE  WalkInv'
  <2>1. verdict = "walking" /\ verdict' # "duplicate"
    BY <1>3 DEF Read
  <2>2. t \in Tokens \ Keys
    BY KeysAssumption DEF Tokens, Opening
  <2>3. x \in Frames
    BY <1>3 DEF Frames
  <2>4. Follows(t)
    <3>1. Turn(t) = 1
      BY DEF Turn
    <3>2. /\ stack' \in Seq(Frames) /\ Len(stack') = Len(stack) + 1 /\ DOMAIN stack = 1 .. Len(stack)
          /\ \A i \in 1 .. Len(stack) : stack'[i] = stack[i]
          /\ stack'[Len(stack) + 1] = x
      <4>1. DOMAIN stack = 1 .. Len(stack)
        BY <1>0
      <4>. QED BY <1>0, <1>3, <2>3, <4>1, Stacked, Zenon
    <3>. QED BY <1>3, <3>1, <3>2 DEF Follows
  <2>. QED BY <1>3, <2>1, <2>2, <2>4, QuietStep
<1>4. ASSUME NEW t \in Closing, Read(t), stack # <<>>, Walked(Below) PROVE WalkInv'
  <2>1. verdict = "walking" /\ verdict' # "duplicate" /\ stack' = Below
    BY <1>4 DEF Read, Walked
  <2>2. t \in Tokens \ Keys /\ t \notin Opening
    BY KeysAssumption DEF Tokens, Opening, Closing
  <2>3. Follows(t)
    <3>1. Turn(t) = -1
      BY <2>2 DEF Turn
    <3>2. /\ stack' \in Seq(Frames) /\ Len(stack') = Len(stack) - 1
          /\ \A i \in 1 .. Len(stack) - 1 : stack'[i] = stack[i]
      BY <1>0, <1>4, <2>1, Popped
    <3>3. DOMAIN stack' = 1 .. Len(stack) - 1 /\ Len(stack) - 1 = Len(stack) + -1
      BY <1>0, <3>2
    <3>. QED BY <2>2, <3>1, <3>2, <3>3 DEF Follows
  <2>. QED BY <1>4, <2>1, <2>2, <2>3, QuietStep
<1>5. CASE OpenObject
  BY <1>3, <1>5 DEF OpenObject, Opening
<1>6. CASE OpenArray
  BY <1>3, <1>6 DEF OpenArray, Opening
<1>7. CASE CloseObject
  BY <1>4, <1>7 DEF CloseObject, InObject, Closing
<1>8. CASE CloseArray
  BY <1>4, <1>8 DEF CloseArray, Closing
<1>9. CASE \E k \in Keys : ReadKey(k)
  BY <1>9, KeyStep
<1>. QED BY <1>1, <1>2, <1>5, <1>6, <1>7, <1>8, <1>9 DEF Next

LEMMA EndStep == WalkInv /\ EndInv /\ [Next]_vars => EndInv'
<1>. SUFFICES ASSUME WalkInv, EndInv, [Next]_vars PROVE EndInv'
  OBVIOUS
<1>1. CASE UNCHANGED vars \/ Malformed
  <2>1. CASE Malformed
    BY <2>1 DEF Malformed, EndInv
  <2>2. CASE UNCHANGED vars
    <3>1. doc' = doc /\ verdict' = verdict /\ decoded' = decoded
      BY <2>2 DEF vars
    <3>2. (DecodeFails' <=> DecodeFails) /\ Written' = Written
      BY <3>1, SameDocument
    <3>. QED BY <3>1, <3>2, Zenon DEF EndInv
  <2>. QED BY <1>1, <2>1, <2>2
<1>2. CASE \E trailing \in {"none", "value", "bracket"} : Decode(trailing)
  <2>1. /\ doc' = doc /\ verdict = "walked"
        /\ verdict' = "accepted" => ~DecodeFails /\ decoded' = {doc[w[2]] : w \in Written}
    BY <1>2 DEF Decode
  <2>2. (DecodeFails' <=> DecodeFails) /\ Written' = Written
    BY <2>1, SameDocument
  <2>. QED BY <2>1, <2>2 DEF EndInv
<1>3. ASSUME NEW t \in Tokens \ Keys, Read(t), verdict' # "accepted" PROVE EndInv'
  <2>1. doc' = Append(doc, t) /\ doc \in Seq(Tokens)
    BY <1>3, Zenon DEF Read, WalkInv
  <2>2. doc' # <<>> /\ doc'[Len(doc')] \notin Keys
    BY <2>1
  <2>. QED BY <1>3, <2>2 DEF EndInv
<1>4. {"{", "}", "[", "]", "q"} \subseteq Tokens \ Keys
  BY KeysAssumption DEF Tokens
<1>5. CASE ReadScalar
  BY <1>3, <1>4, <1>5 DEF ReadScalar, Read, Walked
<1>6. CASE OpenObject \/ OpenArray
  BY <1>3, <1>4, <1>6 DEF OpenObject, OpenArray, Read
<1>7. CASE CloseObject \/ CloseArray
  BY <1>3, <1>4, <1>7 DEF CloseObject, CloseArray, Read, Walked
<1>8. CASE \E k \in Keys : ReadKey(k)
  BY <1>8 DEF ReadKey, Read, EndInv
<1>. QED BY <1>1, <1>2, <1>5, <1>6, <1>7, <1>8 DEF Next

\* What the walk knows is what the document says, in every reachable state.
THEOREM WalkInvariance == Spec => [](WalkInv /\ EndInv)
<1>1. Init => WalkInv /\ EndInv
  BY WalkInit DEF Init, EndInv
<1>2. WalkInv /\ EndInv /\ [Next]_vars => (WalkInv /\ EndInv)'
  BY WalkStep, EndStep
<1>. QED BY <1>1, <1>2, PTL DEF Spec

---------------------------------------------------------------------------
\* Of every document, of whatever length and depth: the walk refuses it as ambiguous
\* if and only if some object in it has had a key twice.
THEOREM WalkRefusesRepeats == Spec => []RefusesExactlyRepeats
<1>1. WalkInv => RefusesExactlyRepeats
  BY DEF WalkInv, RefusesExactlyRepeats
<1>. QED BY <1>1, WalkInvariance, PTL

\* The questions of an accepted document whose fields are spelled as documented: they
\* are written in one object, which has no id twice.
LEMMA WrittenOnce ==
    ASSUME WalkInv, EndInv, verdict = "accepted",
           \A i \in DOMAIN doc : doc[i] \in Keys => Field[doc[i]] = doc[i]
    PROVE  /\ Written \subseteq (DOMAIN doc) \X (DOMAIN doc)
           /\ \A w, v \in Written : doc[w[2]] = doc[v[2]] => w = v
<1>. PICK n : n = Len(doc)
  OBVIOUS
<1>1. /\ doc \in Seq(Tokens) /\ n \in Nat /\ doc # <<>> /\ DOMAIN doc = 1 .. n
      /\ doc[n] \notin Keys /\ 1 \in 1 .. n
  <2>1. doc \in Seq(Tokens) /\ doc # <<>> /\ doc[n] \notin Keys
    BY Zenon DEF WalkInv, EndInv
  <2>. QED BY <2>1
<1>2. ~Repeats
  BY DEF WalkInv
<1>3. /\ doc[1] = "{"
      /\ \A i \in KeysOf(1) : Field[doc[i]] = "questions" /\ doc[i + 1] = "{"
  BY DEF EndInv, DecodeFails
<1>4. 1 \in Objects
  BY <1>1, <1>3 DEF Objects
<1>5. \A o, i : i \in KeysOf(o) => i \in o + 1 .. n /\ doc[i] \in Keys
  BY DEF KeysOf
<1>6. ASSUME NEW i \in KeysOf(1)
      PROVE  i \in 1 .. n /\ i + 1 \in 1 .. n /\ doc[i] = "questions"
  <2>1. i \in 1 + 1 .. n /\ doc[i] \in Keys
    BY <1>5
  <2>2. i # n
    BY <1>1, <2>1
  <2>3. i \in 1 .. n /\ i + 1 \in 1 .. n
    BY <1>1, <2>1, <2>2
  <2>4. doc[i] = "questions"
    BY <1>1, <1>3, <2>1, <2>3
  <2>. QED BY <2>3, <2>4
<1>7. \A i, k \in KeysOf(1) : i = k
  BY <1>2, <1>4, <1>6 DEF Repeats
<1>8. ASSUME NEW i \in KeysOf(1) PROVE i + 1 \in Objects /\ i \in 1 .. n /\ KeysOf(i + 1) \subseteq 1 .. n
  <2>1. i \in 1 .. n /\ i + 1 \in 1 .. n /\ doc[i + 1] = "{"
    BY <1>3, <1>6
  <2>2. KeysOf(i + 1) \subseteq 1 .. n
    <3>1. \A e \in KeysOf(i + 1) : e \in i + 1 + 1 .. n
      BY <1>5
    <3>2. i \in Nat /\ n \in Nat
      <4>1. n \in Nat /\ i \in 1 .. n
        BY <1>1, <2>1, Zenon
      <4>. QED BY ONLY <4>1
    <3>3. \A e \in i + 1 + 1 .. n : e \in 1 .. n
      BY ONLY <3>2
    <3>. QED BY <3>1, <3>3, Zenon
  <2>. QED BY <1>1, <2>1, <2>2 DEF Objects
<1>9. \A w \in Written : \E i \in KeysOf(1) : \E e \in KeysOf(i + 1) : w = <<i, e>>
  BY DEF Written
<1>10. ASSUME NEW w \in Written, NEW v \in Written, doc[w[2]] = doc[v[2]] PROVE w = v
  <2>1. PICK i \in KeysOf(1) : \E e \in KeysOf(i + 1) : w = <<i, e>>
    BY <1>9
  <2>2. PICK k \in KeysOf(1) : \E e \in KeysOf(k + 1) : v = <<k, e>>
    BY <1>9
  <2>3. i = k
    BY <1>7
  <2>4. PICK e \in KeysOf(i + 1) : w = <<i, e>>
    BY <2>1
  <2>5. PICK f \in KeysOf(i + 1) : v = <<i, f>>
    BY <2>2, <2>3
  <2>6. doc[e] = doc[f]
    BY <1>10, <2>4, <2>5
  <2>7. e = f
    BY <1>2, <1>8, <2>6 DEF Repeats
  <2>. QED BY <2>4, <2>5, <2>7
<1>11. Written \subseteq (DOMAIN doc) \X (DOMAIN doc)
  BY <1>1, <1>8, <1>9
<1>. QED BY <1>10, <1>11

\* An accepted document that spells its fields as documented loses none of the
\* questions it writes, however many there are.
THEOREM NoQuestionLost == Spec => []NoQuestionDroppedAsSpelled
<1>1. ASSUME WalkInv, EndInv, verdict = "accepted",
             \A i \in DOMAIN doc : doc[i] \in Keys => Field[doc[i]] = doc[i]
      PROVE  Cardinality(decoded) = Cardinality(Written)
  <2>. DEFINE f == [w \in Written |-> doc[w[2]]]
  <2>1. decoded = {doc[w[2]] : w \in Written}
    BY <1>1 DEF EndInv
  <2>2. f \in Surjection(Written, decoded)
    BY <2>1 DEF Surjection
  <2>3. f \in Injection(Written, decoded)
    <3>1. \A w, v \in Written : doc[w[2]] = doc[v[2]] => w = v
      BY <1>1, WrittenOnce
    <3>. QED BY <2>1, <3>1 DEF Injection, IsInjective
  <2>4. IsFiniteSet(Written)
    <3>1. doc \in Seq(Tokens)
      BY <1>1, Zenon DEF WalkInv
    <3>2. Len(doc) \in Nat /\ DOMAIN doc = 1 .. Len(doc)
      BY <3>1
    <3>3. IsFiniteSet(DOMAIN doc)
      BY <3>2, FS_Interval
    <3>4. IsFiniteSet((DOMAIN doc) \X (DOMAIN doc))
      BY <3>3, FS_Product
    <3>5. Written \subseteq (DOMAIN doc) \X (DOMAIN doc)
      BY <1>1, WrittenOnce
    <3>. QED BY <3>4, <3>5, FS_Subset
  <2>. HIDE DEF f
  <2>. QED BY <2>2, <2>3, <2>4, FS_Surjection
<1>2. WalkInv /\ EndInv => NoQuestionDroppedAsSpelled
  BY <1>1 DEF NoQuestionDroppedAsSpelled, NoQuestionDropped
<1>. QED BY <1>2, WalkInvariance, PTL
=============================================================================
