--------------------------- MODULE InductionFacts ---------------------------
(***************************************************************************)
(* Induction in first-order form, and what it gives of numbers, iterated   *)
(* functions and the sums of Functions.                                    *)
(*                                                                         *)
(* The property of an induction is the set of numbers that have it: a set  *)
(* of naturals that is not empty has a least member, so one that holds 0   *)
(* and every successor of a member holds every natural.                    *)
(***************************************************************************)
EXTENDS Integers, Functions, FiniteSetTheorems, TLAPS

Below == {ss \in Nat \X Nat : ss[1] < ss[2]}

\* A set of naturals that is not empty has a least member.
LEMMA LeastNumber ==
    ASSUME NEW S, S \subseteq Nat, S # {}
    PROVE  \E m \in S : \A k \in S : m <= k
<1>1. IsWellFoundedOn(Below, Nat)
  BY NatLessThanWellFounded, Zenon DEF OpToRel, Below
<1>2. \A x, y \in Nat : x < y => <<x, y>> \in Below
  BY DEF Below
<1>3. PICK m \in S : \A k \in S : ~ (<<k, m>> \in Below)
  BY <1>1, WFMin
<1>4. ASSUME NEW k \in S PROVE m <= k
  <2>1. k \in Nat /\ m \in Nat /\ ~(k < m)
    BY <1>2, <1>3
  <2>. QED BY <2>1
<1>. QED BY <1>4

\* A set that holds 0 and the successor of each member holds every natural.
LEMMA EveryNumber ==
    ASSUME NEW S, 0 \in S, \A n \in Nat : n \in S => n + 1 \in S
    PROVE  \A n \in Nat : n \in S
<1>. SUFFICES ASSUME Nat \ S # {} PROVE FALSE
  OBVIOUS
<1>1. PICK m \in Nat \ S : \A k \in Nat \ S : m <= k
  <2>1. Nat \ S \subseteq Nat
    OBVIOUS
  <2>. QED BY <2>1, LeastNumber
<1>2. m # 0 /\ m - 1 \in Nat /\ (m - 1) + 1 = m /\ ~(m <= m - 1)
  BY <1>1
<1>3. m - 1 \in S
  BY <1>1, <1>2
<1>. QED BY <1>1, <1>2, <1>3

\* A set of numbers that is bounded above has a greatest member.
LEMMA GreatestNumber ==
    ASSUME NEW N \in Nat, NEW S, S \subseteq 0 .. N, S # {}
    PROVE  \E m \in S : \A k \in S : k <= m
<1>. DEFINE R == {N - k : k \in S}
<1>1. R \subseteq Nat /\ R # {}
  <2>1. \A k \in S : k \in Int /\ k <= N /\ N - k \in Nat
    OBVIOUS
  <2>. QED BY <2>1
<1>2. PICK r \in R : \A k \in R : r <= k
  BY <1>1, LeastNumber
<1>3. PICK m \in S : r = N - m
  BY <1>2
<1>4. ASSUME NEW k \in S PROVE k <= m
  <2>1. r <= N - k
    BY <1>2
  <2>. QED BY <2>1, <1>3
<1>. QED BY <1>4

\* f lists the first N iterates of F from c.
Iterates(f, c, F, N) == f[0] = c /\ \A i \in 1 .. N : f[i] = F[f[i - 1]]

\* The numbers up to one are finitely many.
LEMMA UptoIsFinite ==
    ASSUME NEW n \in Nat
    PROVE  IsFiniteSet(1 .. n) /\ Cardinality(1 .. n) = n
<1>1. 1 \in Int /\ n \in Int /\ IF 1 > n THEN n = 0 ELSE n - 1 + 1 = n
  OBVIOUS
<1>. QED BY <1>1, FS_Interval

\* A map of a set into itself can be iterated from any element.
LEMMA IteratesExist ==
    ASSUME NEW S, NEW c \in S, NEW F \in [S -> S], NEW N \in Nat
    PROVE  \E f \in [0 .. N -> S] : Iterates(f, c, F, N)
<1>. DEFINE R == {n \in Nat : \E f \in [0 .. n -> S] : Iterates(f, c, F, n)}
<1>1. 0 \in R
  <2>1. [i \in 0 .. 0 |-> c] \in [0 .. 0 -> S] /\ Iterates([i \in 0 .. 0 |-> c], c, F, 0)
    BY DEF Iterates
  <2>. QED BY <2>1
<1>2. ASSUME NEW n \in Nat, n \in R PROVE n + 1 \in R
  <2>1. PICK f \in [0 .. n -> S] : Iterates(f, c, F, n)
    BY <1>2
  <2>. DEFINE g == [i \in 0 .. n + 1 |-> IF i = n + 1 THEN F[f[n]] ELSE f[i]]
  <2>2. f[n] \in S /\ F[f[n]] \in S
    OBVIOUS
  <2>3. g \in [0 .. n + 1 -> S]
    BY <2>2
  <2>4. g[0] = c
    BY <2>1 DEF Iterates
  <2>5. ASSUME NEW i \in 1 .. n + 1 PROVE g[i] = F[g[i - 1]]
    <3>1. CASE i = n + 1
      <4>1. i - 1 = n /\ n \in 0 .. n + 1 /\ n # n + 1 /\ i \in 0 .. n + 1
        BY <3>1
      <4>2. g[n] = f[n] /\ g[i] = F[f[n]]
        BY <3>1, <4>1
      <4>. QED BY <4>1, <4>2
    <3>2. CASE i # n + 1
      <4>1. i \in 1 .. n /\ i - 1 \in 0 .. n + 1 /\ i - 1 # n + 1 /\ i \in 0 .. n + 1
        BY <3>2
      <4>2. g[i] = f[i] /\ g[i - 1] = f[i - 1]
        BY <3>2, <4>1
      <4>. QED BY <2>1, <4>1, <4>2 DEF Iterates
    <3>. QED BY <3>1, <3>2
  <2>6. Iterates(g, c, F, n + 1)
    BY <2>4, <2>5 DEF Iterates
  <2>. HIDE DEF g
  <2>. QED BY <2>3, <2>6
<1>3. N \in R
  <2>. HIDE DEF R
  <2>. QED BY <1>1, <1>2, EveryNumber
<1>. QED BY <1>3
---------------------------------------------------------------------------
Chosen(s) == CHOOSE x \in s : TRUE

\* g sums f over the subsets of D, taking the chosen element of each set first.
Sums(g, f, D) ==
    g = [s \in SUBSET D |-> IF s = {} THEN 0 ELSE f[Chosen(s)] + g[s \ {Chosen(s)}]]

\* What the recursive function inside SumFunctionOnSet is.
Summing(f, D) == CHOOSE g : Sums(g, f, D)

LEMMA SumIsSumming ==
    ASSUME NEW f, NEW D
    PROVE  SumFunctionOnSet(f, D) = Summing(f, D)[D]
BY DEF SumFunctionOnSet, FoldFunctionOnSet, MapThenFoldSet, Summing, Sums, Chosen

\* A member is chosen, and there is one less without it.
LEMMA ChosenLeaves ==
    ASSUME NEW D, IsFiniteSet(D), NEW s \in SUBSET D, s # {}
    PROVE  /\ Chosen(s) \in s /\ s \ {Chosen(s)} \in SUBSET D
           /\ IsFiniteSet(s) /\ IsFiniteSet(s \ {Chosen(s)})
           /\ Cardinality(s) \in Nat /\ Cardinality(s \ {Chosen(s)}) = Cardinality(s) - 1
<1>1. Chosen(s) \in s
  BY DEF Chosen
<1>2. IsFiniteSet(s)
  BY FS_Subset
<1>. QED BY <1>1, <1>2, FS_RemoveElement, FS_CardinalityType

\* Every finite set of numbers can be summed.
LEMMA SumsExist ==
    ASSUME NEW D, IsFiniteSet(D), NEW f, \A x \in D : f[x] \in Int
    PROVE  \E g \in [SUBSET D -> Int] : Sums(g, f, D)
<1>. DEFINE Term(g, s) == IF s = {} THEN 0 ELSE f[Chosen(s)] + g[s \ {Chosen(s)}]
            Upto(n) == {g \in [SUBSET D -> Int] :
                          \A s \in SUBSET D : Cardinality(s) <= n => g[s] = Term(g, s)}
            R == {n \in Nat : Upto(n) # {}}
<1>1. 0 \in R
  <2>. DEFINE g == [s \in SUBSET D |-> 0]
  <2>1. ASSUME NEW s \in SUBSET D, Cardinality(s) <= 0 PROVE s = {}
    <3>1. IsFiniteSet(s)
      BY FS_Subset
    <3>. QED BY <2>1, <3>1, FS_EmptySet, FS_CardinalityType
  <2>2. g \in Upto(0)
    BY <2>1
  <2>. QED BY <2>2
<1>2. ASSUME NEW n \in Nat, n \in R PROVE n + 1 \in R
  <2>1. PICK g \in Upto(n) : TRUE
    BY <1>2
  <2>. DEFINE h == [s \in SUBSET D |-> Term(g, s)]
  <2>2. ASSUME NEW s \in SUBSET D PROVE Term(g, s) \in Int
    <3>1. CASE s = {}
      BY <3>1
    <3>2. CASE s # {}
      <4>1. f[Chosen(s)] \in Int /\ g[s \ {Chosen(s)}] \in Int
        BY <3>2, ChosenLeaves
      <4>. QED BY <3>2, <4>1
    <3>. QED BY <3>1, <3>2
  <2>3. h \in [SUBSET D -> Int]
    BY <2>2
  <2>4. ASSUME NEW s \in SUBSET D, Cardinality(s) <= n + 1 PROVE h[s] = Term(h, s)
    <3>1. CASE s = {}
      BY <3>1
    <3>2. CASE s # {}
      <4>. DEFINE t == s \ {Chosen(s)}
      <4>1. t \in SUBSET D /\ Cardinality(t) <= n
        <5>1. /\ t \in SUBSET D /\ Cardinality(s) \in Nat
              /\ Cardinality(t) = Cardinality(s) - 1
          BY <3>2, ChosenLeaves
        <5>. HIDE DEF t
        <5>. QED BY <5>1, <2>4
      <4>2. g[t] = Term(g, t) /\ h[t] = Term(g, t)
        BY <2>1, <4>1
      <4>3. h[s] = f[Chosen(s)] + g[t]
        BY <3>2
      <4>. QED BY <3>2, <4>2, <4>3
    <3>. QED BY <3>1, <3>2
  <2>5. h \in Upto(n + 1)
    BY <2>3, <2>4
  <2>6. Upto(n + 1) # {} /\ n + 1 \in Nat
    <3>. HIDE DEF Upto, h
    <3>. QED BY <2>5
  <2>. HIDE DEF Upto
  <2>. QED BY <2>6
<1>3. \A n \in Nat : n \in R
  <2>. HIDE DEF R
  <2>. QED BY <1>1, <1>2, EveryNumber
<1>4. Cardinality(D) \in Nat
  BY FS_CardinalityType
<1>5. PICK g \in Upto(Cardinality(D)) : TRUE
  BY <1>3, <1>4
<1>6. ASSUME NEW s \in SUBSET D PROVE g[s] = Term(g, s)
  <2>1. Cardinality(s) <= Cardinality(D)
    BY FS_Subset
  <2>. QED BY <1>5, <2>1
<1>7. Sums(g, f, D)
  BY <1>5, <1>6 DEF Sums
<1>. QED BY <1>5, <1>7

\* The sum of a set does not depend on the set it is a part of.
LEMMA SumsAgree ==
    ASSUME NEW D, IsFiniteSet(D), NEW E \in SUBSET D, NEW f, NEW g, NEW h,
           Sums(g, f, D), Sums(h, f, E)
    PROVE  g[E] = h[E]
<1>. DEFINE R == {n \in Nat : \A s \in SUBSET E : Cardinality(s) <= n => g[s] = h[s]}
<1>1. \A s \in SUBSET D : g[s] = IF s = {} THEN 0 ELSE f[Chosen(s)] + g[s \ {Chosen(s)}]
  BY DEF Sums
<1>2. \A s \in SUBSET E : h[s] = IF s = {} THEN 0 ELSE f[Chosen(s)] + h[s \ {Chosen(s)}]
  BY DEF Sums
<1>3. IsFiniteSet(E) /\ SUBSET E \subseteq SUBSET D
  BY FS_Subset
<1>4. ASSUME NEW s \in SUBSET E, Cardinality(s) <= 0 PROVE g[s] = h[s]
  <2>1. IsFiniteSet(s) /\ s \in SUBSET D
    BY <1>3, FS_Subset
  <2>2. s = {}
    BY <1>4, <2>1, FS_EmptySet, FS_CardinalityType
  <2>. QED BY <1>1, <1>2, <2>1, <2>2
<1>5. ASSUME NEW n \in Nat, n \in R, NEW s \in SUBSET E, Cardinality(s) <= n + 1
      PROVE  g[s] = h[s]
  <2>1. CASE s = {}
    BY <1>1, <1>2, <1>3, <2>1
  <2>2. CASE s # {}
    <3>. DEFINE t == s \ {Chosen(s)}
    <3>1. t \in SUBSET E /\ Cardinality(t) <= n /\ s \in SUBSET D
      <4>1. /\ t \in SUBSET E /\ Cardinality(s) \in Nat
            /\ Cardinality(t) = Cardinality(s) - 1
        BY <1>3, <2>2, ChosenLeaves
      <4>. HIDE DEF t
      <4>. QED BY <4>1, <1>3, <1>5
    <3>2. g[t] = h[t]
      BY <1>5, <3>1
    <3>3. g[s] = f[Chosen(s)] + g[t] /\ h[s] = f[Chosen(s)] + h[t]
      BY <1>1, <1>2, <2>2, <3>1
    <3>. QED BY <3>2, <3>3
  <2>. QED BY <2>1, <2>2
<1>6. \A n \in Nat : n \in R
  <2>1. 0 \in R
    BY <1>4
  <2>2. \A n \in Nat : n \in R => n + 1 \in R
    BY <1>5
  <2>. HIDE DEF R
  <2>. QED BY <2>1, <2>2, EveryNumber
<1>7. Cardinality(E) \in Nat /\ Cardinality(E) <= Cardinality(E)
  BY <1>3, FS_CardinalityType
<1>. QED BY <1>6, <1>7
LEMMA SummingSums ==
    ASSUME NEW D, IsFiniteSet(D), NEW f, \A x \in D : f[x] \in Int
    PROVE  Sums(Summing(f, D), f, D) /\ Summing(f, D) \in [SUBSET D -> Int]
<1>1. PICK g \in [SUBSET D -> Int] : Sums(g, f, D)
  BY SumsExist
<1>. DEFINE h == Summing(f, D)
<1>2. Sums(h, f, D)
  BY <1>1 DEF Summing
<1>. HIDE DEF h
<1>3. ASSUME NEW s \in SUBSET D PROVE h[s] \in Int
  <2>1. IsFiniteSet(s) /\ \A x \in s : f[x] \in Int
    BY FS_Subset
  <2>2. PICK k \in [SUBSET s -> Int] : Sums(k, f, s)
    BY <2>1, SumsExist
  <2>3. h[s] = k[s]
    BY <1>2, <2>2, SumsAgree
  <2>. QED BY <2>2, <2>3
<1>4. h = [s \in SUBSET D |-> h[s]]
  BY <1>2 DEF Sums
<1>5. h \in [SUBSET D -> Int]
  BY <1>3, <1>4
<1>. QED BY <1>2, <1>5 DEF h

\* Every part of a finite set of numbers has a sum, and it is a number.
LEMMA SumOfPart ==
    ASSUME NEW D, IsFiniteSet(D), NEW f, \A x \in D : f[x] \in Int, NEW E \in SUBSET D
    PROVE  SumFunctionOnSet(f, E) = Summing(f, D)[E] /\ SumFunctionOnSet(f, E) \in Int
<1>1. IsFiniteSet(E) /\ \A x \in E : f[x] \in Int
  BY FS_Subset
<1>2. Sums(Summing(f, E), f, E) /\ Sums(Summing(f, D), f, D)
      /\ Summing(f, D) \in [SUBSET D -> Int]
  BY <1>1, SummingSums
<1>3. Summing(f, D)[E] = Summing(f, E)[E]
  BY <1>2, SumsAgree
<1>. QED BY <1>2, <1>3, SumIsSumming

\* The sum of nothing is 0.
LEMMA SumOfNone == ASSUME NEW f PROVE SumFunctionOnSet(f, {}) = 0
<1>1. IsFiniteSet({}) /\ \A x \in {} : f[x] \in Int
  BY FS_EmptySet
<1>2. Sums(Summing(f, {}), f, {})
  BY <1>1, SummingSums
<1>3. Summing(f, {})[{}] = 0
  BY <1>2 DEF Sums
<1>. QED BY <1>3, SumIsSumming

\* A sum may be taken in any order: one member, and the rest.
LEMMA SumTakesOut ==
    ASSUME NEW D, IsFiniteSet(D), NEW f, \A x \in D : f[x] \in Int, NEW y \in D
    PROVE  SumFunctionOnSet(f, D) = f[y] + SumFunctionOnSet(f, D \ {y})
<1>. DEFINE G == Summing(f, D)
            R == {n \in Nat : \A s \in SUBSET D :
                    Cardinality(s) <= n => \A x \in s : G[s] = f[x] + G[s \ {x}]}
<1>1. Sums(G, f, D) /\ G \in [SUBSET D -> Int]
  BY SummingSums
<1>2. ASSUME NEW s \in SUBSET D, s # {} PROVE G[s] = f[Chosen(s)] + G[s \ {Chosen(s)}]
  BY <1>1, <1>2 DEF Sums
<1>3. \A s \in SUBSET D : IsFiniteSet(s) /\ Cardinality(s) \in Nat
  BY FS_Subset, FS_CardinalityType
<1>. HIDE DEF G
<1>4. 0 \in R
  <2>1. ASSUME NEW s \in SUBSET D, Cardinality(s) <= 0 PROVE s = {}
    BY <1>3, <2>1, FS_EmptySet
  <2>. QED BY <2>1
<1>5. ASSUME NEW n \in Nat, n \in R, NEW s \in SUBSET D, Cardinality(s) <= n + 1, NEW x \in s
      PROVE  G[s] = f[x] + G[s \ {x}]
  <2>. DEFINE c == Chosen(s)
              t == s \ {c}
              u == s \ {x}
              v == t \ {x}
  <2>1. c \in s /\ G[s] = f[c] + G[t]
    BY <1>2 DEF Chosen
  <2>2. CASE x = c
    BY <2>1, <2>2
  <2>3. CASE x # c
    <3>1. x \in t /\ c \in u /\ t \in SUBSET D /\ u \in SUBSET D /\ v = u \ {c} /\ v \in SUBSET D
      BY <2>1, <2>3
    <3>2. Cardinality(t) <= n /\ Cardinality(u) <= n
      <4>1. /\ Cardinality(t) = Cardinality(s) - 1 /\ Cardinality(u) = Cardinality(s) - 1
            /\ Cardinality(s) \in Nat
        BY <1>3, <2>1, FS_RemoveElement
      <4>. HIDE DEF t, u
      <4>. QED BY <4>1, <1>5
    <3>3. G[t] = f[x] + G[v] /\ G[u] = f[c] + G[v]
      BY <1>5, <3>1, <3>2
    <3>4. f[x] \in Int /\ f[c] \in Int /\ G[v] \in Int
      BY <1>1, <2>1, <3>1
    <3>. HIDE DEF c, t, u, v
    <3>5. G[s] = f[x] + G[u]
      BY <2>1, <3>3, <3>4
    <3>. QED BY <3>5 DEF u
  <2>. QED BY <2>2, <2>3
<1>6. \A n \in Nat : n \in R
  <2>1. \A n \in Nat : n \in R => n + 1 \in R
    BY <1>5, SMTT(60)
  <2>. HIDE DEF R
  <2>. QED BY <1>4, <2>1, EveryNumber
<1>7. Cardinality(D) \in Nat /\ Cardinality(D) <= Cardinality(D)
  BY <1>3
<1>8. G[D] = f[y] + G[D \ {y}]
  BY <1>6, <1>7
<1>9. SumFunctionOnSet(f, D) = G[D] /\ SumFunctionOnSet(f, D \ {y}) = G[D \ {y}]
  <2>1. D \in SUBSET D /\ D \ {y} \in SUBSET D
    OBVIOUS
  <2>. QED BY <2>1, SumOfPart DEF G
<1>. QED BY <1>8, <1>9
---------------------------------------------------------------------------
\* A family of sets that holds the empty one, and each that is a member with one
\* more element of D, holds every finite D.
LEMMA EverySubset ==
    ASSUME NEW D, IsFiniteSet(D), NEW R, {} \in R,
           \A s \in SUBSET D : \A x \in D \ s : s \in R => s \cup {x} \in R
    PROVE  D \in R
<1>. DEFINE S == {n \in Nat : \A s \in SUBSET D : Cardinality(s) <= n => s \in R}
<1>1. \A s \in SUBSET D : IsFiniteSet(s) /\ Cardinality(s) \in Nat
  BY FS_Subset, FS_CardinalityType
<1>2. 0 \in S
  <2>1. ASSUME NEW s \in SUBSET D, Cardinality(s) <= 0 PROVE s = {}
    BY <1>1, <2>1, FS_EmptySet
  <2>. QED BY <2>1
<1>3. ASSUME NEW n \in Nat, n \in S, NEW s \in SUBSET D, Cardinality(s) <= n + 1
      PROVE  s \in R
  <2>1. CASE s = {}
    BY <2>1
  <2>2. CASE s # {}
    <3>1. PICK x \in s : TRUE
      BY <2>2
    <3>. DEFINE t == s \ {x}
    <3>2. t \in SUBSET D /\ x \in D \ t /\ s = t \cup {x}
      BY <3>1
    <3>3. Cardinality(t) = Cardinality(s) - 1 /\ Cardinality(s) \in Nat
      BY <1>1, <3>1, FS_RemoveElement
    <3>. HIDE DEF t
    <3>4. Cardinality(t) <= n
      BY <1>3, <3>3
    <3>. QED BY <1>3, <3>2, <3>4
  <2>. QED BY <2>1, <2>2
<1>4. \A n \in Nat : n \in S
  <2>1. \A n \in Nat : n \in S => n + 1 \in S
    BY <1>3
  <2>. HIDE DEF S
  <2>. QED BY <1>2, <2>1, EveryNumber
<1>5. Cardinality(D) \in Nat /\ Cardinality(D) <= Cardinality(D)
  BY <1>1
<1>. QED BY <1>4, <1>5

\* A set of numbers has a sum.
LEMMA SumIsInt ==
    ASSUME NEW D, IsFiniteSet(D), NEW f, \A x \in D : f[x] \in Int
    PROVE  SumFunctionOnSet(f, D) \in Int
<1>1. D \in SUBSET D
  OBVIOUS
<1>. QED BY <1>1, SumOfPart

\* With one more element, a sum is greater by its value.
LEMMA SumAdds ==
    ASSUME NEW D, IsFiniteSet(D), NEW f, NEW y, y \notin D, \A x \in D \cup {y} : f[x] \in Int
    PROVE  SumFunctionOnSet(f, D \cup {y}) = f[y] + SumFunctionOnSet(f, D)
<1>1. IsFiniteSet(D \cup {y}) /\ (D \cup {y}) \ {y} = D
  BY FS_AddElement
<1>. QED BY <1>1, SumTakesOut

\* A sum is a matter of the values alone.
LEMMA SumCongruent ==
    ASSUME NEW D, IsFiniteSet(D), NEW f, NEW g, \A x \in D : f[x] \in Int /\ f[x] = g[x]
    PROVE  SumFunctionOnSet(f, D) = SumFunctionOnSet(g, D)
<1>. DEFINE R == {s \in SUBSET D : SumFunctionOnSet(f, s) = SumFunctionOnSet(g, s)}
<1>1. {} \in R
  BY SumOfNone
<1>2. ASSUME NEW s \in SUBSET D, NEW x \in D \ s, s \in R PROVE s \cup {x} \in R
  <2>1. IsFiniteSet(s) /\ (\A y \in s \cup {x} : f[y] \in Int /\ g[y] \in Int) /\ f[x] = g[x]
    BY FS_Subset
  <2>2. /\ SumFunctionOnSet(f, s \cup {x}) = f[x] + SumFunctionOnSet(f, s)
        /\ SumFunctionOnSet(g, s \cup {x}) = g[x] + SumFunctionOnSet(g, s)
    BY <2>1, SumAdds
  <2>3. SumFunctionOnSet(f, s) = SumFunctionOnSet(g, s)
    BY <1>2
  <2>4. SumFunctionOnSet(f, s \cup {x}) = SumFunctionOnSet(g, s \cup {x})
    BY <2>1, <2>2, <2>3
  <2>. QED BY <2>4
<1>. HIDE DEF R
<1>3. D \in R
  BY <1>1, <1>2, EverySubset
<1>. QED BY <1>3 DEF R

\* A sum of numbers that are each at most c times another is at most c times the
\* sum of the others.
LEMMA SumDominated ==
    ASSUME NEW D, IsFiniteSet(D), NEW f, NEW g, NEW c \in Int,
           \A x \in D : f[x] \in Int /\ g[x] \in Int /\ f[x] <= c * g[x]
    PROVE  SumFunctionOnSet(f, D) <= c * SumFunctionOnSet(g, D)
<1>. DEFINE R == {s \in SUBSET D : SumFunctionOnSet(f, s) <= c * SumFunctionOnSet(g, s)}
<1>1. {} \in R
  <2>1. 0 <= c * 0
    OBVIOUS
  <2>. QED BY <2>1, SumOfNone
<1>2. ASSUME NEW s \in SUBSET D, NEW x \in D \ s, s \in R PROVE s \cup {x} \in R
  <2>1. IsFiniteSet(s) /\ (\A y \in s \cup {x} : f[y] \in Int /\ g[y] \in Int)
        /\ f[x] <= c * g[x]
    BY FS_Subset
  <2>2. /\ SumFunctionOnSet(f, s \cup {x}) = f[x] + SumFunctionOnSet(f, s)
        /\ SumFunctionOnSet(g, s \cup {x}) = g[x] + SumFunctionOnSet(g, s)
    BY <2>1, SumAdds
  <2>3. /\ SumFunctionOnSet(f, s) \in Int /\ SumFunctionOnSet(g, s) \in Int
        /\ f[x] \in Int /\ g[x] \in Int
    BY <2>1, SumIsInt
  <2>4. SumFunctionOnSet(f, s) <= c * SumFunctionOnSet(g, s)
    BY <1>2
  <2>5. ASSUME NEW F \in Int, NEW G \in Int, NEW a \in Int, NEW b \in Int, F <= c * G, a <= c * b
        PROVE  a + F <= c * (b + G)
    BY <2>5
  <2>6. f[x] + SumFunctionOnSet(f, s) <= c * (g[x] + SumFunctionOnSet(g, s))
    BY <2>1, <2>3, <2>4, <2>5
  <2>. QED BY <2>2, <2>6
<1>. HIDE DEF R
<1>3. D \in R
  BY <1>1, <1>2, EverySubset
<1>. QED BY <1>3 DEF R

\* A sum of naturals is a natural.
LEMMA SumIsNat ==
    ASSUME NEW D, IsFiniteSet(D), NEW f, \A x \in D : f[x] \in Nat
    PROVE  SumFunctionOnSet(f, D) \in Nat
<1>. DEFINE R == {s \in SUBSET D : SumFunctionOnSet(f, s) \in Nat}
<1>1. {} \in R
  BY SumOfNone
<1>2. ASSUME NEW s \in SUBSET D, NEW x \in D \ s, s \in R PROVE s \cup {x} \in R
  <2>1. IsFiniteSet(s) /\ (\A y \in s \cup {x} : f[y] \in Int) /\ f[x] \in Nat
    BY FS_Subset
  <2>2. SumFunctionOnSet(f, s \cup {x}) = f[x] + SumFunctionOnSet(f, s)
    BY <2>1, SumAdds
  <2>. QED BY <1>2, <2>1, <2>2
<1>. HIDE DEF R
<1>3. D \in R
  BY <1>1, <1>2, EverySubset
<1>. QED BY <1>3 DEF R

\* Of a sum of naturals no member is more than the whole, nor are two of them.
LEMMA SumHoldsMembers ==
    ASSUME NEW D, IsFiniteSet(D), NEW f, \A x \in D : f[x] \in Nat, NEW y \in D
    PROVE  /\ f[y] <= SumFunctionOnSet(f, D)
           /\ \A z \in D \ {y} : f[y] + f[z] <= SumFunctionOnSet(f, D)
<1>1. IsFiniteSet(D \ {y}) /\ \A x \in D : f[x] \in Int
  BY FS_RemoveElement
<1>2. SumFunctionOnSet(f, D) = f[y] + SumFunctionOnSet(f, D \ {y})
  BY <1>1, SumTakesOut
<1>3. SumFunctionOnSet(f, D \ {y}) \in Nat
  BY <1>1, SumIsNat
<1>4. ASSUME NEW z \in D \ {y} PROVE f[y] + f[z] <= SumFunctionOnSet(f, D)
  <2>1. SumFunctionOnSet(f, D \ {y}) = f[z] + SumFunctionOnSet(f, (D \ {y}) \ {z})
    BY <1>1, SumTakesOut
  <2>2. IsFiniteSet((D \ {y}) \ {z})
    BY <1>1, FS_RemoveElement
  <2>3. SumFunctionOnSet(f, (D \ {y}) \ {z}) \in Nat
    BY <2>2, SumIsNat
  <2>. QED BY <1>2, <2>1, <2>3
<1>5. f[y] \in Nat
  OBVIOUS
<1>6. f[y] <= SumFunctionOnSet(f, D)
  BY ONLY <1>2, <1>3, <1>5
<1>. QED BY <1>4, <1>6, Zenon
\* A sum may be taken over names for its members, each naming one.
LEMMA SumRenamed ==
    ASSUME NEW D, IsFiniteSet(D), NEW k, \A x, y \in D : k[x] = k[y] => x = y,
           NEW f, NEW g, \A x \in D : g[x] \in Int /\ f[k[x]] = g[x],
           NEW names, names = {k[x] : x \in D}
    PROVE  IsFiniteSet(names) /\ SumFunctionOnSet(f, names) = SumFunctionOnSet(g, D)
<1>. DEFINE R == {s \in SUBSET D : /\ IsFiniteSet({k[x] : x \in s})
                                   /\ SumFunctionOnSet(f, {k[x] : x \in s}) = SumFunctionOnSet(g, s)}
<1>1. {} \in R
  <2>1. {k[x] : x \in {}} = {}
    OBVIOUS
  <2>. QED BY <2>1, SumOfNone, FS_EmptySet
<1>2. ASSUME NEW s \in SUBSET D, NEW y \in D \ s, s \in R PROVE s \cup {y} \in R
  <2>. DEFINE named == {k[x] : x \in s}
  <2>1. {k[x] : x \in s \cup {y}} = named \cup {k[y]}
    OBVIOUS
  <2>2. k[y] \notin named
    OBVIOUS
  <2>3. IsFiniteSet(named) /\ SumFunctionOnSet(f, named) = SumFunctionOnSet(g, s)
    BY <1>2
  <2>4. \A n \in named \cup {k[y]} : f[n] \in Int
    OBVIOUS
  <2>. HIDE DEF named
  <2>5. IsFiniteSet(named \cup {k[y]})
    BY <2>3, FS_AddElement
  <2>6. SumFunctionOnSet(f, named \cup {k[y]}) = f[k[y]] + SumFunctionOnSet(f, named)
    BY <2>2, <2>3, <2>4, SumAdds
  <2>7. SumFunctionOnSet(g, s \cup {y}) = g[y] + SumFunctionOnSet(g, s)
    <3>1. IsFiniteSet(s) /\ \A x \in s \cup {y} : g[x] \in Int
      BY FS_Subset
    <3>. QED BY <3>1, SumAdds
  <2>8. f[k[y]] = g[y]
    OBVIOUS
  <2>9. SumFunctionOnSet(f, named \cup {k[y]}) = SumFunctionOnSet(g, s \cup {y})
    BY <2>3, <2>6, <2>7, <2>8
  <2>10. s \cup {y} \in SUBSET D
    OBVIOUS
  <2>. QED BY <2>1, <2>5, <2>9, <2>10
<1>. HIDE DEF R
<1>3. D \in R
  BY <1>1, <1>2, EverySubset
<1>. QED BY <1>3 DEF R

\* A sum of naturals is 0 exactly when each of them is.
LEMMA SumIsZero ==
    ASSUME NEW D, IsFiniteSet(D), NEW f, \A x \in D : f[x] \in Nat
    PROVE  SumFunctionOnSet(f, D) = 0 <=> \A x \in D : f[x] = 0
<1>1. SumFunctionOnSet(f, D) \in Nat
  BY SumIsNat
<1>2. ASSUME SumFunctionOnSet(f, D) = 0, NEW x \in D PROVE f[x] = 0
  <2>1. f[x] <= SumFunctionOnSet(f, D)
    BY SumHoldsMembers
  <2>. QED BY <1>2, <2>1
<1>3. ASSUME \A x \in D : f[x] = 0 PROVE SumFunctionOnSet(f, D) = 0
  <2>1. \A x \in D : f[x] \in Int /\ f[x] <= 0 * f[x]
    BY <1>3
  <2>2. SumFunctionOnSet(f, D) <= 0 * SumFunctionOnSet(f, D)
    BY <2>1, SumDominated
  <2>. QED BY <1>1, <2>2
<1>. QED BY <1>2, <1>3

\* A sum of numbers that are each at most c is at most c for each of them.
LEMMA SumBounded ==
    ASSUME NEW D, IsFiniteSet(D), NEW f, NEW c \in Int,
           \A x \in D : f[x] \in Int /\ f[x] <= c
    PROVE  SumFunctionOnSet(f, D) <= c * Cardinality(D)
<1>. DEFINE R == {s \in SUBSET D : SumFunctionOnSet(f, s) <= c * Cardinality(s)}
<1>1. {} \in R
  <2>1. 0 <= c * 0
    OBVIOUS
  <2>. QED BY <2>1, SumOfNone, FS_EmptySet
<1>2. ASSUME NEW s \in SUBSET D, NEW x \in D \ s, s \in R PROVE s \cup {x} \in R
  <2>1. IsFiniteSet(s) /\ (\A y \in s \cup {x} : f[y] \in Int) /\ f[x] <= c
    BY FS_Subset
  <2>2. /\ SumFunctionOnSet(f, s \cup {x}) = f[x] + SumFunctionOnSet(f, s)
        /\ Cardinality(s \cup {x}) = Cardinality(s) + 1
    BY <2>1, SumAdds, FS_AddElement
  <2>3. SumFunctionOnSet(f, s) \in Int /\ Cardinality(s) \in Nat /\ f[x] \in Int
    BY <2>1, SumIsInt, FS_CardinalityType
  <2>4. SumFunctionOnSet(f, s) <= c * Cardinality(s)
    BY <1>2
  <2>5. ASSUME NEW F \in Int, NEW n \in Nat, NEW a \in Int, F <= c * n, a <= c
        PROVE  a + F <= c * (n + 1)
    BY <2>5
  <2>6. f[x] + SumFunctionOnSet(f, s) <= c * (Cardinality(s) + 1)
    BY <2>1, <2>3, <2>4, <2>5
  <2>. QED BY <2>2, <2>6
<1>. HIDE DEF R
<1>3. D \in R
  BY <1>1, <1>2, EverySubset
<1>. QED BY <1>3 DEF R

\* The elements of D whose key is one of K.
Keyed(D, k, K) == {i \in D : k[i] \in K}

\* The elements counted under each of some keys are those that have such a key,
\* once each.
LEMMA CountedByKey ==
    ASSUME NEW D, IsFiniteSet(D), NEW k, NEW K, IsFiniteSet(K), NEW f,
           \A x \in K : f[x] = Cardinality(Keyed(D, k, {x}))
    PROVE  SumFunctionOnSet(f, K) = Cardinality(Keyed(D, k, K))
<1>. DEFINE under(s) == Keyed(D, k, s)
            R == {s \in SUBSET K : SumFunctionOnSet(f, s) = Cardinality(under(s))}
<1>1. {} \in R
  <2>1. under({}) = {}
    BY DEF Keyed
  <2>. QED BY <2>1, SumOfNone, FS_EmptySet
<1>2. ASSUME NEW x \in K PROVE f[x] \in Int
  <2>. DEFINE B == under({x})
  <2>1. IsFiniteSet(B) /\ f[x] = Cardinality(B)
    BY FS_Subset DEF Keyed
  <2>. HIDE DEF B
  <2>. QED BY <2>1, FS_CardinalityType
<1>3. ASSUME NEW s \in SUBSET K, NEW x \in K \ s, s \in R PROVE s \cup {x} \in R
  <2>. DEFINE A == under(s)
              B == under({x})
  <2>1. IsFiniteSet(s) /\ \A y \in s \cup {x} : f[y] \in Int
    BY <1>2, FS_Subset
  <2>2. SumFunctionOnSet(f, s \cup {x}) = f[x] + SumFunctionOnSet(f, s)
    BY <2>1, SumAdds
  <2>3. under(s \cup {x}) = A \cup B /\ A \cap B = {}
    BY DEF Keyed
  <2>4. IsFiniteSet(A) /\ IsFiniteSet(B)
    BY FS_Subset DEF Keyed
  <2>5. f[x] = Cardinality(B) /\ SumFunctionOnSet(f, s) = Cardinality(A)
    BY <1>3
  <2>6. /\ Cardinality(A \cup B) = Cardinality(A) + Cardinality(B) - Cardinality(A \cap B)
        /\ Cardinality(A) \in Nat /\ Cardinality(B) \in Nat
    <3>. HIDE DEF A, B
    <3>. QED BY <2>4, FS_Union, FS_CardinalityType
  <2>7. SumFunctionOnSet(f, s \cup {x}) = Cardinality(under(s \cup {x}))
    <3>1. Cardinality(A \cap B) = 0
      BY <2>3, FS_EmptySet
    <3>2. Cardinality(under(s \cup {x})) = Cardinality(A \cup B)
      BY <2>3
    <3>3. Cardinality(A \cup B) = f[x] + SumFunctionOnSet(f, s)
      <4>. HIDE DEF A, B
      <4>. QED BY <2>5, <2>6, <3>1
    <3>. QED BY <2>2, <3>2, <3>3
  <2>. QED BY <2>7
<1>. HIDE DEF R
<1>4. K \in R
  BY <1>1, <1>3, EverySubset
<1>. QED BY <1>4 DEF R
=============================================================================
