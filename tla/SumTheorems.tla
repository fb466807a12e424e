---------------------------- MODULE SumTheorems ----------------------------
(***************************************************************************)
(* Sums of integers over finite sets (SumFunctionOnSet of Functions), by   *)
(* which the statistics and the byte counters of the profiler are stated.  *)
(* What a sum adds up does not depend on the order, so one element can be  *)
(* taken out or put in.  The proofs take a smallest counterexample where   *)
(* one would use induction.                                                *)
(***************************************************************************)
EXTENDS Functions, FiniteSetTheorems, WellFoundedInduction, TLAPS

(* A set of naturals that is not empty has a least element.                *)
LEMMA LeastNatural ==
    ASSUME NEW S, S \subseteq Nat, S # {}
    PROVE  \E i \in S : \A j \in S : i <= j
<1> DEFINE R == OpToRel(<, Nat)
<1>1. \A i, j \in Nat : i < j => <<i, j>> \in R
  BY DEF OpToRel
<1>2. PICK i \in S : \A j \in S : ~(<<j, i>> \in R)
  <2> HIDE DEF R
  <2>1. IsWellFoundedOn(R, Nat)
    BY NatLessThanWellFounded DEF R
  <2> QED
    BY <2>1, WFMin
<1>3. \A j \in S : ~(j < i)
  <2> HIDE DEF R
  <2> QED
    BY <1>1, <1>2
<1> QED
  BY <1>3

(* Among finite sets there is one with the fewest elements.                *)
LEMMA SmallestSet ==
    ASSUME NEW T, T # {}, \A s \in T : IsFiniteSet(s)
    PROVE  \E s \in T : \A u \in T : Cardinality(s) <= Cardinality(u)
<1> DEFINE N == {Cardinality(s) : s \in T}
<1>1. N \subseteq Nat /\ N # {}
  BY FS_CardinalityType
<1>2. PICK n \in N : \A m \in N : n <= m
  <2> HIDE DEF N
  <2> QED
    BY <1>1, LeastNatural
<1> QED
  BY <1>2

-----------------------------------------------------------------------------
(* The function by which SumFunctionOnSet adds up.                         *)

Chosen(s) == CHOOSE x \in s : TRUE
Partial(g, f, D) ==
    g = [s \in D |-> IF s = {} THEN 0 ELSE f[Chosen(s)] + g[s \ {Chosen(s)}]]
Adds(g, f, S) == Partial(g, f, SUBSET S)

(* SumFunctionOnSet adds up along a function on all subsets.               *)
LEMMA SumByPartial ==
    ASSUME NEW f, NEW S
    PROVE  SumFunctionOnSet(f, S) = (CHOOSE g : Adds(g, f, S))[S]
BY DEF SumFunctionOnSet, FoldFunctionOnSet, MapThenFoldSet, Adds, Partial, Chosen

(* Of a set that is not empty an element is chosen.                        *)
LEMMA ChosenIn ==
    ASSUME NEW s, s # {}
    PROVE  Chosen(s) \in s
BY DEF Chosen

(* There is such a function.                                               *)
LEMMA PartialExists ==
    ASSUME NEW f, NEW S, IsFiniteSet(S)
    PROVE  \E g : Adds(g, f, S)
<1> DEFINE UpTo(n) == {s \in SUBSET S : Cardinality(s) <= n}
           Bad == {n \in Nat : ~\E g : Partial(g, f, UpTo(n))}
<1>1. ASSUME Bad # {}
      PROVE  FALSE
  <2>1. PICK n \in Bad : \A m \in Bad : n <= m
    <3>1. Bad \subseteq Nat
      OBVIOUS
    <3> HIDE DEF Bad
    <3> QED
      BY <1>1, <3>1, LeastNatural
  <2>2. n \in Nat /\ ~\E g : Partial(g, f, UpTo(n))
    BY <2>1
  <2>3. \A s \in SUBSET S : IsFiniteSet(s) /\ Cardinality(s) \in Nat
    BY FS_Subset, FS_CardinalityType
  <2>4. CASE n = 0
    <3>1. UpTo(n) = {{}}
      BY <2>3, <2>4, FS_EmptySet
    <3> DEFINE g == [s \in UpTo(n) |-> 0]
    <3>2. Partial(g, f, UpTo(n))
      BY <3>1 DEF Partial
    <3> QED
      BY <2>2, <3>2
  <2>5. CASE n # 0
    <3>1. n - 1 \in Nat /\ n - 1 \notin Bad
      <4> HIDE DEF Bad
      <4> QED
        BY <2>1, <2>2, <2>5
    <3>2. PICK g : Partial(g, f, UpTo(n - 1))
      BY <3>1
    <3> DEFINE h == [s \in UpTo(n) |-> IF s \in UpTo(n - 1) THEN g[s]
                                       ELSE f[Chosen(s)] + g[s \ {Chosen(s)}]]
    <3>3. ASSUME NEW s \in UpTo(n), s # {}
          PROVE  s \ {Chosen(s)} \in UpTo(n - 1) /\ s \ {Chosen(s)} \in UpTo(n)
      <4>1. Chosen(s) \in s
        BY <3>3, ChosenIn
      <4>2. Cardinality(s \ {Chosen(s)}) = Cardinality(s) - 1
        BY <2>3, <4>1, FS_RemoveElement
      <4> QED
        BY <2>2, <2>3, <4>2
    <3>4. {} \in UpTo(n - 1)
      BY <3>1, FS_EmptySet
    <3>5. \A s \in UpTo(n - 1) : s \in UpTo(n)
      BY <2>2, <2>3
    <3>6. \A s \in UpTo(n - 1) :
             g[s] = IF s = {} THEN 0 ELSE f[Chosen(s)] + g[s \ {Chosen(s)}]
      <4> HIDE DEF UpTo
      <4> QED
        BY <3>2 DEF Partial
    <3>7. ASSUME NEW s \in UpTo(n)
          PROVE  h[s] = IF s = {} THEN 0 ELSE f[Chosen(s)] + h[s \ {Chosen(s)}]
      <4> HIDE DEF UpTo
      <4> QED
        BY <3>3, <3>4, <3>6
    <3>8. Partial(h, f, UpTo(n))
      <4> HIDE DEF UpTo
      <4> QED
        BY <3>7 DEF Partial
    <3> QED
      BY <2>2, <3>8
  <2> QED
    BY <2>4, <2>5
<1>2. Cardinality(S) \in Nat
  BY FS_CardinalityType
<1>3. UpTo(Cardinality(S)) = SUBSET S
  BY FS_Subset
<1> QED
  BY <1>1, <1>2, <1>3 DEF Adds

(* Two of them agree on the sets both of them add up.                      *)
LEMMA PartialAgree ==
    ASSUME NEW f, NEW S, NEW T, NEW g, NEW h, NEW U,
           Adds(g, f, S), Adds(h, f, T),
           IsFiniteSet(U), U \subseteq S, U \subseteq T
    PROVE  g[U] = h[U]
<1> DEFINE Bad == {u \in SUBSET U : g[u] # h[u]}
<1>1. ASSUME Bad # {}
      PROVE  FALSE
  <2>1. \A u \in SUBSET U : IsFiniteSet(u) /\ Cardinality(u) \in Nat
    BY FS_Subset, FS_CardinalityType
  <2>2. PICK u \in Bad : \A v \in Bad : Cardinality(u) <= Cardinality(v)
    <3>1. \A u \in Bad : IsFiniteSet(u)
      BY <2>1
    <3> HIDE DEF Bad
    <3> QED
      BY <1>1, <3>1, SmallestSet
  <2>3. /\ g[u] = IF u = {} THEN 0 ELSE f[Chosen(u)] + g[u \ {Chosen(u)}]
        /\ h[u] = IF u = {} THEN 0 ELSE f[Chosen(u)] + h[u \ {Chosen(u)}]
    <3>1. u \in SUBSET S /\ u \in SUBSET T
      BY <2>2
    <3> QED
      BY <3>1 DEF Adds, Partial
  <2>4. u # {} /\ g[u] # h[u]
    BY <2>2, <2>3
  <2>5. Chosen(u) \in u
    BY <2>4, ChosenIn
  <2>6. Cardinality(u \ {Chosen(u)}) = Cardinality(u) - 1
    BY <2>1, <2>2, <2>5, FS_RemoveElement
  <2>7. u \ {Chosen(u)} \notin Bad
    BY <2>1, <2>2, <2>6
  <2>8. g[u \ {Chosen(u)}] = h[u \ {Chosen(u)}]
    BY <2>2, <2>5, <2>7
  <2> QED
    BY <2>3, <2>4, <2>8
<1> QED
  BY <1>1

-----------------------------------------------------------------------------
(* Nothing adds up to 0.                                                   *)
LEMMA SumEmpty ==
    ASSUME NEW f
    PROVE  SumFunctionOnSet(f, {}) = 0
<1> DEFINE g == CHOOSE g : Adds(g, f, {})
<1>1. Adds(g, f, {})
  BY PartialExists, FS_EmptySet
<1> HIDE DEF g
<1>2. g[{}] = 0
  BY <1>1 DEF Adds, Partial
<1> QED
  BY <1>2, SumByPartial DEF g

(* The element chosen is taken out.                                        *)
LEMMA SumChosen ==
    ASSUME NEW f, NEW S, IsFiniteSet(S), S # {}
    PROVE  SumFunctionOnSet(f, S) = f[Chosen(S)] + SumFunctionOnSet(f, S \ {Chosen(S)})
<1> DEFINE T == S \ {Chosen(S)}
           g == CHOOSE g : Adds(g, f, S)
           h == CHOOSE h : Adds(h, f, T)
<1>1. IsFiniteSet(T)
  BY FS_RemoveElement
<1>2. T \subseteq S /\ T = S \ {Chosen(S)}
  OBVIOUS
<1> HIDE DEF T
<1>3. Adds(g, f, S) /\ Adds(h, f, T)
  BY <1>1, PartialExists
<1>4. g[S] = SumFunctionOnSet(f, S) /\ h[T] = SumFunctionOnSet(f, T)
  BY SumByPartial
<1> HIDE DEF g, h
<1>5. g[T] = h[T]
  <2>1. T \subseteq T
    OBVIOUS
  <2> QED
    BY <1>1, <1>2, <1>3, <2>1, PartialAgree
<1>6. g[S] = f[Chosen(S)] + g[S \ {Chosen(S)}]
  BY <1>3 DEF Adds, Partial
<1> QED
  BY <1>2, <1>4, <1>5, <1>6

(* A sum only depends on what is added up.                                 *)
LEMMA SumAgree ==
    ASSUME NEW f, NEW e, NEW S, IsFiniteSet(S), \A x \in S : f[x] = e[x]
    PROVE  SumFunctionOnSet(f, S) = SumFunctionOnSet(e, S)
<1> DEFINE Bad == {u \in SUBSET S : SumFunctionOnSet(f, u) # SumFunctionOnSet(e, u)}
<1>1. ASSUME Bad # {}
      PROVE  FALSE
  <2>1. \A u \in SUBSET S : IsFiniteSet(u) /\ Cardinality(u) \in Nat
    BY FS_Subset, FS_CardinalityType
  <2>2. PICK u \in Bad : \A v \in Bad : Cardinality(u) <= Cardinality(v)
    <3>1. \A u \in Bad : IsFiniteSet(u)
      BY <2>1
    <3> HIDE DEF Bad
    <3> QED
      BY <1>1, <3>1, SmallestSet
  <2>3. u # {} /\ SumFunctionOnSet(f, u) # SumFunctionOnSet(e, u)
    BY <2>2, SumEmpty
  <2>4. Chosen(u) \in u
    BY <2>3, ChosenIn
  <2>5. Cardinality(u \ {Chosen(u)}) = Cardinality(u) - 1
    BY <2>1, <2>2, <2>4, FS_RemoveElement
  <2>6. u \ {Chosen(u)} \notin Bad
    BY <2>1, <2>2, <2>5
  <2>7. /\ SumFunctionOnSet(f, u \ {Chosen(u)}) = SumFunctionOnSet(e, u \ {Chosen(u)})
        /\ f[Chosen(u)] = e[Chosen(u)]
    BY <2>2, <2>4, <2>6
  <2>8. /\ SumFunctionOnSet(f, u) = f[Chosen(u)] + SumFunctionOnSet(f, u \ {Chosen(u)})
        /\ SumFunctionOnSet(e, u) = e[Chosen(u)] + SumFunctionOnSet(e, u \ {Chosen(u)})
    BY <2>1, <2>2, <2>3, SumChosen
  <2> QED
    BY <2>3, <2>7, <2>8
<1> QED
  BY <1>1

(* A sum of integers is an integer.                                        *)
LEMMA SumInt ==
    ASSUME NEW f, NEW S, IsFiniteSet(S), \A x \in S : f[x] \in Int
    PROVE  SumFunctionOnSet(f, S) \in Int
<1> DEFINE Bad == {u \in SUBSET S : SumFunctionOnSet(f, u) \notin Int}
<1>1. ASSUME Bad # {}
      PROVE  FALSE
  <2>1. \A u \in SUBSET S : IsFiniteSet(u) /\ Cardinality(u) \in Nat
    BY FS_Subset, FS_CardinalityType
  <2>2. PICK u \in Bad : \A v \in Bad : Cardinality(u) <= Cardinality(v)
    <3>1. \A u \in Bad : IsFiniteSet(u)
      BY <2>1
    <3> HIDE DEF Bad
    <3> QED
      BY <1>1, <3>1, SmallestSet
  <2>3. u # {} /\ SumFunctionOnSet(f, u) \notin Int
    BY <2>2, SumEmpty
  <2>4. Chosen(u) \in u
    BY <2>3, ChosenIn
  <2>5. Cardinality(u \ {Chosen(u)}) = Cardinality(u) - 1
    BY <2>1, <2>2, <2>4, FS_RemoveElement
  <2>6. u \ {Chosen(u)} \notin Bad
    BY <2>1, <2>2, <2>5
  <2>7. SumFunctionOnSet(f, u \ {Chosen(u)}) \in Int /\ f[Chosen(u)] \in Int
    BY <2>2, <2>4, <2>6
  <2>8. SumFunctionOnSet(f, u) = f[Chosen(u)] + SumFunctionOnSet(f, u \ {Chosen(u)})
    BY <2>1, <2>2, <2>3, SumChosen
  <2> QED
    BY <2>3, <2>7, <2>8
<1> QED
  BY <1>1

(* Any element can be taken out.                                           *)
LEMMA SumRemove ==
    ASSUME NEW f, NEW S, IsFiniteSet(S), \A x \in S : f[x] \in Int, NEW x \in S
    PROVE  SumFunctionOnSet(f, S) = f[x] + SumFunctionOnSet(f, S \ {x})
<1> DEFINE sum(u) == SumFunctionOnSet(f, u)
           Bad == {u \in SUBSET S : \E y \in u : sum(u) # f[y] + sum(u \ {y})}
<1>1. ASSUME Bad # {}
      PROVE  FALSE
  <2>1. \A u \in SUBSET S : IsFiniteSet(u) /\ Cardinality(u) \in Nat
    BY FS_Subset, FS_CardinalityType
  <2>2. \A u \in SUBSET S : sum(u) \in Int
    BY <2>1, SumInt
  <2>3. PICK u \in Bad : \A v \in Bad : Cardinality(u) <= Cardinality(v)
    <3>1. \A u \in Bad : IsFiniteSet(u)
      BY <2>1
    <3> HIDE DEF Bad
    <3> QED
      BY <1>1, <3>1, SmallestSet
  <2>4. PICK y \in u : sum(u) # f[y] + sum(u \ {y})
    BY <2>3
  <2> DEFINE c == Chosen(u)
  <2>5. c \in u
    BY <2>4, ChosenIn
  <2>6. sum(u) = f[c] + sum(u \ {c})
    BY <2>1, <2>3, <2>4, SumChosen
  <2> HIDE DEF c
  <2>7. c # y
    BY <2>4, <2>6
  <2>8. /\ Cardinality(u \ {c}) = Cardinality(u) - 1
        /\ Cardinality(u \ {y}) = Cardinality(u) - 1
    BY <2>1, <2>3, <2>5, FS_RemoveElement
  <2>9. u \ {c} \notin Bad /\ u \ {y} \notin Bad
    <3>1. Cardinality(u) \in Nat
      BY <2>1, <2>3
    <3> HIDE DEF Bad
    <3> QED
      BY <2>3, <2>8, <3>1
  <2>10. sum(u \ {c}) = f[y] + sum((u \ {c}) \ {y})
    BY <2>3, <2>7, <2>9
  <2>11. sum(u \ {y}) = f[c] + sum((u \ {y}) \ {c})
    BY <2>3, <2>5, <2>7, <2>9
  <2>12. (u \ {c}) \ {y} = (u \ {y}) \ {c}
    OBVIOUS
  <2>13. f[c] \in Int /\ f[y] \in Int /\ sum((u \ {y}) \ {c}) \in Int
    BY <2>2, <2>3, <2>5
  <2> DEFINE rest == sum((u \ {y}) \ {c})
  <2>14. sum(u) = f[c] + (f[y] + rest) /\ f[y] + sum(u \ {y}) = f[y] + (f[c] + rest)
    BY <2>6, <2>10, <2>11, <2>12
  <2>15. f[c] + (f[y] + rest) = f[y] + (f[c] + rest)
    <3>1. rest \in Int
      BY <2>13
    <3> HIDE DEF rest
    <3> QED
      BY <2>13, <3>1
  <2> QED
    BY <2>4, <2>14, <2>15
<1> QED
  BY <1>1

(* Another element adds its number.                                        *)
LEMMA SumAdd ==
    ASSUME NEW f, NEW S, IsFiniteSet(S), NEW x, x \notin S, \A y \in S \cup {x} : f[y] \in Int
    PROVE  SumFunctionOnSet(f, S \cup {x}) = f[x] + SumFunctionOnSet(f, S)
<1>1. IsFiniteSet(S \cup {x}) /\ x \in S \cup {x} /\ (S \cup {x}) \ {x} = S
  BY FS_AddElement
<1> QED
  BY <1>1, SumRemove

(* An element more, the others as before.                                  *)
LEMMA SumExtend ==
    ASSUME NEW f, NEW e, NEW S, IsFiniteSet(S), NEW x, x \notin S, e[x] \in Int,
           \A y \in S : f[y] \in Int /\ e[y] = f[y]
    PROVE  SumFunctionOnSet(e, S \cup {x}) = SumFunctionOnSet(f, S) + e[x]
<1>1. SumFunctionOnSet(e, S) = SumFunctionOnSet(f, S)
  BY SumAgree
<1>2. SumFunctionOnSet(e, S \cup {x}) = e[x] + SumFunctionOnSet(e, S)
  <2>1. \A y \in S \cup {x} : e[y] \in Int
    OBVIOUS
  <2> QED
    BY <2>1, SumAdd
<1>3. SumFunctionOnSet(f, S) \in Int
  BY SumInt
<1> QED
  BY <1>1, <1>2, <1>3

(* An element less, the others as before.                                  *)
LEMMA SumWithout ==
    ASSUME NEW f, NEW e, NEW S, IsFiniteSet(S), NEW x \in S,
           \A y \in S : f[y] \in Int /\ (y # x => e[y] = f[y])
    PROVE  SumFunctionOnSet(f, S) = f[x] + SumFunctionOnSet(e, S \ {x})
<1>1. IsFiniteSet(S \ {x})
  BY FS_RemoveElement
<1>2. SumFunctionOnSet(e, S \ {x}) = SumFunctionOnSet(f, S \ {x})
  BY <1>1, SumAgree
<1>3. SumFunctionOnSet(f, S) = f[x] + SumFunctionOnSet(f, S \ {x})
  BY SumRemove
<1> QED
  BY <1>2, <1>3
=============================================================================
