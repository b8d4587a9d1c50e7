------------------------------ MODULE SumLemmas ------------------------------
(***************************************************************************)
(* What the proofs need to know of SumFunctionOnSet of the community       *)
(* modules: a sum over a finite set can be taken apart at any of its       *)
(* elements, in spite of the CHOOSE by which it is defined.                *)
(*                                                                         *)
(* The library's induction theorems take an operator; here an induction    *)
(* over the finite subsets of a set is stated with the set of              *)
(* counterexamples instead, of which a least one exists.                   *)
(***************************************************************************)
EXTENDS Functions, FiniteSetTheorems, TLAPS

\* A set of subsets of a finite set has a member with no other member within.
LEMMA LeastSubset ==
  ASSUME NEW S, IsFiniteSet(S), NEW D, D \subseteq SUBSET S, D # {}
  PROVE  \E T \in D : \A U \in D : U \subseteq T => U = T
<1>1. IsWellFoundedOn(StrictSubsetOrdering(S), FiniteSubsetsOf(S))
  BY FS_StrictSubsetOrderingWellFounded
<1>2. D \subseteq FiniteSubsetsOf(S)
  BY FS_FiniteSubsetsOfFinite
<1>3. PICK T \in D : \A U \in D : ~ <<U, T>> \in StrictSubsetOrdering(S)
  BY <1>1, <1>2, WFMin
<1> QED
  BY <1>3 DEF StrictSubsetOrdering

\* Induction over a finite set, with the set of the subsets for which the claim holds.
LEMMA SubsetInduction ==
  ASSUME NEW S, IsFiniteSet(S), NEW D, {} \in D,
         \A T \in SUBSET S : \A x \in T : T \ {x} \in D => T \in D
  PROVE  S \in D
<1> DEFINE E == {T \in SUBSET S : T \notin D}
<1>1. SUFFICES ASSUME E # {} PROVE FALSE
  OBVIOUS
<1>2. PICK T \in E : \A U \in E : U \subseteq T => U = T
  <2>1. E \subseteq SUBSET S
    OBVIOUS
  <2> HIDE DEF E
  <2> QED BY <1>1, <2>1, LeastSubset
<1>3. PICK x \in T : TRUE
  BY <1>2
<1>4. T \ {x} \in D
  BY <1>2, <1>3
<1> QED BY <1>2, <1>3, <1>4

\* The image of a finite set under a function.
LEMMA FiniteImage ==
  ASSUME NEW m, NEW S, IsFiniteSet(S)
  PROVE  IsFiniteSet({m[x] : x \in S})
<1> DEFINE M(T) == {m[x] : x \in T}
           D == {T \in SUBSET S : IsFiniteSet(M(T))}
<1>1. {} \in D
  <2>1. M({}) = {}
    OBVIOUS
  <2> QED BY <2>1, FS_EmptySet
<1>2. ASSUME NEW T \in SUBSET S, NEW x \in T, T \ {x} \in D
      PROVE  T \in D
  <2>1. M(T) = M(T \ {x}) \cup {m[x]}
    OBVIOUS
  <2>2. IsFiniteSet(M(T \ {x}))
    BY <1>2
  <2> HIDE DEF M
  <2>3. IsFiniteSet(M(T \ {x}) \cup {m[x]})
    BY <2>2, FS_AddElement
  <2> QED BY <2>1, <2>3 DEF M
<1>3. S \in D
  <2> HIDE DEF D
  <2> QED BY <1>1, <1>2, SubsetInduction
<1> QED BY <1>3

\* Induction over the naturals, in the same form.
LEMMA NaturalInduction ==
  ASSUME NEW D, 0 \in D, \A n \in Nat : n \in D => n + 1 \in D
  PROVE  Nat \subseteq D
<1> DEFINE E == Nat \ D
<1>1. SUFFICES ASSUME E # {} PROVE FALSE
  OBVIOUS
<1>2. PICK n \in E : \A m \in E : ~ <<m, n>> \in OpToRel(<, Nat)
  <2>1. E \subseteq Nat
    OBVIOUS
  <2> HIDE DEF E
  <2> QED BY <1>1, <2>1, NatLessThanWellFounded, WFMin
<1>3. \A m \in E : ~ (m < n)
  BY <1>2 DEF OpToRel
<1>4. n # 0 /\ n \in Nat
  BY <1>2
<1>5. n - 1 \in Nat /\ n - 1 < n
  BY <1>4
<1>6. n - 1 \in D
  BY <1>3, <1>5
<1>7. (n - 1) + 1 \in D
  BY <1>5, <1>6
<1> QED BY <1>4, <1>7

-----------------------------------------------------------------------------
(***************************************************************************)
(* The recursive function inside the fold                                  *)
(***************************************************************************)
Pick(s) == CHOOSE x \in s : TRUE

Iterates(g, f, S) ==
  g = [s \in SUBSET S |-> IF s = {} THEN 0 ELSE f[Pick(s)] + g[s \ {Pick(s)}]]

LEMMA SumIsIteration ==
  ASSUME NEW f, NEW S
  PROVE  SumFunctionOnSet(f, S) = (CHOOSE g : Iterates(g, f, S))[S]
BY DEF SumFunctionOnSet, FoldFunctionOnSet, MapThenFoldSet, Iterates, Pick

LEMMA PickIsElement == ASSUME NEW s, s # {} PROVE Pick(s) \in s
BY DEF Pick

\* Two such functions agree wherever both are defined.
LEMMA IterationIsUnique ==
  ASSUME NEW f, NEW S, IsFiniteSet(S), NEW T, NEW g, NEW h,
         Iterates(g, f, S), Iterates(h, f, T),
         NEW s \in SUBSET S, s \in SUBSET T
  PROVE  g[s] = h[s]
<1> DEFINE D == {t \in SUBSET S : t \subseteq T /\ g[t] # h[t]}
<1>1. SUFFICES ASSUME D # {} PROVE FALSE
  OBVIOUS
<1>2. PICK t \in D : \A u \in D : u \subseteq t => u = t
  <2>1. D \subseteq SUBSET S
    OBVIOUS
  <2> HIDE DEF D
  <2> QED BY <1>1, <2>1, LeastSubset
<1>3. CASE t = {}
  BY <1>3, <1>2 DEF Iterates
<1>4. CASE t # {}
  <2> DEFINE u == t \ {Pick(t)}
  <2>1. Pick(t) \in t /\ u \in SUBSET S /\ u \subseteq T /\ u # t
    BY <1>4, <1>2, PickIsElement
  <2>2. g[u] = h[u]
    BY <2>1, <1>2
  <2>3. g[t] = f[Pick(t)] + g[u] /\ h[t] = f[Pick(t)] + h[u]
    BY <1>4, <1>2 DEF Iterates
  <2> QED BY <2>2, <2>3, <1>2
<1> QED BY <1>3, <1>4

LEMMA IterationExists ==
  ASSUME NEW f, NEW S, IsFiniteSet(S)
  PROVE  \E g : Iterates(g, f, S)
<1> DEFINE D == {t \in SUBSET S : ~ \E g : Iterates(g, f, t)}
<1>1. SUFFICES ASSUME D # {} PROVE FALSE
  OBVIOUS
<1>2. PICK T \in D : \A u \in D : u \subseteq T => u = T
  <2>1. D \subseteq SUBSET S
    OBVIOUS
  <2> HIDE DEF D
  <2> QED BY <1>1, <2>1, LeastSubset
<1> DEFINE G(u) == CHOOSE g : Iterates(g, f, u)
           h == [s \in SUBSET T |->
                   IF s = {} THEN 0 ELSE f[Pick(s)] + G(s \ {Pick(s)})[s \ {Pick(s)}]]
<1>3. \A u \in SUBSET T : u # T => Iterates(G(u), f, u)
  BY <1>2
<1>4. \A u \in SUBSET T : u # T => h[u] = G(u)[u]
  <2> SUFFICES ASSUME NEW u \in SUBSET T, u # T PROVE h[u] = G(u)[u]
    OBVIOUS
  <2>1. Iterates(G(u), f, u)
    BY <1>3
  <2>2. CASE u = {}
    BY <2>1, <2>2 DEF Iterates
  <2>3. CASE u # {}
    <3> DEFINE v == u \ {Pick(u)}
    <3>1. Pick(u) \in u /\ v \in SUBSET T /\ v # T
      BY <2>3, PickIsElement
    <3>2. Iterates(G(v), f, v)
      BY <3>1, <1>3
    <3>3. G(u)[v] = G(v)[v]
      <4>1. IsFiniteSet(u) BY <1>2, FS_Subset
      <4> HIDE DEF G, v
      <4> QED BY <2>1, <3>2, <4>1, IterationIsUnique DEF v
    <3>4. G(u)[u] = f[Pick(u)] + G(u)[v]
      <4> HIDE DEF G
      <4> QED BY <2>1, <2>3 DEF Iterates
    <3>5. h[u] = f[Pick(u)] + G(v)[v]
      <4> HIDE DEF G
      <4> QED BY <2>3
    <3> HIDE DEF G, h, v
    <3> QED BY <3>3, <3>4, <3>5
  <2> QED BY <2>2, <2>3
<1>5. Iterates(h, f, T)
  <2>1. \A s \in SUBSET T : s # {} => h[s] = f[Pick(s)] + h[s \ {Pick(s)}]
    <3> SUFFICES ASSUME NEW s \in SUBSET T, s # {}
                 PROVE  h[s] = f[Pick(s)] + h[s \ {Pick(s)}]
      OBVIOUS
    <3> DEFINE v == s \ {Pick(s)}
    <3>1. v \in SUBSET T /\ v # T
      BY PickIsElement
    <3>2. h[v] = G(v)[v]
      BY <3>1, <1>4
    <3>3. h[s] = f[Pick(s)] + G(v)[v]
      <4> HIDE DEF G
      <4> QED OBVIOUS
    <3> HIDE DEF G, h, v
    <3> QED BY <3>2, <3>3 DEF v
  <2>2. h = [s \in SUBSET T |-> h[s]] /\ h[{}] = 0
    <3> HIDE DEF G
    <3> QED OBVIOUS
  <2> HIDE DEF h
  <2> QED BY <2>1, <2>2 DEF Iterates
<1> QED BY <1>5, <1>2

-----------------------------------------------------------------------------
(***************************************************************************)
(* Sums                                                                    *)
(***************************************************************************)
LEMMA SumEmpty == \A f : SumFunctionOnSet(f, {}) = 0
<1> SUFFICES ASSUME NEW f PROVE SumFunctionOnSet(f, {}) = 0
  OBVIOUS
<1>1. PICK g : Iterates(g, f, {})
  BY IterationExists, FS_EmptySet
<1> QED
  BY <1>1, SumIsIteration DEF Iterates

LEMMA SumPicked ==
  ASSUME NEW f, NEW S, IsFiniteSet(S), S # {}
  PROVE  SumFunctionOnSet(f, S) = f[Pick(S)] + SumFunctionOnSet(f, S \ {Pick(S)})
<1> DEFINE T == S \ {Pick(S)}
           g == CHOOSE k : Iterates(k, f, S)
           h == CHOOSE k : Iterates(k, f, T)
<1>1. IsFiniteSet(T)
  BY FS_Subset
<1>2. Iterates(g, f, S) /\ Iterates(h, f, T)
  BY <1>1, IterationExists
<1>3. SumFunctionOnSet(f, S) = g[S] /\ SumFunctionOnSet(f, T) = h[T]
  BY SumIsIteration
<1> HIDE DEF g, h
<1>4. g[S] = f[Pick(S)] + g[T]
  BY <1>2 DEF Iterates
<1>5. g[T] = h[T]
  BY <1>1, <1>2, IterationIsUnique
<1> QED BY <1>3, <1>4, <1>5

\* A sum of integers, taken apart at any element.
LEMMA SumElement ==
  ASSUME NEW f, NEW S, IsFiniteSet(S), \A x \in S : f[x] \in Int
  PROVE  /\ SumFunctionOnSet(f, S) \in Int
         /\ \A x \in S : SumFunctionOnSet(f, S) = f[x] + SumFunctionOnSet(f, S \ {x})
<1> DEFINE Sum(s) == SumFunctionOnSet(f, s)
           Good(s) == Sum(s) \in Int /\ \A x \in s : Sum(s) = f[x] + Sum(s \ {x})
           D == {s \in SUBSET S : ~ Good(s)}
<1>1. SUFFICES ASSUME D # {} PROVE FALSE
  OBVIOUS
<1>2. PICK T \in D : \A u \in D : u \subseteq T => u = T
  <2>1. D \subseteq SUBSET S
    OBVIOUS
  <2> HIDE DEF D
  <2> QED BY <1>1, <2>1, LeastSubset
<1>3. \A u \in SUBSET T : u # T => Good(u)
  BY <1>2
<1>4. \A s \in SUBSET T : s # {} => Pick(s) \in s /\ Sum(s) = f[Pick(s)] + Sum(s \ {Pick(s)})
  BY <1>2, FS_Subset, SumPicked, PickIsElement
<1>5. Sum({}) = 0
  BY SumEmpty
<1> HIDE DEF Sum
<1>6. T # {}
  <2>1. Good({})
    BY <1>5
  <2> QED BY <2>1, <1>2
<1> DEFINE c == Pick(T)
<1>7. c \in T /\ Sum(T) = f[c] + Sum(T \ {c}) /\ Sum(T \ {c}) \in Int
  BY <1>3, <1>4, <1>6
<1>8. Sum(T) \in Int
  BY <1>2, <1>7
<1>9. ASSUME NEW x \in T PROVE Sum(T) = f[x] + Sum(T \ {x})
  <2>1. CASE x = c
    BY <1>7, <2>1
  <2>2. CASE x # c
    <3> DEFINE r == (T \ {c}) \ {x}
    <3>1. Sum(T \ {c}) = f[x] + Sum(r) /\ Sum(r) \in Int
      BY <1>3, <1>7, <2>2
    <3>2. Sum(T \ {x}) = f[c] + Sum((T \ {x}) \ {c})
      BY <1>3, <1>7, <2>2
    <3>3. r = (T \ {x}) \ {c}
      OBVIOUS
    <3>4. f[x] \in Int /\ f[c] \in Int
      BY <1>2, <1>7
    <3> HIDE DEF c, r
    <3> QED BY <1>7, <3>1, <3>2, <3>3, <3>4
  <2> QED BY <2>1, <2>2
<1> QED BY <1>2, <1>8, <1>9

LEMMA SumType ==
  ASSUME NEW f, NEW S, IsFiniteSet(S), \A x \in S : f[x] \in Int
  PROVE  SumFunctionOnSet(f, S) \in Int
BY SumElement

LEMMA SumRemove ==
  ASSUME NEW f, NEW S, IsFiniteSet(S), \A x \in S : f[x] \in Int, NEW x \in S
  PROVE  SumFunctionOnSet(f, S) = f[x] + SumFunctionOnSet(f, S \ {x})
BY SumElement

LEMMA SumAdd ==
  ASSUME NEW f, NEW S, IsFiniteSet(S), NEW x, x \notin S,
         \A y \in S \cup {x} : f[y] \in Int
  PROVE  SumFunctionOnSet(f, S \cup {x}) = f[x] + SumFunctionOnSet(f, S)
<1>1. IsFiniteSet(S \cup {x}) /\ (S \cup {x}) \ {x} = S
  BY FS_AddElement
<1> QED BY <1>1, SumRemove

\* A sum depends on the values over its set only.
LEMMA SumCongruent ==
  ASSUME NEW f, NEW g, NEW S, IsFiniteSet(S), \A x \in S : f[x] \in Int /\ g[x] = f[x]
  PROVE  SumFunctionOnSet(f, S) = SumFunctionOnSet(g, S)
<1> DEFINE D == {T \in SUBSET S : SumFunctionOnSet(f, T) = SumFunctionOnSet(g, T)}
<1>1. {} \in D
  BY SumEmpty
<1>2. ASSUME NEW T \in SUBSET S, NEW x \in T, T \ {x} \in D
      PROVE  T \in D
  <2>1. IsFiniteSet(T)
    BY FS_Subset
  <2>2. SumFunctionOnSet(f, T) = f[x] + SumFunctionOnSet(f, T \ {x})
    BY <2>1, SumRemove
  <2>3. SumFunctionOnSet(g, T) = g[x] + SumFunctionOnSet(g, T \ {x})
    BY <2>1, SumRemove
  <2> QED BY <1>2, <2>2, <2>3
<1>3. S \in D
  <2> HIDE DEF D
  <2> QED BY <1>1, <1>2, SubsetInduction
<1> QED BY <1>3

\* The sum of a function is the one of any function that extends it.
LEMMA SumRestricted ==
  ASSUME NEW f, NEW g, NEW S, IsFiniteSet(S), DOMAIN g = S,
         \A x \in S : f[x] \in Int /\ g[x] = f[x]
  PROVE  SumFunction(g) = SumFunctionOnSet(f, S)
BY SumCongruent DEF SumFunction

LEMMA SumPlus ==
  ASSUME NEW f, NEW g, NEW h, NEW S, IsFiniteSet(S),
         \A x \in S : f[x] \in Int /\ g[x] \in Int /\ h[x] = f[x] + g[x]
  PROVE  SumFunctionOnSet(h, S) = SumFunctionOnSet(f, S) + SumFunctionOnSet(g, S)
<1> DEFINE Sum(k, T) == SumFunctionOnSet(k, T)
           D == {T \in SUBSET S : Sum(h, T) = Sum(f, T) + Sum(g, T)}
<1>1. {} \in D
  BY SumEmpty
<1>2. ASSUME NEW T \in SUBSET S, NEW x \in T, T \ {x} \in D
      PROVE  T \in D
  <2>1. IsFiniteSet(T) /\ IsFiniteSet(T \ {x})
    BY FS_Subset
  <2>2. \A y \in T : f[y] \in Int /\ g[y] \in Int /\ h[y] \in Int
    OBVIOUS
  <2>3. /\ Sum(f, T) = f[x] + Sum(f, T \ {x}) /\ Sum(f, T \ {x}) \in Int
        /\ Sum(g, T) = g[x] + Sum(g, T \ {x}) /\ Sum(g, T \ {x}) \in Int
        /\ Sum(h, T) = h[x] + Sum(h, T \ {x})
    BY <2>1, <2>2, SumRemove, SumType
  <2> HIDE DEF Sum
  <2> QED BY <1>2, <2>2, <2>3
<1>3. S \in D
  <2> HIDE DEF D
  <2> QED BY <1>1, <1>2, SubsetInduction
<1> QED BY <1>3

LEMMA SumUnion ==
  ASSUME NEW f, NEW S, NEW T, IsFiniteSet(S), IsFiniteSet(T), S \cap T = {},
         \A x \in S \cup T : f[x] \in Int
  PROVE  SumFunctionOnSet(f, S \cup T) = SumFunctionOnSet(f, S) + SumFunctionOnSet(f, T)
<1> DEFINE Sum(U) == SumFunctionOnSet(f, U)
           D == {U \in SUBSET T : Sum(S \cup U) = Sum(S) + Sum(U)}
<1>1. {} \in D
  <2>1. Sum(S) \in Int /\ Sum({}) = 0 /\ S \cup {} = S
    BY SumType, SumEmpty
  <2> HIDE DEF Sum
  <2> QED BY <2>1
<1>2. ASSUME NEW U \in SUBSET T, NEW x \in U, U \ {x} \in D
      PROVE  U \in D
  <2>1. IsFiniteSet(U) /\ IsFiniteSet(U \ {x}) /\ IsFiniteSet(S \cup U)
    BY FS_Subset, FS_Union
  <2>2. /\ Sum(U) = f[x] + Sum(U \ {x}) /\ Sum(U \ {x}) \in Int
        /\ Sum(S) \in Int /\ f[x] \in Int
    BY <2>1, SumRemove, SumType
  <2>3. (S \cup U) \ {x} = S \cup (U \ {x})
    OBVIOUS
  <2>4. Sum(S \cup U) = f[x] + Sum(S \cup (U \ {x}))
    BY <2>1, <2>3, SumRemove
  <2> HIDE DEF Sum
  <2> QED BY <1>2, <2>2, <2>4
<1>3. T \in D
  <2> HIDE DEF D
  <2> QED BY <1>1, <1>2, SubsetInduction
<1> QED BY <1>3

LEMMA SumMonotone ==
  ASSUME NEW f, NEW g, NEW S, IsFiniteSet(S),
         \A x \in S : f[x] \in Int /\ g[x] \in Int /\ f[x] <= g[x]
  PROVE  SumFunctionOnSet(f, S) <= SumFunctionOnSet(g, S)
<1> DEFINE Sum(k, T) == SumFunctionOnSet(k, T)
           D == {T \in SUBSET S : Sum(f, T) <= Sum(g, T)}
<1>1. {} \in D
  BY SumEmpty
<1>2. ASSUME NEW T \in SUBSET S, NEW x \in T, T \ {x} \in D
      PROVE  T \in D
  <2>1. IsFiniteSet(T) /\ IsFiniteSet(T \ {x})
    BY FS_Subset
  <2>2. /\ Sum(f, T) = f[x] + Sum(f, T \ {x}) /\ Sum(f, T \ {x}) \in Int
        /\ Sum(g, T) = g[x] + Sum(g, T \ {x}) /\ Sum(g, T \ {x}) \in Int
    BY <2>1, SumRemove, SumType
  <2> HIDE DEF Sum
  <2> QED BY <1>2, <2>2
<1>3. S \in D
  <2> HIDE DEF D
  <2> QED BY <1>1, <1>2, SubsetInduction
<1> QED BY <1>3

\* A sum of naturals is a natural, and none of them is greater than it.
LEMMA SumNat ==
  ASSUME NEW f, NEW S, IsFiniteSet(S), \A x \in S : f[x] \in Nat
  PROVE  /\ SumFunctionOnSet(f, S) \in Nat
         /\ \A x \in S : f[x] <= SumFunctionOnSet(f, S)
<1> DEFINE Sum(T) == SumFunctionOnSet(f, T)
           D == {T \in SUBSET S : Sum(T) \in Nat}
<1>1. {} \in D
  BY SumEmpty
<1>2. ASSUME NEW T \in SUBSET S, NEW x \in T
      PROVE  /\ Sum(T) = f[x] + Sum(T \ {x})
             /\ T \ {x} \in D => T \in D
  <2>1. IsFiniteSet(T)
    BY FS_Subset
  <2>2. Sum(T) = f[x] + Sum(T \ {x})
    BY <2>1, SumRemove
  <2> HIDE DEF Sum
  <2> QED BY <2>2
<1>3. \A T \in SUBSET S : T \in D
  <2> SUFFICES ASSUME NEW T \in SUBSET S PROVE T \in D
    OBVIOUS
  <2>1. IsFiniteSet(T)
    BY FS_Subset
  <2> HIDE DEF D
  <2> QED BY <1>1, <1>2, <2>1, SubsetInduction
<1>4. \A x \in S : Sum(S \ {x}) \in Nat
  BY <1>3
<1>5. Sum(S) \in Nat
  BY <1>3
<1>6. \A x \in S : f[x] <= Sum(S)
  <2> SUFFICES ASSUME NEW x \in S PROVE f[x] <= Sum(S)
    OBVIOUS
  <2>1. Sum(S) = f[x] + Sum(S \ {x}) /\ Sum(S \ {x}) \in Nat /\ f[x] \in Nat
    BY <1>2, <1>4
  <2> HIDE DEF Sum
  <2> QED BY <2>1
<1> QED BY <1>5, <1>6

\* A sum over part of a set of naturals is no greater.
LEMMA SumSubset ==
  ASSUME NEW f, NEW S, IsFiniteSet(S), \A x \in S : f[x] \in Nat, NEW T \in SUBSET S
  PROVE  SumFunctionOnSet(f, T) <= SumFunctionOnSet(f, S)
<1>1. IsFiniteSet(T) /\ IsFiniteSet(S \ T) /\ S = T \cup (S \ T) /\ T \cap (S \ T) = {}
  BY FS_Subset
<1>2. SumFunctionOnSet(f, S) = SumFunctionOnSet(f, T) + SumFunctionOnSet(f, S \ T)
  BY <1>1, SumUnion
<1>3. SumFunctionOnSet(f, T) \in Nat /\ SumFunctionOnSet(f, S \ T) \in Nat
  BY <1>1, SumNat
<1> QED BY <1>2, <1>3

\* A sum of zeros.
LEMMA SumZero ==
  ASSUME NEW f, NEW S, IsFiniteSet(S), \A x \in S : f[x] = 0
  PROVE  SumFunctionOnSet(f, S) = 0
<1> DEFINE D == {T \in SUBSET S : SumFunctionOnSet(f, T) = 0}
<1>1. {} \in D
  BY SumEmpty
<1>2. ASSUME NEW T \in SUBSET S, NEW x \in T, T \ {x} \in D
      PROVE  T \in D
  <2>1. IsFiniteSet(T)
    BY FS_Subset
  <2>2. SumFunctionOnSet(f, T) = f[x] + SumFunctionOnSet(f, T \ {x})
    BY <2>1, SumRemove
  <2> QED BY <1>2, <2>2
<1>3. S \in D
  <2> HIDE DEF D
  <2> QED BY <1>1, <1>2, SubsetInduction
<1> QED BY <1>3

\* Zeros may be left out of a sum.
LEMMA SumSupport ==
  ASSUME NEW f, NEW S, IsFiniteSet(S), NEW T \in SUBSET S,
         \A x \in S : f[x] \in Int, \A x \in S \ T : f[x] = 0
  PROVE  SumFunctionOnSet(f, S) = SumFunctionOnSet(f, T)
<1>1. IsFiniteSet(T) /\ IsFiniteSet(S \ T) /\ S = T \cup (S \ T) /\ T \cap (S \ T) = {}
  BY FS_Subset
<1>2. SumFunctionOnSet(f, S) = SumFunctionOnSet(f, T) + SumFunctionOnSet(f, S \ T)
  BY <1>1, SumUnion
<1>3. SumFunctionOnSet(f, S \ T) = 0
  BY <1>1, SumZero
<1>4. SumFunctionOnSet(f, T) \in Int
  BY <1>1, SumType
<1> QED BY <1>2, <1>3, <1>4

LEMMA SumScale ==
  ASSUME NEW f, NEW g, NEW S, IsFiniteSet(S), NEW k \in Int,
         \A x \in S : f[x] \in Int /\ g[x] = k * f[x]
  PROVE  SumFunctionOnSet(g, S) = k * SumFunctionOnSet(f, S)
<1> DEFINE Sum(h, T) == SumFunctionOnSet(h, T)
           D == {T \in SUBSET S : Sum(g, T) = k * Sum(f, T)}
<1>1. {} \in D
  BY SumEmpty
<1>2. ASSUME NEW T \in SUBSET S, NEW x \in T, T \ {x} \in D
      PROVE  T \in D
  <2>1. IsFiniteSet(T) /\ IsFiniteSet(T \ {x})
    BY FS_Subset
  <2>2. \A y \in T : f[y] \in Int /\ g[y] \in Int
    OBVIOUS
  <2>3. /\ Sum(f, T) = f[x] + Sum(f, T \ {x}) /\ Sum(f, T \ {x}) \in Int
        /\ Sum(g, T) = g[x] + Sum(g, T \ {x})
    BY <2>1, <2>2, SumRemove, SumType
  <2>4. \A a, b \in Int : k * (a + b) = k * a + k * b
    OBVIOUS
  <2> HIDE DEF Sum
  <2> QED BY <1>2, <2>2, <2>3, <2>4
<1>3. S \in D
  <2> HIDE DEF D
  <2> QED BY <1>1, <1>2, SubsetInduction
<1> QED BY <1>3

\* The terms of a sum may be renamed, one to one.
LEMMA SumRenamed ==
  ASSUME NEW f, NEW g, NEW m, NEW S, IsFiniteSet(S),
         \A x \in S : f[x] \in Int /\ g[m[x]] = f[x],
         \A x, y \in S : m[x] = m[y] => x = y
  PROVE  /\ IsFiniteSet({m[x] : x \in S})
         /\ SumFunctionOnSet(g, {m[x] : x \in S}) = SumFunctionOnSet(f, S)
<1> DEFINE M(T) == {m[x] : x \in T}
           D == {T \in SUBSET S : /\ IsFiniteSet(M(T))
                                  /\ SumFunctionOnSet(g, M(T)) = SumFunctionOnSet(f, T)}
<1>1. {} \in D
  <2>1. M({}) = {} /\ IsFiniteSet({})
    BY FS_EmptySet
  <2> QED BY <2>1, SumEmpty
<1>2. ASSUME NEW T \in SUBSET S, NEW x \in T, T \ {x} \in D
      PROVE  T \in D
  <2>1. IsFiniteSet(T)
    BY FS_Subset
  <2>2. SumFunctionOnSet(f, T) = f[x] + SumFunctionOnSet(f, T \ {x})
    BY <2>1, SumRemove
  <2>3. /\ M(T) = M(T \ {x}) \cup {m[x]} /\ m[x] \notin M(T \ {x})
        /\ \A y \in M(T) : g[y] \in Int
    OBVIOUS
  <2>4. IsFiniteSet(M(T \ {x})) /\ SumFunctionOnSet(g, M(T \ {x})) = SumFunctionOnSet(f, T \ {x})
    BY <1>2
  <2>5. IsFiniteSet(M(T))
    <3> DEFINE R == M(T \ {x})
    <3>1. IsFiniteSet(R) /\ M(T) = R \cup {m[x]}
      BY <2>3, <2>4
    <3> HIDE DEF M, R
    <3>2. IsFiniteSet(R \cup {m[x]})
      BY <3>1, FS_AddElement
    <3> QED BY <3>1, <3>2
  <2>6. SumFunctionOnSet(g, M(T)) = g[m[x]] + SumFunctionOnSet(g, M(T \ {x}))
    <3> HIDE DEF M
    <3> QED BY <2>3, <2>4, SumAdd
  <2>7. SumFunctionOnSet(g, M(T)) = SumFunctionOnSet(f, T)
    <3> HIDE DEF M
    <3> QED BY <2>2, <2>4, <2>6
  <2> QED BY <2>5, <2>7
<1>3. S \in D
  <2> HIDE DEF D
  <2> QED BY <1>1, <1>2, SubsetInduction
<1> QED BY <1>3

\* A union has at most as many elements as its members together.
LEMMA UnionBounded ==
  ASSUME NEW P, NEW f, NEW S, IsFiniteSet(S),
         \A x \in S : f[x] \in Nat /\ IsFiniteSet(P[x]) /\ Cardinality(P[x]) <= f[x]
  PROVE  /\ IsFiniteSet(UNION {P[x] : x \in S})
         /\ Cardinality(UNION {P[x] : x \in S}) <= SumFunctionOnSet(f, S)
<1> DEFINE U(T) == UNION {P[x] : x \in T}
           D == {T \in SUBSET S : IsFiniteSet(U(T)) /\ Cardinality(U(T)) <= SumFunctionOnSet(f, T)}
<1>1. {} \in D
  <2>1. U({}) = {}
    OBVIOUS
  <2>2. IsFiniteSet({}) /\ Cardinality({}) = 0
    BY FS_EmptySet
  <2> QED BY <2>1, <2>2, SumEmpty
<1>2. ASSUME NEW T \in SUBSET S, NEW x \in T, T \ {x} \in D
      PROVE  T \in D
  <2> DEFINE A == U(T \ {x})
             a == SumFunctionOnSet(f, T \ {x})
  <2>1. IsFiniteSet(A) /\ Cardinality(A) <= a
    BY <1>2
  <2>2. U(T) = A \cup P[x]
    OBVIOUS
  <2>3. IsFiniteSet(T) /\ IsFiniteSet(T \ {x})
    BY FS_Subset
  <2>4. SumFunctionOnSet(f, T) = f[x] + a /\ a \in Nat
    BY <2>3, SumRemove, SumNat
  <2>5. IsFiniteSet(P[x]) /\ Cardinality(P[x]) <= f[x] /\ f[x] \in Nat
    OBVIOUS
  <2> HIDE DEF A, a, U
  <2>6. /\ IsFiniteSet(A \cup P[x])
        /\ Cardinality(A \cup P[x]) = Cardinality(A) + Cardinality(P[x]) - Cardinality(A \cap P[x])
    BY <2>1, <2>5, FS_Union
  <2>7. IsFiniteSet(A \cap P[x])
    BY <2>1, FS_Subset
  <2>8. Cardinality(A) \in Nat /\ Cardinality(P[x]) \in Nat /\ Cardinality(A \cap P[x]) \in Nat
    BY <2>1, <2>5, <2>7, FS_CardinalityType
  <2>9. Cardinality(A \cup P[x]) <= SumFunctionOnSet(f, T)
    BY <2>1, <2>4, <2>5, <2>6, <2>8
  <2> QED BY <2>2, <2>6, <2>9
<1>3. S \in D
  <2> HIDE DEF D
  <2> QED BY <1>1, <1>2, SubsetInduction
<1> QED BY <1>3
=============================================================================
