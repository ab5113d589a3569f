---------------------------- MODULE FiniteFacts ----------------------------
(***************************************************************************)
(* Facts about finite sets that the proofs need for every size: a minimal  *)
(* element exists, and SumFunctionOnSet of the community modules, the sum  *)
(* of f[x] over the x of a set, is what a reader expects, the terms taken  *)
(* in any order.                                                           *)
(*                                                                         *)
(* The sum is a recursive function over the subsets of the set.  Every     *)
(* argument about it is an induction over those subsets, written as the    *)
(* search for a smallest set that breaks the fact: the library's induction *)
(* theorems take an operator, its well-foundedness theorems do not.        *)
(***************************************************************************)
EXTENDS Integers, Functions, FiniteSetsExt, FiniteSetTheorems, WellFoundedInduction, TLAPS

LOCAL Pick(s) == CHOOSE x \in s : TRUE

\* g is the function SumFunctionOnSet(f, S) is computed by.
Adds(f, g, S) ==
  g = [s \in SUBSET S |-> IF s = {} THEN 0 ELSE f[Pick(s)] + g[s \ {Pick(s)}]]

\* Among subsets of a finite set there is a smallest one.
LEMMA SmallestSubset ==
  ASSUME NEW S, IsFiniteSet(S), NEW B \in SUBSET (SUBSET S), B /= {}
  PROVE  \E T \in B : \A U \in B : U \subseteq T => U = T
<1>1. B \subseteq FiniteSubsetsOf(S)
  BY FS_Subset DEF FiniteSubsetsOf
<1>2. PICK T \in B : \A U \in B : ~(<<U, T>> \in StrictSubsetOrdering(S))
  <2> HIDE DEF FiniteSubsetsOf, StrictSubsetOrdering
  <2> QED BY <1>1, FS_StrictSubsetOrderingWellFounded, WFMin
<1> QED BY <1>2 DEF StrictSubsetOrdering

\* A finite set has a minimal element in any strict order.
LEMMA MinimalElement ==
  ASSUME NEW S, IsFiniteSet(S), S /= {}, NEW R,
         \A x \in S : <<x, x>> \notin R,
         \A x, y, z \in S : <<x, y>> \in R /\ <<y, z>> \in R => <<x, z>> \in R
  PROVE  \E x \in S : \A y \in S : <<y, x>> \notin R
<1> DEFINE Below(x) == {y \in S : <<y, x>> \in R}
           B == {Below(x) : x \in S}
<1>1. PICK T \in B : \A U \in B : U \subseteq T => U = T
  <2>1. \A x \in S : Below(x) \in SUBSET S
    OBVIOUS
  <2>2. B \in SUBSET (SUBSET S) /\ B /= {}
    <3> HIDE DEF Below
    <3> QED BY <2>1
  <2> HIDE DEF B
  <2> QED BY <2>2, SmallestSubset
<1>2. PICK x \in S : T = Below(x)
  BY <1>1
<1>3. ASSUME NEW y \in S, <<y, x>> \in R PROVE FALSE
  <2>1. Below(y) \subseteq Below(x) /\ Below(y) \in B
    BY <1>3
  <2>2. Below(y) = Below(x)
    BY <1>1, <1>2, <2>1
  <2>3. y \in Below(x)
    BY <1>3
  <2> QED BY <2>2, <2>3
<1> QED BY <1>3

LEMMA Unfolded ==
  ASSUME NEW f, NEW S
  PROVE  SumFunctionOnSet(f, S) = (CHOOSE g : Adds(f, g, S))[S]
BY DEF SumFunctionOnSet, FoldFunctionOnSet, MapThenFoldSet, Adds, Pick

LEMMA PickIn == \A s : s /= {} => Pick(s) \in s
BY DEF Pick

-----------------------------------------------------------------------------
(* The recursive function exists, and its value does not depend on the set *)
(* it is defined over.                                                     *)

LEMMA SameAdds ==
  ASSUME NEW f, NEW S, NEW T, IsFiniteSet(S), NEW g, NEW h,
         Adds(f, g, S), Adds(f, h, T),
         NEW V, V \subseteq S, V \subseteq T
  PROVE  g[V] = h[V]
<1> DEFINE B == {U \in SUBSET S : U \subseteq T /\ g[U] /= h[U]}
<1>1. SUFFICES ASSUME B /= {} PROVE FALSE
  OBVIOUS
<1>2. PICK U \in B : \A W \in B : W \subseteq U => W = U
  <2>1. B \in SUBSET (SUBSET S)
    OBVIOUS
  <2> HIDE DEF B
  <2> QED BY <1>1, <2>1, SmallestSubset
<1>3. CASE U = {}
  BY <1>2, <1>3 DEF Adds
<1>4. CASE U /= {}
  <2>1. Pick(U) \in U
    BY <1>4, PickIn
  <2> DEFINE W == U \ {Pick(U)}
  <2>2. W \subseteq U /\ W /= U
    BY <2>1
  <2>3. g[W] = h[W]
    BY <1>2, <2>2
  <2>4. g[U] = f[Pick(U)] + g[W] /\ h[U] = f[Pick(U)] + h[W]
    BY <1>2, <1>4 DEF Adds
  <2> QED BY <1>2, <2>3, <2>4
<1> QED BY <1>3, <1>4

LEMMA AddsExists ==
  ASSUME NEW f, NEW S, IsFiniteSet(S)
  PROVE  \E g : Adds(f, g, S)
<1> DEFINE B == {U \in SUBSET S : ~\E g : Adds(f, g, U)}
<1>1. SUFFICES ASSUME B /= {} PROVE FALSE
  OBVIOUS
<1>2. PICK T \in B : \A W \in B : W \subseteq T => W = T
  <2>1. B \in SUBSET (SUBSET S)
    OBVIOUS
  <2> HIDE DEF B
  <2> QED BY <1>1, <2>1, SmallestSubset
<1>3. CASE T = {}
  <2> DEFINE g == [s \in SUBSET T |-> 0]
  <2>1. \A s \in SUBSET T : s = {}
    BY <1>3
  <2>2. Adds(f, g, T)
    BY <2>1 DEF Adds
  <2> QED BY <1>2, <2>2
<1>4. CASE T /= {}
  <2> DEFINE h(s) == CHOOSE g : Adds(f, g, s)
             val(s) == h(s)[s]
             g == [s \in SUBSET T |-> IF s = {} THEN 0 ELSE f[Pick(s)] + val(s \ {Pick(s)})]
  <2>1. ASSUME NEW s \in SUBSET T, s /= T PROVE Adds(f, h(s), s) /\ IsFiniteSet(s)
    <3>1. s \in SUBSET S /\ s \notin B
      BY <1>2, <2>1
    <3> QED BY <3>1, FS_Subset
  <2>2. ASSUME NEW s \in SUBSET T, s /= T PROVE g[s] = val(s)
    <3>1. CASE s = {}
      <4>1. Adds(f, h(s), s)
        BY <2>1, <2>2
      <4>2. val(s) = 0
        <5> HIDE DEF h
        <5> QED BY <4>1, <3>1 DEF Adds
      <4> QED BY <4>2, <3>1
    <3>2. CASE s /= {}
      <4> DEFINE r == s \ {Pick(s)}
      <4>1. r \in SUBSET T /\ r /= T /\ r \subseteq s
        BY <2>2
      <4>2. val(s) = f[Pick(s)] + h(s)[r]
        <5>1. Adds(f, h(s), s)
          BY <2>1, <2>2
        <5> HIDE DEF h
        <5> QED BY <5>1, <3>2 DEF Adds
      <4>3. h(s)[r] = h(r)[r]
        <5>1. Adds(f, h(s), s) /\ IsFiniteSet(s)
          BY <2>1, <2>2
        <5>2. Adds(f, h(r), r)
          BY <2>1, <4>1
        <5> HIDE DEF h, r
        <5> QED BY <5>1, <5>2, <4>1, SameAdds
      <4> QED BY <4>2, <4>3, <3>2
    <3> QED BY <3>1, <3>2
  <2>3. \A s \in SUBSET T : s /= {} => s \ {Pick(s)} \in SUBSET T /\ s \ {Pick(s)} /= T
    BY PickIn
  <2>4. \A s \in SUBSET T : s /= {} => g[s \ {Pick(s)}] = val(s \ {Pick(s)})
    BY <2>2, <2>3
  <2>5. Adds(f, g, T)
    <3> HIDE DEF val, h
    <3> QED BY <2>4 DEF Adds
  <2> QED BY <1>2, <2>5
<1> QED BY <1>3, <1>4

-----------------------------------------------------------------------------
(* The sum.                                                                *)

LEMMA SumIsAdds ==
  ASSUME NEW f, NEW S, IsFiniteSet(S), NEW g, Adds(f, g, S), NEW V \in SUBSET S
  PROVE  SumFunctionOnSet(f, V) = g[V]
<1>1. IsFiniteSet(V)
  BY FS_Subset
<1> DEFINE h == CHOOSE k : Adds(f, k, V)
<1>2. Adds(f, h, V)
  BY <1>1, AddsExists
<1>3. SumFunctionOnSet(f, V) = h[V]
  BY Unfolded
<1>4. h[V] = g[V]
  <2> HIDE DEF h
  <2> QED BY <1>1, <1>2, SameAdds
<1> QED BY <1>3, <1>4

LEMMA SumStep ==
  ASSUME NEW f, NEW S, IsFiniteSet(S)
  PROVE  SumFunctionOnSet(f, S) =
           IF S = {} THEN 0 ELSE f[Pick(S)] + SumFunctionOnSet(f, S \ {Pick(S)})
<1>1. PICK g : Adds(f, g, S)
  BY AddsExists
<1>2. SumFunctionOnSet(f, S) = g[S] /\ SumFunctionOnSet(f, S \ {Pick(S)}) = g[S \ {Pick(S)}]
  BY <1>1, SumIsAdds
<1> QED BY <1>1, <1>2 DEF Adds

\* Nothing adds up to zero.
LEMMA SumEmpty == \A f : SumFunctionOnSet(f, {}) = 0
BY SumStep, FS_EmptySet

\* A sum of integers is an integer, and of naturals a natural.
LEMMA SumType ==
  ASSUME NEW S, IsFiniteSet(S), NEW R \in {Nat, Int}, NEW f, \A x \in S : f[x] \in R
  PROVE  SumFunctionOnSet(f, S) \in R
<1> DEFINE B == {T \in SUBSET S : SumFunctionOnSet(f, T) \notin R}
<1>1. SUFFICES ASSUME B /= {} PROVE FALSE
  OBVIOUS
<1>2. PICK T \in B : \A W \in B : W \subseteq T => W = T
  <2>1. B \in SUBSET (SUBSET S)
    OBVIOUS
  <2> HIDE DEF B
  <2> QED BY <1>1, <2>1, SmallestSubset
<1>3. T /= {}
  BY <1>2, SumEmpty
<1>4. Pick(T) \in T
  BY <1>3, PickIn
<1>5. SumFunctionOnSet(f, T \ {Pick(T)}) \in R
  BY <1>2, <1>4
<1>6. SumFunctionOnSet(f, T) = f[Pick(T)] + SumFunctionOnSet(f, T \ {Pick(T)})
  BY <1>3, SumStep, FS_Subset
<1>7. f[Pick(T)] \in R
  BY <1>4
<1>8. \A a, b \in R : a + b \in R
  OBVIOUS
<1> QED BY <1>2, <1>5, <1>6, <1>7, <1>8

\* Any element may be taken first.
LEMMA SumRemove ==
  ASSUME NEW S, IsFiniteSet(S), NEW f, \A x \in S : f[x] \in Int, NEW x \in S
  PROVE  SumFunctionOnSet(f, S) = f[x] + SumFunctionOnSet(f, S \ {x})
<1> DEFINE G(s) == SumFunctionOnSet(f, s)
           B == {T \in SUBSET S : \E y \in T : G(T) /= f[y] + G(T \ {y})}
<1>1. SUFFICES ASSUME B /= {} PROVE FALSE
  OBVIOUS
<1>2. PICK T \in B : \A W \in B : W \subseteq T => W = T
  <2>1. B \in SUBSET (SUBSET S)
    OBVIOUS
  <2> HIDE DEF B
  <2> QED BY <1>1, <2>1, SmallestSubset
<1>3. PICK y \in T : G(T) /= f[y] + G(T \ {y})
  BY <1>2
<1> DEFINE p == Pick(T)
           Good(W) == \A z \in W : G(W) = f[z] + G(W \ {z})
           rest == (T \ {p}) \ {y}
<1>4. p \in T /\ IsFiniteSet(T) /\ T \in SUBSET S
  BY <1>2, <1>3, PickIn, FS_Subset
<1>5. G(T) = f[p] + G(T \ {p})
  BY <1>2, <1>3, <1>4, SumStep
<1>6. p /= y
  BY <1>3, <1>5
<1>7. \A W \in SUBSET S : W \subseteq T /\ W /= T => Good(W)
  BY <1>2
<1>8. Good(T \ {p}) /\ Good(T \ {y})
  <2> HIDE DEF Good, B, p
  <2> QED BY <1>7, <1>4, <1>3
<1>9. G(T \ {p}) = f[y] + G(rest)
  BY <1>8, <1>3, <1>6
<1>10. G(T \ {y}) = f[p] + G(rest)
  <2>1. (T \ {y}) \ {p} = rest
    OBVIOUS
  <2> QED BY <1>8, <1>4, <1>6, <2>1
<1>11. G(rest) \in Int
  <2>1. IsFiniteSet(rest) /\ rest \subseteq S
    BY <1>4, FS_Subset
  <2> QED BY <2>1, SumType
<1>12. f[p] \in Int /\ f[y] \in Int
  BY <1>3, <1>4
<1>13. \A a, b, c \in Int : a + (b + c) = b + (a + c)
  OBVIOUS
<1>14. f[p] + (f[y] + G(rest)) = f[y] + (f[p] + G(rest))
  BY <1>11, <1>12, <1>13
<1> QED BY <1>3, <1>5, <1>9, <1>10, <1>14

\* One more element adds its term.
LEMMA SumAdd ==
  ASSUME NEW S, IsFiniteSet(S), NEW f, NEW x, x \notin S,
         \A y \in S \union {x} : f[y] \in Int
  PROVE  SumFunctionOnSet(f, S \union {x}) = f[x] + SumFunctionOnSet(f, S)
<1>1. IsFiniteSet(S \union {x})
  BY FS_AddElement
<1>2. (S \union {x}) \ {x} = S
  OBVIOUS
<1> QED BY <1>1, <1>2, SumRemove

\* Equal terms, equal sums.
LEMMA SumSame ==
  ASSUME NEW S, IsFiniteSet(S), NEW f, NEW g, \A x \in S : f[x] = g[x]
  PROVE  SumFunctionOnSet(f, S) = SumFunctionOnSet(g, S)
<1> DEFINE B == {T \in SUBSET S : SumFunctionOnSet(f, T) /= SumFunctionOnSet(g, T)}
<1>1. SUFFICES ASSUME B /= {} PROVE FALSE
  OBVIOUS
<1>2. PICK T \in B : \A W \in B : W \subseteq T => W = T
  <2>1. B \in SUBSET (SUBSET S)
    OBVIOUS
  <2> HIDE DEF B
  <2> QED BY <1>1, <2>1, SmallestSubset
<1>3. T /= {}
  BY <1>2, SumEmpty
<1>4. Pick(T) \in T
  BY <1>3, PickIn
<1>5. SumFunctionOnSet(f, T \ {Pick(T)}) = SumFunctionOnSet(g, T \ {Pick(T)})
  BY <1>2, <1>4
<1>6. /\ SumFunctionOnSet(f, T) = f[Pick(T)] + SumFunctionOnSet(f, T \ {Pick(T)})
      /\ SumFunctionOnSet(g, T) = g[Pick(T)] + SumFunctionOnSet(g, T \ {Pick(T)})
  BY <1>3, SumStep, FS_Subset
<1> QED BY <1>2, <1>4, <1>5, <1>6

\* A term that changes changes the sum by as much.
LEMMA SumChange ==
  ASSUME NEW S, IsFiniteSet(S), NEW f, NEW g, NEW x \in S,
         \A y \in S : f[y] \in Int /\ g[y] \in Int,
         \A y \in S \ {x} : f[y] = g[y]
  PROVE  SumFunctionOnSet(g, S) = SumFunctionOnSet(f, S) + g[x] - f[x]
<1>1. SumFunctionOnSet(f, S) = f[x] + SumFunctionOnSet(f, S \ {x})
  BY SumRemove
<1>2. SumFunctionOnSet(g, S) = g[x] + SumFunctionOnSet(g, S \ {x})
  BY SumRemove
<1>3. SumFunctionOnSet(f, S \ {x}) = SumFunctionOnSet(g, S \ {x})
  BY SumSame, FS_RemoveElement
<1>4. SumFunctionOnSet(f, S \ {x}) \in Int
  BY SumType, FS_RemoveElement
<1>5. f[x] \in Int /\ g[x] \in Int
  OBVIOUS
<1> QED BY <1>1, <1>2, <1>3, <1>4, <1>5

\* The sum of the sums of two terms.
LEMMA SumPlus ==
  ASSUME NEW S, IsFiniteSet(S), NEW f, NEW g, NEW h,
         \A x \in S : f[x] \in Int /\ g[x] \in Int /\ h[x] = f[x] + g[x]
  PROVE  SumFunctionOnSet(h, S) = SumFunctionOnSet(f, S) + SumFunctionOnSet(g, S)
<1> DEFINE F(s) == SumFunctionOnSet(f, s)
           G(s) == SumFunctionOnSet(g, s)
           H(s) == SumFunctionOnSet(h, s)
           B == {T \in SUBSET S : H(T) /= F(T) + G(T)}
<1>1. SUFFICES ASSUME B /= {} PROVE FALSE
  OBVIOUS
<1>2. PICK T \in B : \A W \in B : W \subseteq T => W = T
  <2>1. B \in SUBSET (SUBSET S)
    OBVIOUS
  <2> HIDE DEF B
  <2> QED BY <1>1, <2>1, SmallestSubset
<1>3. T /= {}
  <2>1. H({}) = 0 /\ F({}) = 0 /\ G({}) = 0
    BY SumEmpty
  <2>2. H({}) = F({}) + G({})
    <3> HIDE DEF F, G, H
    <3> QED BY <2>1
  <2> QED BY <1>2, <2>2
<1> DEFINE p == Pick(T)
           U == T \ {p}
<1>4. p \in T /\ IsFiniteSet(T) /\ T \in SUBSET S
  BY <1>2, <1>3, PickIn, FS_Subset
<1>5. H(U) = F(U) + G(U)
  BY <1>2, <1>4
<1>6. H(T) = h[p] + H(U) /\ F(T) = f[p] + F(U) /\ G(T) = g[p] + G(U)
  BY <1>3, <1>4, SumStep
<1>7. F(U) \in Int /\ G(U) \in Int
  <2>1. IsFiniteSet(U) /\ U \subseteq S
    BY <1>4, FS_Subset
  <2> QED BY <2>1, SumType
<1>8. f[p] \in Int /\ g[p] \in Int /\ h[p] = f[p] + g[p]
  BY <1>4
<1>9. \A a, b, c, d \in Int : (a + b) + (c + d) = (a + c) + (b + d)
  OBVIOUS
<1>10. H(T) = F(T) + G(T)
  BY <1>5, <1>6, <1>7, <1>8, <1>9
<1> QED BY <1>2, <1>10

\* No term, no sum.
LEMMA SumZeros ==
  ASSUME NEW S, IsFiniteSet(S), NEW f, \A x \in S : f[x] = 0
  PROVE  SumFunctionOnSet(f, S) = 0
<1>1. SumFunctionOnSet(f, S) = SumFunctionOnSet(f, S) + SumFunctionOnSet(f, S)
  <2>1. \A x \in S : f[x] \in Int /\ f[x] \in Int /\ f[x] = f[x] + f[x]
    OBVIOUS
  <2> QED BY <2>1, SumPlus
<1>2. SumFunctionOnSet(f, S) \in Int
  <2>1. Int \in {Nat, Int} /\ \A x \in S : f[x] \in Int
    OBVIOUS
  <2> QED BY <2>1, SumType
<1>3. \A n \in Int : n = n + n => n = 0
  OBVIOUS
<1> QED BY <1>1, <1>2, <1>3

\* A nonempty finite set of naturals has a maximum.
LEMMA MaxFacts ==
  ASSUME NEW S \in SUBSET Nat, IsFiniteSet(S), S /= {}
  PROVE  LET m == CHOOSE x \in S : \A y \in S : x >= y
         IN  m \in S /\ \A y \in S : m >= y
<1> DEFINE R == {p \in S \X S : p[1] > p[2]}
<1>1. /\ \A x, y \in S : <<x, y>> \in R <=> x > y
      /\ \A x \in S : <<x, x>> \notin R
      /\ \A x, y, z \in S : <<x, y>> \in R /\ <<y, z>> \in R => <<x, z>> \in R
  OBVIOUS
<1>2. PICK m \in S : \A y \in S : <<y, m>> \notin R
  <2> HIDE DEF R
  <2> QED BY <1>1, MinimalElement
<1>3. \A y \in S : m >= y
  <2> HIDE DEF R
  <2>1. \A y \in S : ~(y > m)
    BY <1>1, <1>2
  <2> QED BY <2>1
<1> DEFINE top == CHOOSE x \in S : \A y \in S : x >= y
<1>4. top \in S /\ \A y \in S : top >= y
  BY <1>3
<1> QED BY <1>4

\* What is summed over a part is a sum over the whole with no other terms.
LEMMA SumFilter ==
  ASSUME NEW S, IsFiniteSet(S), NEW P \in SUBSET S, NEW f, \A x \in P : f[x] \in Int,
         NEW g, \A x \in S : g[x] = IF x \in P THEN f[x] ELSE 0
  PROVE  SumFunctionOnSet(g, S) = SumFunctionOnSet(f, P)
<1> DEFINE G(s) == SumFunctionOnSet(g, s)
           F(s) == SumFunctionOnSet(f, s)
           B == {T \in SUBSET S : G(T) /= F(T \intersect P)}
<1>1. SUFFICES ASSUME B /= {} PROVE FALSE
  <2>1. S \in SUBSET S /\ S \intersect P = P
    OBVIOUS
  <2> QED BY <2>1
<1>2. PICK T \in B : \A W \in B : W \subseteq T => W = T
  <2>1. B \in SUBSET (SUBSET S)
    OBVIOUS
  <2> HIDE DEF B
  <2> QED BY <1>1, <2>1, SmallestSubset
<1>3. PICK x \in T : TRUE
  <2>1. G({}) = F({} \intersect P)
    <3>1. {} \intersect P = {}
      OBVIOUS
    <3> QED BY <3>1, SumEmpty
  <2> HIDE DEF G, F
  <2> QED BY <1>2, <2>1
<1> DEFINE U == T \ {x}
<1>4. /\ x \in S /\ T \in SUBSET S /\ IsFiniteSet(T) /\ IsFiniteSet(T \intersect P)
      /\ \A y \in S : g[y] \in Int
  BY <1>2, <1>3, FS_Subset
<1>5. G(T) = g[x] + G(U)
  BY <1>3, <1>4, SumRemove
<1>6. G(U) = F(U \intersect P)
  BY <1>2, <1>3, <1>4
<1>7. F(U \intersect P) \in Int
  <2>1. IsFiniteSet(U \intersect P) /\ \A y \in U \intersect P : f[y] \in Int
    BY <1>4, FS_Subset
  <2> QED BY <2>1, SumType
<1>8. CASE x \in P
  <2>1. (T \intersect P) \ {x} = U \intersect P
    OBVIOUS
  <2>2. F(T \intersect P) = f[x] + F((T \intersect P) \ {x})
    BY <1>3, <1>4, <1>8, SumRemove
  <2> QED BY <1>2, <1>4, <1>5, <1>6, <1>8, <2>1, <2>2
<1>9. CASE x \notin P
  <2>1. T \intersect P = U \intersect P
    BY <1>9
  <2>2. G(T) = F(U \intersect P)
    BY <1>4, <1>5, <1>6, <1>7, <1>9
  <2> QED BY <1>2, <2>1, <2>2
<1> QED BY <1>8, <1>9

\* A single term is the sum.
LEMMA SumOne ==
  ASSUME NEW S, IsFiniteSet(S), NEW f, NEW x \in S, f[x] \in Int,
         \A y \in S \ {x} : f[y] = 0
  PROVE  SumFunctionOnSet(f, S) = f[x]
<1>1. \A y \in S : f[y] \in Int
  OBVIOUS
<1>2. SumFunctionOnSet(f, S) = f[x] + SumFunctionOnSet(f, S \ {x})
  BY <1>1, SumRemove
<1>3. SumFunctionOnSet(f, S \ {x}) = 0
  BY SumZeros, FS_RemoveElement
<1> QED BY <1>2, <1>3

\* A sum of opposites is the opposite of the sum.
LEMMA SumMinus ==
  ASSUME NEW S, IsFiniteSet(S), NEW f, NEW g, \A x \in S : f[x] \in Int /\ g[x] = -f[x]
  PROVE  SumFunctionOnSet(g, S) = -SumFunctionOnSet(f, S)
<1> DEFINE h == [x \in S |-> 0]
<1>1. SumFunctionOnSet(h, S) = SumFunctionOnSet(f, S) + SumFunctionOnSet(g, S)
  <2>1. \A x \in S : f[x] \in Int /\ g[x] \in Int /\ h[x] = f[x] + g[x]
    OBVIOUS
  <2> HIDE DEF h
  <2> QED BY <2>1, SumPlus
<1>2. SumFunctionOnSet(h, S) = 0
  <2>1. \A x \in S : h[x] = 0
    OBVIOUS
  <2> HIDE DEF h
  <2> QED BY <2>1, SumZeros
<1>3. SumFunctionOnSet(f, S) \in Int /\ SumFunctionOnSet(g, S) \in Int
  <2>1. \A x \in S : f[x] \in Int /\ g[x] \in Int
    OBVIOUS
  <2> QED BY <2>1, SumType
<1> QED BY <1>1, <1>2, <1>3

\* Naturals that add up to nothing are nothing, and none exceeds the sum.
LEMMA SumBounds ==
  ASSUME NEW S, IsFiniteSet(S), NEW f, \A x \in S : f[x] \in Nat, NEW x \in S
  PROVE  f[x] <= SumFunctionOnSet(f, S)
<1>1. SumFunctionOnSet(f, S) = f[x] + SumFunctionOnSet(f, S \ {x})
  BY SumRemove
<1>2. SumFunctionOnSet(f, S \ {x}) \in Nat
  BY SumType, FS_RemoveElement
<1> QED BY <1>1, <1>2

\* A table of integers with a row for each element of S and a column for each
\* of T, the same table by columns, and what its rows add up to.
Tables(a, b, S, T) == \A x \in S, y \in T : a[x][y] \in Int /\ b[y][x] = a[x][y]
RowSums(rows, a, S, T) == \A x \in S : rows[x] = SumFunctionOnSet(a[x], T)

\* Rows first or columns first.
LEMMA SumSwap ==
  ASSUME NEW S, IsFiniteSet(S), NEW T, IsFiniteSet(T), NEW a, NEW b, NEW rows, NEW columns,
         Tables(a, b, S, T), RowSums(rows, a, S, T), RowSums(columns, b, T, S)
  PROVE  SumFunctionOnSet(rows, S) = SumFunctionOnSet(columns, T)
<1> USE DEF Tables, RowSums
<1> DEFINE Row(U) == [x \in S |-> SumFunctionOnSet(a[x], U)]
           B == {U \in SUBSET T : SumFunctionOnSet(Row(U), S) /= SumFunctionOnSet(columns, U)}
<1>1. SUFFICES ASSUME B /= {} PROVE FALSE
  <2>1. SumFunctionOnSet(Row(T), S) = SumFunctionOnSet(rows, S)
    <3>1. \A x \in S : Row(T)[x] = rows[x]
      OBVIOUS
    <3> HIDE DEF Row
    <3> QED BY <3>1, SumSame
  <2>2. T \in SUBSET T
    OBVIOUS
  <2> HIDE DEF Row
  <2> QED BY <2>1, <2>2
<1>2. PICK U \in B : \A W \in B : W \subseteq U => W = U
  <2>1. B \in SUBSET (SUBSET T)
    OBVIOUS
  <2> HIDE DEF B
  <2> QED BY <1>1, <2>1, SmallestSubset
<1>3. \A y \in T : columns[y] \in Int
  <2> SUFFICES ASSUME NEW y \in T PROVE columns[y] \in Int
    OBVIOUS
  <2> DEFINE c == b[y]
  <2>1. \A x \in S : c[x] \in Int
    OBVIOUS
  <2>2. columns[y] = SumFunctionOnSet(c, S)
    OBVIOUS
  <2> HIDE DEF c
  <2> QED BY <2>1, <2>2, SumType
<1>4. PICK y \in U : TRUE
  <2>1. SumFunctionOnSet(Row({}), S) = 0
    <3>1. \A x \in S : Row({})[x] = 0
      BY SumEmpty
    <3> HIDE DEF Row
    <3> QED BY <3>1, SumZeros
  <2>2. SumFunctionOnSet(columns, {}) = 0
    BY SumEmpty
  <2> HIDE DEF Row
  <2> QED BY <1>2, <2>1, <2>2
<1> DEFINE V == U \ {y}
           c == b[y]
<1>5. /\ y \in T /\ U \in SUBSET T /\ V \in SUBSET T /\ IsFiniteSet(U) /\ IsFiniteSet(V)
      /\ V \subseteq U /\ V /= U
  BY <1>2, <1>4, FS_Subset
<1>6. SumFunctionOnSet(Row(V), S) = SumFunctionOnSet(columns, V)
  BY <1>2, <1>5
<1>7. \A x \in S : /\ c[x] \in Int /\ Row(V)[x] \in Int
                   /\ Row(U)[x] = c[x] + Row(V)[x]
  <2> SUFFICES ASSUME NEW x \in S
               PROVE  c[x] \in Int /\ Row(V)[x] \in Int /\ Row(U)[x] = c[x] + Row(V)[x]
    OBVIOUS
  <2>1. \A z \in U : a[x][z] \in Int
    BY <1>5
  <2>2. SumFunctionOnSet(a[x], U) = a[x][y] + SumFunctionOnSet(a[x], V)
    BY <1>4, <1>5, <2>1, SumRemove
  <2>3. SumFunctionOnSet(a[x], V) \in Int
    BY <1>5, <2>1, SumType
  <2> QED BY <1>5, <2>2, <2>3
<1>8. SumFunctionOnSet(Row(U), S) = SumFunctionOnSet(c, S) + SumFunctionOnSet(Row(V), S)
  <2> DEFINE r == Row(U)
             q == Row(V)
  <2>1. \A x \in S : c[x] \in Int /\ q[x] \in Int /\ r[x] = c[x] + q[x]
    BY <1>7
  <2> HIDE DEF Row, c, r, q
  <2>2. SumFunctionOnSet(r, S) = SumFunctionOnSet(c, S) + SumFunctionOnSet(q, S)
    BY <2>1, SumPlus
  <2> QED BY <2>2 DEF r, q
<1>9. SumFunctionOnSet(columns, U) = columns[y] + SumFunctionOnSet(columns, V)
  <2>1. \A z \in U : columns[z] \in Int
    BY <1>3, <1>5
  <2> QED BY <1>4, <1>5, <2>1, SumRemove
<1>10. columns[y] = SumFunctionOnSet(c, S)
  BY <1>5
<1> HIDE DEF Row, c, V
<1> QED BY <1>2, <1>6, <1>8, <1>9, <1>10

\* The image of a finite set is finite.
LEMMA ImageFinite ==
  ASSUME NEW S, IsFiniteSet(S), NEW f
  PROVE  IsFiniteSet({f[x] : x \in S})
<1> DEFINE T == {f[x] : x \in S}
           g == [x \in S |-> f[x]]
<1>1. g \in Surjection(S, T)
  BY DEF Surjection
<1> HIDE DEF g, T
<1>2. IsFiniteSet(T)
  BY <1>1, FS_Surjection
<1> QED BY <1>2 DEF T

-----------------------------------------------------------------------------
(* Numbers.                                                                *)

LEMMA LeastNumber ==
  ASSUME NEW m \in Nat, NEW B \in SUBSET (0..m), B /= {}
  PROVE  \E n \in B : \A k \in B : n <= k
<1> DEFINE R == {p \in B \X B : p[1] < p[2]}
<1>1. /\ \A x, y \in B : <<x, y>> \in R <=> x < y
      /\ \A x \in B : <<x, x>> \notin R
      /\ \A x, y, z \in B : <<x, y>> \in R /\ <<y, z>> \in R => <<x, z>> \in R
  OBVIOUS
<1>2. IsFiniteSet(B)
  <2>1. IsFiniteSet(0..m)
    BY FS_Interval
  <2> QED BY <2>1, FS_Subset
<1>3. PICK n \in B : \A y \in B : <<y, n>> \notin R
  <2> HIDE DEF R
  <2> QED BY <1>1, <1>2, MinimalElement
<1>4. \A k \in B : ~(k < n)
  <2> HIDE DEF R
  <2> QED BY <1>1, <1>3
<1> QED BY <1>4

LEMMA MaxIn ==
  ASSUME NEW T \in SUBSET Nat, IsFiniteSet(T), T /= {}
  PROVE  Max(T) \in T /\ \A y \in T : Max(T) >= y
BY MaxFacts DEF Max

\* A finite set of numbers and its parts.
Numbers(D) == D \subseteq Nat /\ IsFiniteSet(D)

LEMMA PartFacts ==
  ASSUME NEW D, Numbers(D), NEW T, T \subseteq D
  PROVE  Numbers(T) /\ (T /= {} => Max(T) \in T)
<1>1. T \in SUBSET Nat /\ IsFiniteSet(T)
  BY FS_Subset DEF Numbers
<1> QED BY <1>1, MaxIn DEF Numbers

LEMMA SmallestPart ==
  ASSUME NEW D, Numbers(D), NEW B, B \subseteq SUBSET D, B /= {}
  PROVE  \E T \in B : \A U \in B : U \subseteq T => U = T
<1>1. B \in SUBSET (SUBSET D) /\ IsFiniteSet(D)
  BY DEF Numbers
<1> QED BY <1>1, SmallestSubset

\* What holds at 0 and at the successor of each number it holds at, holds up
\* to m: induction for a set, where the library has it for an operator.
LEMMA Climb ==
  ASSUME NEW m \in Nat, NEW B \in SUBSET (0..m), 0 \in B,
         \A k \in 0..(m - 1) : k \in B => k + 1 \in B
  PROVE  B = 0..m
<1> DEFINE C == (0..m) \ B
<1>1. SUFFICES ASSUME C /= {} PROVE FALSE
  OBVIOUS
<1>2. PICK n \in C : \A k \in C : n <= k
  <2>1. C \in SUBSET (0..m)
    OBVIOUS
  <2> HIDE DEF C
  <2> QED BY <1>1, <2>1, LeastNumber
<1>3. n \in 0..m /\ n /= 0
  BY <1>2
<1>4. n - 1 \in 0..(m - 1) /\ n - 1 \in B
  <2>1. n - 1 \notin C
    <3> HIDE DEF C
    <3> QED BY <1>2, <1>3
  <2> QED BY <1>3, <2>1
<1>5. (n - 1) + 1 = n
  BY <1>3
<1> QED BY <1>2, <1>4, <1>5

\* A nonempty finite set of integers has a smallest and a largest element.
LEMMA MinMaxIn ==
  ASSUME NEW T \in SUBSET Int, IsFiniteSet(T), T /= {}
  PROVE  /\ Min(T) \in T /\ \A y \in T : Min(T) <= y
         /\ Max(T) \in T /\ \A y \in T : Max(T) >= y
<1> DEFINE R == {p \in T \X T : p[1] < p[2]}
           Q == {p \in T \X T : p[1] > p[2]}
<1>1. /\ \A x, y \in T : <<x, y>> \in R <=> x < y
      /\ \A x \in T : <<x, x>> \notin R
      /\ \A x, y, z \in T : <<x, y>> \in R /\ <<y, z>> \in R => <<x, z>> \in R
  OBVIOUS
<1>2. /\ \A x, y \in T : <<x, y>> \in Q <=> x > y
      /\ \A x \in T : <<x, x>> \notin Q
      /\ \A x, y, z \in T : <<x, y>> \in Q /\ <<y, z>> \in Q => <<x, z>> \in Q
  OBVIOUS
<1> HIDE DEF R, Q
<1>3. PICK m \in T : \A y \in T : <<y, m>> \notin R
  BY <1>1, MinimalElement
<1>4. PICK n \in T : \A y \in T : <<y, n>> \notin Q
  BY <1>2, MinimalElement
<1>5. \A y \in T : m <= y
  <2>1. \A y \in T : ~(y < m)
    BY <1>1, <1>3
  <2> QED BY <2>1
<1>6. \A y \in T : n >= y
  <2>1. \A y \in T : ~(y > n)
    BY <1>2, <1>4
  <2> QED BY <2>1
<1>7. Min(T) \in T /\ \A y \in T : Min(T) <= y
  BY <1>5 DEF Min
<1>8. Max(T) \in T /\ \A y \in T : Max(T) >= y
  BY <1>6 DEF Max
<1> QED BY <1>7, <1>8

\* A sum over a run of numbers may be taken over another run as long.
LEMMA SumShift ==
  ASSUME NEW m \in Nat, NEW k \in Nat, NEW f, NEW g,
         \A i \in 1..m : f[i + k] \in Int /\ g[i] = f[i + k]
  PROVE  SumFunctionOnSet(f, (k + 1)..(k + m)) = SumFunctionOnSet(g, 1..m)
<1> DEFINE F(n) == SumFunctionOnSet(f, (k + 1)..(k + n))
           G(n) == SumFunctionOnSet(g, 1..n)
           B == {n \in 0..m : F(n) = G(n)}
<1>1. 0 \in B
  <2>1. (k + 1)..(k + 0) = {} /\ 1..0 = {}
    OBVIOUS
  <2> QED BY <2>1, SumEmpty
<1>2. ASSUME NEW n \in 0..(m - 1), n \in B PROVE n + 1 \in B
  <2> DEFINE U == (k + 1)..(k + n)
             V == 1..n
             x == k + n + 1
  <2>1. IsFiniteSet(U) /\ IsFiniteSet(V)
    BY FS_Interval
  <2>2. /\ (k + 1)..(k + (n + 1)) = U \union {x} /\ x \notin U
        /\ 1..(n + 1) = V \union {n + 1} /\ n + 1 \notin V
    OBVIOUS
  <2>3. /\ \A y \in U \union {x} : f[y] \in Int
        /\ \A y \in V \union {n + 1} : g[y] \in Int
        /\ f[x] = g[n + 1]
    <3>1. ASSUME NEW y \in U \union {x} PROVE f[y] \in Int
      <4>1. y - k \in 1..m /\ (y - k) + k = y
        OBVIOUS
      <4> QED BY <4>1
    <3>2. \A y \in V \union {n + 1} : y \in 1..m
      OBVIOUS
    <3>3. n + 1 \in 1..m /\ (n + 1) + k = x
      OBVIOUS
    <3> QED BY <3>1, <3>2, <3>3
  <2> HIDE DEF U, V, x
  <2>4. SumFunctionOnSet(f, U \union {x}) = f[x] + SumFunctionOnSet(f, U)
    BY <2>1, <2>2, <2>3, SumAdd
  <2>5. SumFunctionOnSet(g, V \union {n + 1}) = g[n + 1] + SumFunctionOnSet(g, V)
    BY <2>1, <2>2, <2>3, SumAdd
  <2>6. F(n) = SumFunctionOnSet(f, U) /\ G(n) = SumFunctionOnSet(g, V)
    BY DEF U, V
  <2>7. F(n + 1) = SumFunctionOnSet(f, U \union {x}) /\ G(n + 1) = SumFunctionOnSet(g, V \union {n + 1})
    BY <2>2
  <2>8. F(n) = G(n)
    BY <1>2
  <2> HIDE DEF F, G
  <2>9. F(n + 1) = G(n + 1)
    BY <2>3, <2>4, <2>5, <2>6, <2>7, <2>8
  <2> QED BY <2>9
<1> HIDE DEF F, G
<1>3. B = 0..m
  <2>1. B \in SUBSET (0..m)
    OBVIOUS
  <2> HIDE DEF B
  <2> QED BY <1>1, <1>2, <2>1, Climb
<1>4. F(m) = G(m)
  BY <1>3
<1> QED BY <1>4 DEF F, G
=============================================================================
