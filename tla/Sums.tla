-------------------------------- MODULE Sums --------------------------------
(***************************************************************************)
(* Sums over finite sets, for the proofs about ledgers.  SumOf adds the    *)
(* values of a function with MapThenSumSet; the lemmas say that the sum    *)
(* does not depend on the order in which MapThenSumSet takes the elements. *)
(*                                                                         *)
(* A statement about all finite sets is proved by looking at a smallest    *)
(* set for which it fails.                                                 *)
(***************************************************************************)
EXTENDS Integers, FiniteSets, FiniteSetsExt, FiniteSetTheorems,
        WellFoundedInduction, TLAPS

SumOf(f, S) == MapThenSumSet(LAMBDA x : f[x], S)

\* The element MapThenSumSet takes next.
NextOf(s) == CHOOSE x \in s : TRUE

\* g holds the sum of f over every subset of S, as MapThenSumSet computes it.
Adds(g, f, S) ==
    g = [s \in SUBSET S |->
            IF s = {} THEN 0 ELSE f[NextOf(s)] + g[s \ {NextOf(s)}]]

LEMMA NextOfIn ==
  ASSUME NEW s, s # {}
  PROVE  NextOf(s) \in s
  BY DEF NextOf

\* A collection of finite sets that is not empty has a smallest member.
LEMMA SmallestSet ==
  ASSUME NEW S, IsFiniteSet(S), NEW B \in SUBSET (SUBSET S), B # {}
  PROVE  \E U \in B : \A V \in B : ~(V \subseteq U /\ V # U)
  <1>1. FiniteSubsetsOf(S) = SUBSET S
    BY FS_FiniteSubsetsOfFinite
  <1>2. IsWellFoundedOn(StrictSubsetOrdering(S), SUBSET S)
    BY <1>1, FS_StrictSubsetOrderingWellFounded
  <1>3. PICK U \in B : \A V \in B : ~(<<V, U>> \in StrictSubsetOrdering(S))
    BY <1>2, WFMin
  <1>4. ASSUME NEW V \in B PROVE ~(V \subseteq U /\ V # U)
    BY <1>3, <1>4 DEF StrictSubsetOrdering
  <1>5. QED
    BY <1>4

LEMMA AddsAt ==
  ASSUME NEW g, NEW f, NEW S, Adds(g, f, S), NEW U \in SUBSET S
  PROVE  g[U] = IF U = {} THEN 0 ELSE f[NextOf(U)] + g[U \ {NextOf(U)}]
  BY DEF Adds

\* Two ways to add up f agree wherever both are defined.
LEMMA AddsUnique ==
  ASSUME NEW f, NEW S, NEW T, IsFiniteSet(S), NEW g, NEW h,
         Adds(g, f, S), Adds(h, f, T), S \subseteq T
  PROVE  \A U \in SUBSET S : g[U] = h[U]
  <1> DEFINE Bad == {U \in SUBSET S : g[U] # h[U]}
  <1> SUFFICES ASSUME Bad # {} PROVE FALSE
    OBVIOUS
  <1>0. Bad \in SUBSET (SUBSET S)
    OBVIOUS
  <1>1. PICK U \in Bad : \A V \in Bad : ~(V \subseteq U /\ V # U)
    <2> HIDE DEF Bad
    <2>1. QED
      BY <1>0, SmallestSet
  <1>2. U \in SUBSET S /\ U \in SUBSET T
    OBVIOUS
  <1>3. CASE U = {}
    BY <1>2, <1>3, AddsAt
  <1>4. CASE U # {}
    <2> DEFINE x == NextOf(U)
    <2>1. x \in U
      BY <1>4, NextOfIn
    <2>2. g[U \ {x}] = h[U \ {x}]
      BY <1>1, <1>2, <2>1
    <2>3. g[U] = f[x] + g[U \ {x}] /\ h[U] = f[x] + h[U \ {x}]
      BY <1>2, <1>4, AddsAt
    <2>4. QED
      BY <2>2, <2>3
  <1>5. QED
    BY <1>3, <1>4

LEMMA AddsRestricts ==
  ASSUME NEW f, NEW S, NEW g, Adds(g, f, S), NEW T \in SUBSET S
  PROVE  \E h : Adds(h, f, T) /\ h[T] = g[T]
  <1> DEFINE h == [s \in SUBSET T |-> g[s]]
  <1>1. ASSUME NEW s \in SUBSET T
        PROVE  g[s] = IF s = {} THEN 0 ELSE f[NextOf(s)] + g[s \ {NextOf(s)}]
    BY <1>1, AddsAt
  <1>2. \A s \in SUBSET T : s \ {NextOf(s)} \in SUBSET T
    OBVIOUS
  <1>3. Adds(h, f, T)
    BY <1>1, <1>2 DEF Adds
  <1>4. h[T] = g[T]
    OBVIOUS
  <1>5. QED
    BY <1>3, <1>4

\* Every finite set can be added up.
LEMMA AddsExists ==
  ASSUME NEW f, NEW S, IsFiniteSet(S)
  PROVE  \E g : Adds(g, f, S)
  <1> DEFINE Bad == {U \in SUBSET S : ~\E g : Adds(g, f, U)}
  <1> SUFFICES ASSUME Bad # {} PROVE FALSE
    OBVIOUS
  <1>0. Bad \in SUBSET (SUBSET S)
    OBVIOUS
  <1>1. PICK U \in Bad : \A V \in Bad : ~(V \subseteq U /\ V # U)
    <2> HIDE DEF Bad
    <2>1. QED
      BY <1>0, SmallestSet
  <1>2. \A V \in SUBSET U : V # U => \E g : Adds(g, f, V)
    BY <1>1
  <1> DEFINE G(V) == CHOOSE g : Adds(g, f, V)
             x == NextOf(U)
             k == [s \in SUBSET U |->
                      IF s = U /\ U # {} THEN f[x] + G(U \ {x})[U \ {x}]
                      ELSE IF s = {} THEN 0 ELSE G(s)[s]]
  <1>3. \A V \in SUBSET U : V # U => Adds(G(V), f, V)
    BY <1>2
  <1>4. \A V \in SUBSET U : V # U => IsFiniteSet(V)
    BY FS_Subset
  <1>5. ASSUME NEW s \in SUBSET U
        PROVE  k[s] = IF s = {} THEN 0 ELSE f[NextOf(s)] + k[s \ {NextOf(s)}]
    <2>1. CASE s = {}
      BY <2>1
    <2>2. CASE s # {}
      <3> DEFINE y == NextOf(s)
                 r == s \ {y}
      <3>1. y \in s /\ r \in SUBSET U /\ r # U /\ r # s
        BY <2>2, NextOfIn
      <3>2. k[r] = G(r)[r]
        <4>1. CASE r = {}
          <5>1. Adds(G(r), f, r)
            BY <1>3, <3>1
          <5>2. G(r)[r] = 0
            BY <4>1, <5>1, AddsAt
          <5>3. QED
            BY <3>1, <4>1, <5>2
        <4>2. CASE r # {}
          BY <3>1, <4>2
        <4>3. QED
          BY <4>1, <4>2
      <3>3. k[s] = f[y] + G(r)[r]
        <4>1. CASE s = U
          BY <2>2, <4>1
        <4>2. CASE s # U
          <5>1. Adds(G(s), f, s) /\ Adds(G(r), f, r)
            BY <1>3, <3>1, <4>2
          <5>2. G(s)[s] = f[y] + G(s)[r]
            BY <2>2, <5>1, AddsAt
          <5>3. G(r)[r] = G(s)[r]
            BY <1>4, <3>1, <5>1, AddsUnique
          <5>4. k[s] = G(s)[s]
            BY <2>2, <4>2
          <5>5. QED
            BY <5>2, <5>3, <5>4
        <4>3. QED
          BY <4>1, <4>2
      <3>4. QED
        BY <2>2, <3>2, <3>3
    <2>3. QED
      BY <2>1, <2>2
  <1> HIDE DEF G
  <1>6. k = [s \in SUBSET U |-> k[s]]
    OBVIOUS
  <1>7. Adds(k, f, U)
    <2> HIDE DEF k
    <2>1. QED
      BY <1>5, <1>6 DEF Adds
  <1>8. QED
    BY <1>1, <1>7

\* Whatever expression MapThenSumSet adds up, it is the sum of the function
\* with these values: the form in which a sum of the model is brought here.
LEMMA SumIs ==
  ASSUME NEW f, NEW S, IsFiniteSet(S), NEW g, Adds(g, f, S)
  PROVE  SumOf(f, S) = g[S]
  <1>1. \E h : Adds(h, f, S) /\ SumOf(f, S) = h[S]
    BY DEF SumOf, MapThenSumSet, MapThenFoldSet, Adds, NextOf
  <1>2. QED
    BY <1>1, AddsUnique

\* One function holds the sums of f over all subsets of S.
LEMMA SumsOfSubsets ==
  ASSUME NEW f, NEW S, IsFiniteSet(S)
  PROVE  \E g : Adds(g, f, S) /\ \A U \in SUBSET S : SumOf(f, U) = g[U]
  <1>1. PICK g : Adds(g, f, S)
    BY AddsExists
  <1>2. ASSUME NEW U \in SUBSET S PROVE SumOf(f, U) = g[U]
    <2>1. PICK h : Adds(h, f, U) /\ h[U] = g[U]
      BY <1>1, AddsRestricts
    <2>2. IsFiniteSet(U)
      BY FS_Subset
    <2>3. QED
      BY <2>1, <2>2, SumIs
  <1>3. QED
    BY <1>1, <1>2

LEMMA SumEmpty ==
  ASSUME NEW f
  PROVE  SumOf(f, {}) = 0
  <1>1. PICK g : Adds(g, f, {}) /\ \A U \in SUBSET {} : SumOf(f, U) = g[U]
    BY SumsOfSubsets, FS_EmptySet
  <1>2. QED
    BY <1>1, AddsAt

LEMMA SumNext ==
  ASSUME NEW f, NEW S, IsFiniteSet(S), S # {}
  PROVE  SumOf(f, S) = f[NextOf(S)] + SumOf(f, S \ {NextOf(S)})
  <1>1. PICK g : Adds(g, f, S) /\ \A U \in SUBSET S : SumOf(f, U) = g[U]
    BY SumsOfSubsets
  <1>2. g[S] = f[NextOf(S)] + g[S \ {NextOf(S)}]
    BY <1>1, AddsAt
  <1>3. QED
    BY <1>1, <1>2

\* A sum of integers is an integer.
LEMMA SumType ==
  ASSUME NEW f, NEW S, IsFiniteSet(S), \A x \in S : f[x] \in Int
  PROVE  SumOf(f, S) \in Int
  <1> DEFINE Bad == {U \in SUBSET S : SumOf(f, U) \notin Int}
  <1> SUFFICES ASSUME Bad # {} PROVE FALSE
    OBVIOUS
  <1>0. Bad \in SUBSET (SUBSET S)
    OBVIOUS
  <1>1. PICK U \in Bad : \A V \in Bad : ~(V \subseteq U /\ V # U)
    <2> HIDE DEF Bad
    <2>1. QED
      BY <1>0, SmallestSet
  <1>2. U # {}
    BY SumEmpty
  <1>3. IsFiniteSet(U) /\ NextOf(U) \in U
    BY <1>2, NextOfIn, FS_Subset
  <1>4. SumOf(f, U \ {NextOf(U)}) \in Int
    BY <1>1, <1>3
  <1>5. f[NextOf(U)] \in Int
    BY <1>3
  <1>6. SumOf(f, U) = f[NextOf(U)] + SumOf(f, U \ {NextOf(U)})
    BY <1>2, <1>3, SumNext
  <1>7. QED
    BY <1>4, <1>5, <1>6

\* A sum depends on the values of the function in the set only.
LEMMA SumAgree ==
  ASSUME NEW f, NEW h, NEW S, IsFiniteSet(S), \A x \in S : f[x] = h[x]
  PROVE  SumOf(f, S) = SumOf(h, S)
  <1> DEFINE Bad == {U \in SUBSET S : SumOf(f, U) # SumOf(h, U)}
  <1> SUFFICES ASSUME Bad # {} PROVE FALSE
    OBVIOUS
  <1>0. Bad \in SUBSET (SUBSET S)
    OBVIOUS
  <1>1. PICK U \in Bad : \A V \in Bad : ~(V \subseteq U /\ V # U)
    <2> HIDE DEF Bad
    <2>1. QED
      BY <1>0, SmallestSet
  <1>2. U # {}
    BY SumEmpty
  <1>3. IsFiniteSet(U) /\ NextOf(U) \in U
    BY <1>2, NextOfIn, FS_Subset
  <1>4. SumOf(f, U \ {NextOf(U)}) = SumOf(h, U \ {NextOf(U)})
    BY <1>1, <1>3
  <1>5. /\ SumOf(f, U) = f[NextOf(U)] + SumOf(f, U \ {NextOf(U)})
        /\ SumOf(h, U) = h[NextOf(U)] + SumOf(h, U \ {NextOf(U)})
    BY <1>2, <1>3, SumNext
  <1>6. QED
    BY <1>3, <1>4, <1>5

\* Any element may be taken first.
LEMMA SumRemove ==
  ASSUME NEW f, NEW S, IsFiniteSet(S), \A x \in S : f[x] \in Int,
         NEW e \in S
  PROVE  SumOf(f, S) = f[e] + SumOf(f, S \ {e})
  <1> DEFINE Bad == {U \in SUBSET S :
                       \E x \in U : SumOf(f, U) # f[x] + SumOf(f, U \ {x})}
  <1> SUFFICES ASSUME Bad # {} PROVE FALSE
    OBVIOUS
  <1>0. Bad \in SUBSET (SUBSET S)
    OBVIOUS
  <1>1. PICK U \in Bad : \A V \in Bad : ~(V \subseteq U /\ V # U)
    <2> HIDE DEF Bad
    <2>1. QED
      BY <1>0, SmallestSet
  <1>2. PICK x \in U : SumOf(f, U) # f[x] + SumOf(f, U \ {x})
    OBVIOUS
  <1>3. \A V \in SUBSET U : \A z \in V :
           V # U => SumOf(f, V) = f[z] + SumOf(f, V \ {z})
    BY <1>1
  <1> HIDE DEF Bad
  <1>4. U \in SUBSET S /\ U # {} /\ x \in U
    BY <1>0, <1>2
  <1> DEFINE y == NextOf(U)
  <1>5. y \in U
    BY <1>4, NextOfIn
  <1> HIDE DEF y
  <1>6. IsFiniteSet(U)
    BY <1>4, FS_Subset
  <1>7. SumOf(f, U) = f[y] + SumOf(f, U \ {y})
    BY <1>4, <1>6, SumNext DEF y
  <1>8. x # y
    BY <1>2, <1>7
  <1>9. SumOf(f, U \ {y}) = f[x] + SumOf(f, (U \ {y}) \ {x})
    BY <1>3, <1>4, <1>5, <1>8
  <1>10. SumOf(f, U \ {x}) = f[y] + SumOf(f, (U \ {x}) \ {y})
    BY <1>3, <1>4, <1>5, <1>8
  <1>11. (U \ {y}) \ {x} = (U \ {x}) \ {y}
    OBVIOUS
  <1>12. f[x] \in Int /\ f[y] \in Int
    BY <1>4, <1>5
  <1>13. SumOf(f, (U \ {x}) \ {y}) \in Int
    <2>1. (U \ {x}) \ {y} \in SUBSET S
      BY <1>4
    <2>2. IsFiniteSet((U \ {x}) \ {y})
      BY <2>1, FS_Subset
    <2>3. \A z \in (U \ {x}) \ {y} : f[z] \in Int
      BY <2>1
    <2>4. QED
      BY <2>2, <2>3, SumType
  <1> DEFINE rest == SumOf(f, (U \ {x}) \ {y})
  <1>14. SumOf(f, U) = f[y] + (f[x] + rest)
    BY <1>7, <1>9, <1>11
  <1>15. f[x] + SumOf(f, U \ {x}) = f[x] + (f[y] + rest)
    BY <1>10
  <1>16. rest \in Int
    BY <1>13
  <1> HIDE DEF rest
  <1>17. f[y] + (f[x] + rest) = f[x] + (f[y] + rest)
    BY <1>12, <1>16
  <1>18. QED
    BY <1>2, <1>14, <1>15, <1>17

\* Changing one value changes the sum by as much.
LEMMA SumChange ==
  ASSUME NEW f, NEW h, NEW S, IsFiniteSet(S), NEW e \in S,
         \A x \in S : f[x] \in Int /\ h[x] \in Int,
         \A x \in S : x # e => h[x] = f[x]
  PROVE  SumOf(h, S) = SumOf(f, S) + h[e] - f[e]
  <1>1. IsFiniteSet(S \ {e})
    BY FS_Subset
  <1>2. SumOf(h, S \ {e}) = SumOf(f, S \ {e})
    BY <1>1, SumAgree
  <1>3. SumOf(h, S) = h[e] + SumOf(h, S \ {e})
    BY SumRemove
  <1>4. SumOf(f, S) = f[e] + SumOf(f, S \ {e})
    BY SumRemove
  <1>5. SumOf(f, S \ {e}) \in Int
    BY <1>1, SumType
  <1>6. QED
    BY <1>2, <1>3, <1>4, <1>5

\* A sum of naturals is a natural, and no less than any of them.
LEMMA SumOfNaturals ==
  ASSUME NEW f, NEW S, IsFiniteSet(S), \A x \in S : f[x] \in Nat
  PROVE  SumOf(f, S) \in Nat /\ \A x \in S : f[x] <= SumOf(f, S)
  <1> DEFINE Bad == {U \in SUBSET S : SumOf(f, U) \notin Nat}
  <1>1. Bad = {}
    <2> SUFFICES ASSUME Bad # {} PROVE FALSE
      OBVIOUS
    <2>0. Bad \in SUBSET (SUBSET S)
      OBVIOUS
    <2>1. PICK U \in Bad : \A V \in Bad : ~(V \subseteq U /\ V # U)
      <3> HIDE DEF Bad
      <3>1. QED
        BY <2>0, SmallestSet
    <2>2. U # {}
      BY SumEmpty
    <2>3. IsFiniteSet(U) /\ NextOf(U) \in U
      BY <2>2, NextOfIn, FS_Subset
    <2>4. SumOf(f, U \ {NextOf(U)}) \in Nat /\ f[NextOf(U)] \in Nat
      BY <2>1, <2>3
    <2>5. SumOf(f, U) = f[NextOf(U)] + SumOf(f, U \ {NextOf(U)})
      BY <2>2, <2>3, SumNext
    <2>6. QED
      BY <2>4, <2>5
  <1>2. \A U \in SUBSET S : SumOf(f, U) \in Nat
    BY <1>1
  <1>3. ASSUME NEW x \in S PROVE f[x] <= SumOf(f, S)
    <2>1. SumOf(f, S) = f[x] + SumOf(f, S \ {x})
      BY SumRemove
    <2>2. SumOf(f, S \ {x}) \in Nat /\ f[x] \in Nat
      BY <1>2
    <2>3. QED
      BY <2>1, <2>2
  <1>4. QED
    BY <1>2, <1>3

\* A sum of zeros.
LEMMA SumZero ==
  ASSUME NEW f, NEW S, IsFiniteSet(S), \A x \in S : f[x] = 0
  PROVE  SumOf(f, S) = 0
  <1> DEFINE Bad == {U \in SUBSET S : SumOf(f, U) # 0}
  <1> SUFFICES ASSUME Bad # {} PROVE FALSE
    OBVIOUS
  <1>0. Bad \in SUBSET (SUBSET S)
    OBVIOUS
  <1>1. PICK U \in Bad : \A V \in Bad : ~(V \subseteq U /\ V # U)
    <2> HIDE DEF Bad
    <2>1. QED
      BY <1>0, SmallestSet
  <1>2. U # {}
    BY SumEmpty
  <1>3. IsFiniteSet(U) /\ NextOf(U) \in U
    BY <1>2, NextOfIn, FS_Subset
  <1>4. SumOf(f, U \ {NextOf(U)}) = 0 /\ f[NextOf(U)] = 0
    BY <1>1, <1>3
  <1>5. SumOf(f, U) = f[NextOf(U)] + SumOf(f, U \ {NextOf(U)})
    BY <1>2, <1>3, SumNext
  <1>6. QED
    BY <1>4, <1>5

\* If every value of h is at least k times that of f, so is the sum.
LEMMA SumScaled ==
  ASSUME NEW f, NEW h, NEW S, IsFiniteSet(S), NEW k \in Nat,
         \A x \in S : f[x] \in Int /\ h[x] \in Int /\ k * f[x] <= h[x]
  PROVE  k * SumOf(f, S) <= SumOf(h, S)
  <1> DEFINE Bad == {U \in SUBSET S : ~(k * SumOf(f, U) <= SumOf(h, U))}
  <1> SUFFICES ASSUME Bad # {} PROVE FALSE
    OBVIOUS
  <1>0. Bad \in SUBSET (SUBSET S)
    OBVIOUS
  <1>1. PICK U \in Bad : \A V \in Bad : ~(V \subseteq U /\ V # U)
    <2> HIDE DEF Bad
    <2>1. QED
      BY <1>0, SmallestSet
  <1>2. U # {}
    <2>1. k * 0 <= 0
      OBVIOUS
    <2>2. QED
      BY <2>1, SumEmpty
  <1> DEFINE x == NextOf(U)
             a == SumOf(f, U \ {x})
             b == SumOf(h, U \ {x})
  <1>3. IsFiniteSet(U) /\ x \in U /\ x \in S
    BY <1>2, NextOfIn, FS_Subset
  <1>4. k * a <= b
    BY <1>1, <1>3
  <1>5. SumOf(f, U) = f[x] + a /\ SumOf(h, U) = h[x] + b
    BY <1>2, <1>3, SumNext
  <1>6. a \in Int /\ b \in Int
    <2>1. IsFiniteSet(U \ {x}) /\ U \ {x} \in SUBSET S
      BY <1>3, FS_Subset
    <2>2. QED
      BY <2>1, SumType
  <1>7. f[x] \in Int /\ h[x] \in Int /\ k * f[x] <= h[x]
    BY <1>3
  <1>8. ~(k * SumOf(f, U) <= SumOf(h, U))
    OBVIOUS
  <1> HIDE DEF a, b, x
  <1>9. k * (f[x] + a) = k * f[x] + k * a
    BY <1>6, <1>7
  <1>10. k * (f[x] + a) <= h[x] + b
    BY <1>4, <1>6, <1>7, <1>9
  <1>11. QED
    BY <1>5, <1>8, <1>10

\* The sum of values that are sums.
LEMMA SumPlus ==
  ASSUME NEW f, NEW g, NEW h, NEW S, IsFiniteSet(S),
         \A x \in S : f[x] \in Int /\ g[x] \in Int /\ h[x] = f[x] + g[x]
  PROVE  SumOf(h, S) = SumOf(f, S) + SumOf(g, S)
  <1> DEFINE Bad == {U \in SUBSET S : SumOf(h, U) # SumOf(f, U) + SumOf(g, U)}
  <1> SUFFICES ASSUME Bad # {} PROVE FALSE
    OBVIOUS
  <1>0. Bad \in SUBSET (SUBSET S)
    OBVIOUS
  <1>1. PICK U \in Bad : \A V \in Bad : ~(V \subseteq U /\ V # U)
    <2> HIDE DEF Bad
    <2>1. QED
      BY <1>0, SmallestSet
  <1>2. U # {}
    <2>1. SumOf(h, {}) = SumOf(f, {}) + SumOf(g, {})
      BY SumEmpty
    <2>2. {} \notin Bad
      BY <2>1
    <2>3. QED
      BY <2>2
  <1> DEFINE e == NextOf(U)
             R == U \ {e}
  <1>3. IsFiniteSet(U) /\ e \in U /\ IsFiniteSet(R) /\ e \in S
    BY <1>2, NextOfIn, FS_Subset
  <1>4. SumOf(h, R) = SumOf(f, R) + SumOf(g, R)
    BY <1>1, <1>3
  <1>5. /\ SumOf(h, U) = h[e] + SumOf(h, R) /\ SumOf(f, U) = f[e] + SumOf(f, R)
        /\ SumOf(g, U) = g[e] + SumOf(g, R)
    BY <1>2, <1>3, SumNext
  <1>6. SumOf(f, R) \in Int /\ SumOf(g, R) \in Int /\ f[e] \in Int /\ g[e] \in Int
    BY <1>3, SumType
  <1>7. SumOf(h, U) = SumOf(f, U) + SumOf(g, U)
    BY <1>3, <1>4, <1>5, <1>6
  <1>8. QED
    BY <1>1, <1>7

\* A multiple of every value makes a multiple of the sum.
LEMMA SumTimes ==
  ASSUME NEW f, NEW h, NEW S, IsFiniteSet(S), NEW k \in Int,
         \A x \in S : f[x] \in Int /\ h[x] = k * f[x]
  PROVE  SumOf(h, S) = k * SumOf(f, S)
  <1> DEFINE Bad == {U \in SUBSET S : SumOf(h, U) # k * SumOf(f, U)}
  <1> SUFFICES ASSUME Bad # {} PROVE FALSE
    OBVIOUS
  <1>0. Bad \in SUBSET (SUBSET S)
    OBVIOUS
  <1>1. PICK U \in Bad : \A V \in Bad : ~(V \subseteq U /\ V # U)
    <2> HIDE DEF Bad
    <2>1. QED
      BY <1>0, SmallestSet
  <1>2. U # {}
    <2>1. SumOf(h, {}) = 0 /\ SumOf(f, {}) = 0 /\ k * 0 = 0
      BY SumEmpty
    <2>2. {} \notin Bad
      BY <2>1
    <2>3. QED
      BY <2>2
  <1> DEFINE e == NextOf(U)
             R == U \ {e}
  <1>3. IsFiniteSet(U) /\ e \in U /\ IsFiniteSet(R) /\ e \in S
    BY <1>2, NextOfIn, FS_Subset
  <1>4. SumOf(h, R) = k * SumOf(f, R)
    BY <1>1, <1>3
  <1>5. SumOf(h, U) = h[e] + SumOf(h, R) /\ SumOf(f, U) = f[e] + SumOf(f, R)
    BY <1>2, <1>3, SumNext
  <1>6. SumOf(f, R) \in Int /\ f[e] \in Int /\ h[e] = k * f[e]
    BY <1>3, SumType
  <1>7. ASSUME NEW x \in Int, NEW y \in Int PROVE k * x + k * y = k * (x + y)
    OBVIOUS
  <1>8. k * f[e] + k * SumOf(f, R) = k * (f[e] + SumOf(f, R))
    BY <1>6, <1>7
  <1>9. SumOf(h, U) = k * SumOf(f, U)
    BY <1>4, <1>5, <1>6, <1>8
  <1>10. QED
    BY <1>1, <1>9

\* The sum over two sets that share nothing.
LEMMA SumUnion ==
  ASSUME NEW f, NEW A, NEW B, IsFiniteSet(A), IsFiniteSet(B), A \cap B = {},
         \A x \in A \cup B : f[x] \in Int
  PROVE  SumOf(f, A \cup B) = SumOf(f, A) + SumOf(f, B)
  <1> DEFINE Bad == {V \in SUBSET B : SumOf(f, A \cup V) # SumOf(f, A) + SumOf(f, V)}
  <1> SUFFICES ASSUME Bad # {} PROVE FALSE
    OBVIOUS
  <1>0. Bad \in SUBSET (SUBSET B)
    OBVIOUS
  <1>1. PICK U \in Bad : \A V \in Bad : ~(V \subseteq U /\ V # U)
    <2> HIDE DEF Bad
    <2>1. QED
      BY <1>0, SmallestSet
  <1>2. SumOf(f, A) \in Int
    BY SumType
  <1>3. U # {}
    <2>1. A \cup {} = A /\ SumOf(f, {}) = 0 /\ SumOf(f, A) + 0 = SumOf(f, A)
      BY <1>2, SumEmpty
    <2>2. {} \notin Bad
      BY <2>1
    <2>3. QED
      BY <2>2
  <1>4. PICK e \in U : TRUE
    BY <1>3
  <1> DEFINE R == U \ {e}
  <1>5. /\ IsFiniteSet(U) /\ IsFiniteSet(R) /\ e \in B /\ e \notin A
        /\ IsFiniteSet(A \cup U) /\ (A \cup U) \ {e} = A \cup R
    <2>1. IsFiniteSet(U) /\ IsFiniteSet(R)
      BY FS_Subset
    <2>2. e \in B /\ e \notin A /\ (A \cup U) \ {e} = A \cup R
      OBVIOUS
    <2>3. IsFiniteSet(A \cup U)
      BY <2>1, FS_Union
    <2>4. QED
      BY <2>1, <2>2, <2>3
  <1>6. SumOf(f, A \cup R) = SumOf(f, A) + SumOf(f, R)
    BY <1>1
  <1>7. SumOf(f, A \cup U) = f[e] + SumOf(f, A \cup R)
    <2>1. e \in A \cup U /\ \A x \in A \cup U : f[x] \in Int
      OBVIOUS
    <2>2. SumOf(f, A \cup U) = f[e] + SumOf(f, (A \cup U) \ {e})
      BY <1>5, <2>1, SumRemove
    <2>3. QED
      BY <1>5, <2>2
  <1>8. SumOf(f, U) = f[e] + SumOf(f, R)
    BY <1>5, SumRemove
  <1>9. SumOf(f, R) \in Int /\ f[e] \in Int
    BY <1>5, SumType
  <1>10. SumOf(f, A \cup U) = SumOf(f, A) + SumOf(f, U)
    BY <1>2, <1>6, <1>7, <1>8, <1>9
  <1>11. QED
    BY <1>1, <1>10

\* The sum over the union of the parts P[i] is the sum of their sums.
LEMMA SumOfParts ==
  ASSUME NEW f, NEW I, NEW P, NEW h, IsFiniteSet(I), IsFiniteSet(UNION {P[i] : i \in I}),
         \A i, j \in I : i # j => P[i] \cap P[j] = {},
         \A i \in I : h[i] = SumOf(f, P[i]),
         \A x \in UNION {P[i] : i \in I} : f[x] \in Int
  PROVE  SumOf(f, UNION {P[i] : i \in I}) = SumOf(h, I)
  <1> DEFINE All(J) == UNION {P[i] : i \in J}
             Bad == {J \in SUBSET I : SumOf(f, All(J)) # SumOf(h, J)}
  <1> SUFFICES ASSUME Bad # {} PROVE FALSE
    OBVIOUS
  <1>0. Bad \in SUBSET (SUBSET I)
    OBVIOUS
  <1>1. PICK U \in Bad : \A V \in Bad : ~(V \subseteq U /\ V # U)
    <2> HIDE DEF Bad
    <2>1. QED
      BY <1>0, SmallestSet
  <1>2. U \in SUBSET I /\ SumOf(f, All(U)) # SumOf(h, U)
    OBVIOUS
  <1>3. \A e \in U : SumOf(f, All(U \ {e})) = SumOf(h, U \ {e})
    BY <1>1
  <1> HIDE DEF Bad
  <1>4. \A J \in SUBSET I : IsFiniteSet(All(J)) /\ \A x \in All(J) : f[x] \in Int
    <2> SUFFICES ASSUME NEW J \in SUBSET I
                 PROVE  IsFiniteSet(All(J)) /\ \A x \in All(J) : f[x] \in Int
      OBVIOUS
    <2>1. All(J) \subseteq UNION {P[i] : i \in I}
      OBVIOUS
    <2>2. QED
      BY <2>1, FS_Subset
  <1>5. U # {}
    <2>1. All({}) = {}
      OBVIOUS
    <2>2. QED
      BY <1>2, <2>1, SumEmpty
  <1>6. PICK e \in U : TRUE
    BY <1>5
  <1> DEFINE R == U \ {e}
  <1>7. R \in SUBSET I /\ e \in I /\ IsFiniteSet(U)
    BY <1>2, FS_Subset
  <1>8. All(U) = All(R) \cup P[e] /\ P[e] \subseteq All(U)
    OBVIOUS
  <1>9. All(R) \cap P[e] = {}
    BY <1>2, <1>6
  <1>10. IsFiniteSet(All(R)) /\ IsFiniteSet(P[e]) /\ \A x \in All(R) \cup P[e] : f[x] \in Int
    BY <1>2, <1>4, <1>7, <1>8, FS_Subset
  <1>11. SumOf(f, All(U)) = SumOf(f, All(R)) + SumOf(f, P[e])
    <2> HIDE DEF All, R
    <2>1. QED
      BY <1>8, <1>9, <1>10, SumUnion
  <1>12. SumOf(f, All(R)) = SumOf(h, R) /\ h[e] = SumOf(f, P[e])
    BY <1>3, <1>6, <1>7
  <1>13. \A i \in U : h[i] \in Int
    <2> SUFFICES ASSUME NEW i \in U PROVE SumOf(f, P[i]) \in Int
      BY <1>2
    <2>1. P[i] \subseteq All(U)
      OBVIOUS
    <2>2. IsFiniteSet(P[i]) /\ \A x \in P[i] : f[x] \in Int
      BY <1>2, <1>4, <2>1, FS_Subset
    <2>3. QED
      BY <2>2, SumType
  <1>14. SumOf(h, U) = h[e] + SumOf(h, R)
    BY <1>6, <1>7, <1>13, SumRemove
  <1>15. SumOf(h, R) \in Int /\ h[e] \in Int
    BY <1>6, <1>7, <1>13, SumType, FS_Subset
  <1>16. SumOf(f, All(U)) = SumOf(h, U)
    BY <1>11, <1>12, <1>14, <1>15
  <1>17. QED
    BY <1>2, <1>16

\* A sum of values of at most k each.
LEMMA SumAtMost ==
  ASSUME NEW f, NEW S, IsFiniteSet(S), NEW k \in Nat, \A x \in S : f[x] \in Nat /\ f[x] <= k
  PROVE  SumOf(f, S) <= k * Cardinality(S)
  <1> DEFINE Bad == {U \in SUBSET S : ~(SumOf(f, U) <= k * Cardinality(U))}
  <1> SUFFICES ASSUME Bad # {} PROVE FALSE
    OBVIOUS
  <1>0. Bad \in SUBSET (SUBSET S)
    OBVIOUS
  <1>1. PICK U \in Bad : \A V \in Bad : ~(V \subseteq U /\ V # U)
    <2> HIDE DEF Bad
    <2>1. QED
      BY <1>0, SmallestSet
  <1>2. U # {}
    <2>1. SumOf(f, {}) = 0 /\ Cardinality({}) = 0
      BY SumEmpty, FS_EmptySet
    <2>2. QED
      BY <2>1
  <1> DEFINE e == NextOf(U)
             R == U \ {e}
  <1>3. IsFiniteSet(U) /\ e \in U /\ IsFiniteSet(R) /\ e \in S
    BY <1>2, NextOfIn, FS_Subset
  <1>4. SumOf(f, R) <= k * Cardinality(R)
    BY <1>1, <1>3
  <1>5. SumOf(f, U) = f[e] + SumOf(f, R)
    BY <1>2, <1>3, SumNext
  <1>6. Cardinality(R) = Cardinality(U) - 1 /\ Cardinality(U) \in Nat /\ Cardinality(R) \in Nat
    BY <1>3, FS_RemoveElement, FS_CardinalityType
  <1>7. SumOf(f, R) \in Int /\ f[e] \in Nat /\ f[e] <= k
    BY <1>3, SumType
  <1> HIDE DEF e, R
  <1>8. k * Cardinality(U) = k * Cardinality(R) + k
    BY <1>6
  <1>9. k * Cardinality(R) \in Int /\ k * Cardinality(U) \in Int
    BY <1>6
  <1>10. SumOf(f, U) <= k * Cardinality(U)
    BY <1>4, <1>5, <1>7, <1>8, <1>9
  <1>11. QED
    BY <1>1, <1>10
=============================================================================
