----------------------------- MODULE SumTheorems -----------------------------
(* The extremes of a finite set of numbers, what the sums of module Sums    *)
(* obey, for every finite set, and what a list without repetitions counts.  *)
(* A sum is a recursive function on the subsets of the set; each fact about *)
(* it is proved on a minimal subset on which it would fail.                 *)
EXTENDS Sums, Sequences, FiniteSetTheorems, TLAPS

\* A collection of subsets of a finite set has a minimal member.
LEMMA MinimalSubset ==
  ASSUME NEW S, IsFiniteSet(S), NEW Bad \in SUBSET (SUBSET S), Bad # {}
  PROVE  \E T \in Bad : \A U \in SUBSET T : U \in Bad => U = T
<1> DEFINE R == StrictSubsetOrdering(S)
<1>1. IsWellFoundedOn(R, FiniteSubsetsOf(S))
  BY FS_StrictSubsetOrderingWellFounded
<1>2. FiniteSubsetsOf(S) = SUBSET S
  BY FS_FiniteSubsetsOfFinite
<1>3. IsWellFoundedOn(R, SUBSET S)
  BY <1>1, <1>2
<1> HIDE DEF R
<1>4. PICK T \in Bad : \A U \in Bad : ~(<<U, T>> \in R)
  BY <1>3, WFMin
<1>5. ASSUME NEW U \in SUBSET T, U \in Bad
      PROVE  U = T
  BY <1>4, <1>5 DEF R, StrictSubsetOrdering
<1> QED
  BY <1>5

\* Of finitely many numbers one is the greatest and one the least.
LEMMA MaxIs ==
  ASSUME NEW S, IsFiniteSet(S), S # {}, S \subseteq Int
  PROVE  Max(S) \in S /\ \A x \in S : x <= Max(S)
<1> DEFINE Bad == {U \in SUBSET S : \E k \in S : U = {x \in S : x > k}}
<1>1. Bad \in SUBSET (SUBSET S) /\ Bad # {}
  <2>1. PICK k \in S : TRUE
    OBVIOUS
  <2>2. {x \in S : x > k} \in Bad
    OBVIOUS
  <2> QED
    BY <2>2
<1>2. PICK T \in Bad : \A U \in SUBSET T : U \in Bad => U = T
  <2> HIDE DEF Bad
  <2> QED
    BY ONLY <1>1, IsFiniteSet(S), MinimalSubset
<1>3. PICK k \in S : T = {x \in S : x > k}
  BY <1>2
<1>4. \A x \in S : x <= k
  <2> SUFFICES ASSUME NEW x \in S, x > k PROVE FALSE
    OBVIOUS
  <2>1. PICK U : U = {y \in S : y > x}
    OBVIOUS
  <2>2. U \in Bad
    BY <2>1
  <2>3. x \in T /\ x \notin U /\ U \subseteq T
    <3>1. x \in Int /\ k \in Int /\ x \in S /\ x > k
      OBVIOUS
    <3>2. \A y \in S : y > x => y > k
      BY <3>1
    <3>3. x \in T /\ x \notin U
      BY ONLY <1>3, <2>1, <3>1
    <3>4. U \subseteq T
      BY ONLY <1>3, <2>1, <3>2
    <3> QED
      BY <3>3, <3>4
  <2> QED
    BY <1>2, <2>2, <2>3
<1>5. \E m \in S : \A x \in S : m >= x
  BY <1>4
<1>6. Max(S) \in S /\ \A x \in S : Max(S) >= x
  <2> HIDE DEF Bad
  <2> QED
    BY <1>5 DEF Max
<1> QED
  BY <1>6

LEMMA MinIs ==
  ASSUME NEW S, IsFiniteSet(S), S # {}, S \subseteq Int
  PROVE  Min(S) \in S /\ \A x \in S : Min(S) <= x
<1> DEFINE Bad == {U \in SUBSET S : \E k \in S : U = {x \in S : x < k}}
<1>1. Bad \in SUBSET (SUBSET S) /\ Bad # {}
  <2>1. PICK k \in S : TRUE
    OBVIOUS
  <2>2. {x \in S : x < k} \in Bad
    OBVIOUS
  <2> QED
    BY <2>2
<1>2. PICK T \in Bad : \A U \in SUBSET T : U \in Bad => U = T
  <2> HIDE DEF Bad
  <2> QED
    BY ONLY <1>1, IsFiniteSet(S), MinimalSubset
<1>3. PICK k \in S : T = {x \in S : x < k}
  BY <1>2
<1>4. \A x \in S : k <= x
  <2> SUFFICES ASSUME NEW x \in S, x < k PROVE FALSE
    OBVIOUS
  <2>1. PICK U : U = {y \in S : y < x}
    OBVIOUS
  <2>2. U \in Bad
    BY <2>1
  <2>3. x \in T /\ x \notin U /\ U \subseteq T
    <3>1. x \in Int /\ k \in Int /\ x \in S /\ x < k
      OBVIOUS
    <3>2. \A y \in S : y < x => y < k
      BY <3>1
    <3>3. x \in T /\ x \notin U
      BY ONLY <1>3, <2>1, <3>1
    <3>4. U \subseteq T
      BY ONLY <1>3, <2>1, <3>2
    <3> QED
      BY <3>3, <3>4
  <2> QED
    BY <1>2, <2>2, <2>3
<1>5. \E m \in S : \A x \in S : m =< x
  BY <1>4
<1>6. Min(S) \in S /\ \A x \in S : Min(S) =< x
  <2> HIDE DEF Bad
  <2> QED
    BY <1>5 DEF Min
<1> QED
  BY <1>6

LEMMA TwoNumbers ==
  ASSUME NEW m \in Int, NEW n \in Int
  PROVE  /\ Max({m, n}) \in {m, n} /\ m <= Max({m, n}) /\ n <= Max({m, n})
         /\ Min({m, n}) \in {m, n} /\ Min({m, n}) <= m /\ Min({m, n}) <= n
<1>1. IsFiniteSet({m, n})
  <2>1. IsFiniteSet({m}) /\ {m, n} = {m} \cup {n}
    BY FS_Singleton
  <2> QED
    BY <2>1, FS_AddElement
<1>2. {m, n} # {} /\ {m, n} \subseteq Int
  OBVIOUS
<1> QED
  BY <1>1, <1>2, MaxIs, MinIs

-----------------------------------------------------------------------------
(* The recursion.                                                           *)

\* The element with which the recursion goes on.
AnyOf(s) == CHOOSE x \in s : TRUE

\* The recursion that defines the sum, as an equation on g.
SolvesSum(g, f, S) ==
  g = [s \in SUBSET S |-> IF s = {} THEN 0 ELSE f[AnyOf(s)] + g[s \ {AnyOf(s)}]]

LEMMA SumDefinition ==
  ASSUME NEW f, NEW S
  PROVE  SumOver(f, S) = (CHOOSE g : SolvesSum(g, f, S))[S]
  BY DEF SumOver, MapThenSumSet, MapThenFoldSet, SolvesSum, AnyOf

LEMMA SumUnique ==
  ASSUME NEW f, NEW S, IsFiniteSet(S), NEW g, NEW h, SolvesSum(g, f, S), SolvesSum(h, f, S),
         NEW T \in SUBSET S
  PROVE  g[T] = h[T]
<1> DEFINE Bad == {U \in SUBSET S : g[U] # h[U]}
<1> SUFFICES ASSUME Bad # {} PROVE FALSE
  OBVIOUS
<1>1. PICK U \in Bad : \A V \in SUBSET U : V \in Bad => V = U
  <2>1. Bad \in SUBSET (SUBSET S)
    OBVIOUS
  <2> HIDE DEF Bad
  <2> QED
    BY <2>1, MinimalSubset
<1>2. g[U] = IF U = {} THEN 0 ELSE f[AnyOf(U)] + g[U \ {AnyOf(U)}]
  BY DEF SolvesSum
<1>3. h[U] = IF U = {} THEN 0 ELSE f[AnyOf(U)] + h[U \ {AnyOf(U)}]
  BY DEF SolvesSum
<1>4. CASE U = {}
  BY <1>2, <1>3, <1>4
<1>5. CASE U # {}
  <2>1. AnyOf(U) \in U
    BY <1>5 DEF AnyOf
  <2>2. g[U \ {AnyOf(U)}] = h[U \ {AnyOf(U)}]
    BY <1>1, <2>1
  <2> QED
    BY <1>2, <1>3, <1>5, <2>2
<1> QED
  BY <1>4, <1>5

LEMMA SumOnSubset ==
  ASSUME NEW f, NEW S, NEW T \in SUBSET S, NEW g, SolvesSum(g, f, S)
  PROVE  SolvesSum([s \in SUBSET T |-> g[s]], f, T)
<1> DEFINE h == [s \in SUBSET T |-> g[s]]
<1>1. ASSUME NEW s \in SUBSET T
      PROVE  h[s] = IF s = {} THEN 0 ELSE f[AnyOf(s)] + h[s \ {AnyOf(s)}]
  <2>1. g[s] = IF s = {} THEN 0 ELSE f[AnyOf(s)] + g[s \ {AnyOf(s)}]
    BY DEF SolvesSum
  <2>2. s \ {AnyOf(s)} \in SUBSET T
    OBVIOUS
  <2> QED
    BY <2>1, <2>2
<1>2. h = [s \in SUBSET T |-> h[s]]
  OBVIOUS
<1> HIDE DEF h
<1>3. h = [s \in SUBSET T |-> IF s = {} THEN 0 ELSE f[AnyOf(s)] + h[s \ {AnyOf(s)}]]
  BY <1>1, <1>2
<1> QED
  BY <1>3 DEF SolvesSum, h

\* On a set where the recursion has a solution, the sum is that solution.
LEMMA SumIsSolution ==
  ASSUME NEW f, NEW S, IsFiniteSet(S), NEW g, SolvesSum(g, f, S), NEW T \in SUBSET S
  PROVE  SumOver(f, T) = g[T]
<1> DEFINE h == [s \in SUBSET T |-> g[s]]
           c == CHOOSE k : SolvesSum(k, f, T)
<1>1. SolvesSum(h, f, T)
  BY SumOnSubset
<1>2. SolvesSum(c, f, T)
  BY <1>1
<1>3. IsFiniteSet(T)
  BY FS_Subset
<1>4. h[T] = g[T]
  OBVIOUS
<1>5. SumOver(f, T) = c[T]
  BY SumDefinition
<1> HIDE DEF h, c
<1>6. c[T] = h[T]
  BY <1>1, <1>2, <1>3, SumUnique
<1> QED
  BY <1>4, <1>5, <1>6

LEMMA SumExists ==
  ASSUME NEW f, NEW S, IsFiniteSet(S)
  PROVE  \E g : SolvesSum(g, f, S)
<1> DEFINE Bad == {T \in SUBSET S : ~ \E g : SolvesSum(g, f, T)}
<1> SUFFICES ASSUME Bad # {} PROVE FALSE
  OBVIOUS
<1>1. PICK T \in Bad : \A U \in SUBSET T : U \in Bad => U = T
  <2>1. Bad \in SUBSET (SUBSET S)
    OBVIOUS
  <2> HIDE DEF Bad
  <2> QED
    BY <2>1, MinimalSubset
<1> DEFINE h == [s \in SUBSET T |->
                   IF s = {} THEN 0 ELSE f[AnyOf(s)] + SumOver(f, s \ {AnyOf(s)})]
<1>2. ASSUME NEW U \in SUBSET T, U # T
      PROVE  h[U] = SumOver(f, U)
  <2>1. PICK g : SolvesSum(g, f, U)
    BY <1>1, <1>2
  <2>2. IsFiniteSet(U)
    BY FS_Subset
  <2>3. SumOver(f, U) = g[U] /\ SumOver(f, U \ {AnyOf(U)}) = g[U \ {AnyOf(U)}]
    BY <2>1, <2>2, SumIsSolution
  <2>4. g[U] = IF U = {} THEN 0 ELSE f[AnyOf(U)] + g[U \ {AnyOf(U)}]
    BY <2>1 DEF SolvesSum
  <2> QED
    BY <2>3, <2>4
<1>3. ASSUME NEW s \in SUBSET T
      PROVE  h[s] = IF s = {} THEN 0 ELSE f[AnyOf(s)] + h[s \ {AnyOf(s)}]
  <2>1. CASE s = {}
    BY <2>1
  <2>2. CASE s # {}
    <3>1. AnyOf(s) \in s
      BY <2>2 DEF AnyOf
    <3>2. s \ {AnyOf(s)} \in SUBSET T /\ s \ {AnyOf(s)} # T
      BY <3>1
    <3>3. h[s \ {AnyOf(s)}] = SumOver(f, s \ {AnyOf(s)})
      BY <1>2, <3>2
    <3> QED
      BY <2>2, <3>3
  <2> QED
    BY <2>1, <2>2
<1>4. h = [s \in SUBSET T |-> h[s]]
  OBVIOUS
<1> HIDE DEF h
<1>5. SolvesSum(h, f, T)
  BY <1>3, <1>4 DEF SolvesSum
<1> QED
  BY <1>1, <1>5

-----------------------------------------------------------------------------
(* The facts the other proofs cite.                                         *)

THEOREM SumEmpty ==
  ASSUME NEW f
  PROVE  SumOver(f, {}) = 0
<1>1. IsFiniteSet({})
  BY FS_EmptySet
<1>2. PICK g : SolvesSum(g, f, {})
  BY <1>1, SumExists
<1>3. SumOver(f, {}) = g[{}]
  BY <1>1, <1>2, SumIsSolution
<1> QED
  BY <1>2, <1>3 DEF SolvesSum

\* The recursion, stated of the sum itself.
LEMMA SumStep ==
  ASSUME NEW f, NEW S, IsFiniteSet(S), S # {}
  PROVE  /\ AnyOf(S) \in S
         /\ SumOver(f, S) = f[AnyOf(S)] + SumOver(f, S \ {AnyOf(S)})
<1>1. PICK g : SolvesSum(g, f, S)
  BY SumExists
<1>2. SumOver(f, S) = g[S] /\ SumOver(f, S \ {AnyOf(S)}) = g[S \ {AnyOf(S)}]
  BY <1>1, SumIsSolution
<1>3. AnyOf(S) \in S
  BY DEF AnyOf
<1> QED
  BY <1>1, <1>2, <1>3 DEF SolvesSum

\* A sum of integers is an integer.
THEOREM SumType ==
  ASSUME NEW f, NEW S, IsFiniteSet(S), \A x \in S : f[x] \in Int
  PROVE  SumOver(f, S) \in Int
<1> DEFINE Bad == {T \in SUBSET S : SumOver(f, T) \notin Int}
<1> SUFFICES ASSUME Bad # {} PROVE FALSE
  OBVIOUS
<1>1. PICK T \in Bad : \A U \in SUBSET T : U \in Bad => U = T
  <2>1. Bad \in SUBSET (SUBSET S)
    OBVIOUS
  <2> HIDE DEF Bad
  <2> QED
    BY <2>1, MinimalSubset
<1>2. T # {} /\ IsFiniteSet(T)
  <2>1. SumOver(f, {}) = 0
    BY SumEmpty
  <2>2. T # {}
    BY <2>1
  <2> QED
    BY <2>2, FS_Subset
<1>3. AnyOf(T) \in T /\ SumOver(f, T) = f[AnyOf(T)] + SumOver(f, T \ {AnyOf(T)})
  BY <1>2, SumStep
<1>4. SumOver(f, T \ {AnyOf(T)}) \in Int
  BY <1>1, <1>3
<1> QED
  BY <1>3, <1>4

\* A sum of amounts that are not negative is not negative.
THEOREM SumNat ==
  ASSUME NEW f, NEW S, IsFiniteSet(S), \A x \in S : f[x] \in Nat
  PROVE  SumOver(f, S) \in Nat
<1> DEFINE Bad == {T \in SUBSET S : SumOver(f, T) \notin Nat}
<1> SUFFICES ASSUME Bad # {} PROVE FALSE
  OBVIOUS
<1>1. PICK T \in Bad : \A U \in SUBSET T : U \in Bad => U = T
  <2>1. Bad \in SUBSET (SUBSET S)
    OBVIOUS
  <2> HIDE DEF Bad
  <2> QED
    BY <2>1, MinimalSubset
<1>2. T # {} /\ IsFiniteSet(T)
  <2>1. SumOver(f, {}) = 0
    BY SumEmpty
  <2>2. T # {}
    BY <2>1
  <2> QED
    BY <2>2, FS_Subset
<1>3. AnyOf(T) \in T /\ SumOver(f, T) = f[AnyOf(T)] + SumOver(f, T \ {AnyOf(T)})
  BY <1>2, SumStep
<1>4. SumOver(f, T \ {AnyOf(T)}) \in Nat
  BY <1>1, <1>3
<1> QED
  BY <1>3, <1>4

\* The sum depends only on the entries summed.
THEOREM SumSame ==
  ASSUME NEW f, NEW g, NEW S, IsFiniteSet(S), \A x \in S : f[x] = g[x]
  PROVE  SumOver(f, S) = SumOver(g, S)
<1> DEFINE Bad == {T \in SUBSET S : SumOver(f, T) # SumOver(g, T)}
<1> SUFFICES ASSUME Bad # {} PROVE FALSE
  OBVIOUS
<1>1. PICK T \in Bad : \A U \in SUBSET T : U \in Bad => U = T
  <2>1. Bad \in SUBSET (SUBSET S)
    OBVIOUS
  <2> HIDE DEF Bad
  <2> QED
    BY <2>1, MinimalSubset
<1>2. T # {} /\ IsFiniteSet(T)
  <2>1. SumOver(f, {}) = 0 /\ SumOver(g, {}) = 0
    BY SumEmpty
  <2>2. T # {}
    BY <2>1
  <2> QED
    BY <2>2, FS_Subset
<1>3. /\ AnyOf(T) \in T
      /\ SumOver(f, T) = f[AnyOf(T)] + SumOver(f, T \ {AnyOf(T)})
      /\ SumOver(g, T) = g[AnyOf(T)] + SumOver(g, T \ {AnyOf(T)})
  BY <1>2, SumStep
<1>4. SumOver(f, T \ {AnyOf(T)}) = SumOver(g, T \ {AnyOf(T)})
  BY <1>1, <1>3
<1> QED
  BY <1>3, <1>4

\* Any element can be taken out of the sum.
THEOREM SumRemove ==
  ASSUME NEW f, NEW S, IsFiniteSet(S), \A x \in S : f[x] \in Int, NEW y \in S
  PROVE  SumOver(f, S) = f[y] + SumOver(f, S \ {y})
<1> DEFINE Bad == {T \in SUBSET S : \E x \in T : SumOver(f, T) # f[x] + SumOver(f, T \ {x})}
<1> SUFFICES ASSUME Bad # {} PROVE FALSE
  OBVIOUS
<1>1. PICK T \in Bad : \A U \in SUBSET T : U \in Bad => U = T
  <2>1. Bad \in SUBSET (SUBSET S)
    OBVIOUS
  <2> HIDE DEF Bad
  <2> QED
    BY <2>1, MinimalSubset
<1>2. PICK x \in T : SumOver(f, T) # f[x] + SumOver(f, T \ {x})
  OBVIOUS
<1> DEFINE a == AnyOf(T)
<1>3. IsFiniteSet(T)
  BY FS_Subset
<1>4. a \in T /\ SumOver(f, T) = f[a] + SumOver(f, T \ {a})
  BY <1>2, <1>3, SumStep
<1>5. x # a
  BY <1>2, <1>4
<1>6. /\ x \in T \ {a} /\ a \in T \ {x}
      /\ T \ {a} \notin Bad /\ T \ {x} \notin Bad
      /\ T \ {a} \in SUBSET S /\ T \ {x} \in SUBSET S
  <2>1. T \in SUBSET S /\ x \in T
    OBVIOUS
  <2> HIDE DEF Bad, a
  <2> QED
    BY <1>1, <1>4, <1>5, <2>1
<1>7. SumOver(f, T \ {a}) = f[x] + SumOver(f, (T \ {a}) \ {x})
  BY <1>6
<1>8. SumOver(f, T \ {x}) = f[a] + SumOver(f, (T \ {x}) \ {a})
  BY <1>6
<1>9. (T \ {x}) \ {a} = (T \ {a}) \ {x}
  OBVIOUS
<1>10. SumOver(f, (T \ {a}) \ {x}) \in Int
  <2>1. IsFiniteSet((T \ {a}) \ {x})
    BY <1>3, FS_Subset
  <2> QED
    BY <2>1, SumType
<1>11. f[x] \in Int /\ f[a] \in Int
  BY <1>4
<1> HIDE DEF a, Bad
<1>12. SumOver(f, T) = f[a] + (f[x] + SumOver(f, (T \ {a}) \ {x}))
  BY <1>4, <1>7
<1>13. f[x] + SumOver(f, T \ {x}) = f[x] + (f[a] + SumOver(f, (T \ {a}) \ {x}))
  BY <1>8, <1>9
<1> QED
  BY <1>2, <1>10, <1>11, <1>12, <1>13

\* An element that joins the set adds its entry.
THEOREM SumAdd ==
  ASSUME NEW f, NEW S, IsFiniteSet(S), NEW y, y \notin S, \A x \in S \cup {y} : f[x] \in Int
  PROVE  SumOver(f, S \cup {y}) = f[y] + SumOver(f, S)
<1>1. IsFiniteSet(S \cup {y}) /\ (S \cup {y}) \ {y} = S
  BY FS_AddElement
<1> QED
  BY <1>1, SumRemove

\* Changing one entry changes the sum by as much.
THEOREM SumChange ==
  ASSUME NEW f, NEW g, NEW S, IsFiniteSet(S), NEW y \in S,
         \A x \in S : f[x] \in Int /\ g[x] \in Int,
         \A x \in S \ {y} : g[x] = f[x]
  PROVE  SumOver(g, S) = SumOver(f, S) + g[y] - f[y]
<1>1. IsFiniteSet(S \ {y})
  BY FS_RemoveElement
<1>2. SumOver(g, S \ {y}) = SumOver(f, S \ {y}) /\ SumOver(f, S \ {y}) \in Int
  BY <1>1, SumSame, SumType
<1>3. SumOver(f, S) = f[y] + SumOver(f, S \ {y}) /\ SumOver(g, S) = g[y] + SumOver(g, S \ {y})
  BY SumRemove
<1> QED
  BY <1>2, <1>3

\* A sum of zeros is zero.
THEOREM SumZero ==
  ASSUME NEW f, NEW S, IsFiniteSet(S), \A x \in S : f[x] = 0
  PROVE  SumOver(f, S) = 0
<1> DEFINE Bad == {T \in SUBSET S : SumOver(f, T) # 0}
<1> SUFFICES ASSUME Bad # {} PROVE FALSE
  OBVIOUS
<1>1. PICK T \in Bad : \A U \in SUBSET T : U \in Bad => U = T
  <2>1. Bad \in SUBSET (SUBSET S)
    OBVIOUS
  <2> HIDE DEF Bad
  <2> QED
    BY <2>1, MinimalSubset
<1>2. T # {} /\ IsFiniteSet(T)
  <2>1. SumOver(f, {}) = 0
    BY SumEmpty
  <2>2. T # {}
    BY <2>1
  <2> QED
    BY <2>2, FS_Subset
<1>3. AnyOf(T) \in T /\ SumOver(f, T) = f[AnyOf(T)] + SumOver(f, T \ {AnyOf(T)})
  BY <1>2, SumStep
<1>4. SumOver(f, T \ {AnyOf(T)}) = 0
  BY <1>1, <1>3
<1> QED
  BY <1>3, <1>4

\* A smaller table has a smaller sum.
THEOREM SumMonotone ==
  ASSUME NEW f, NEW g, NEW S, IsFiniteSet(S),
         \A x \in S : f[x] \in Int /\ g[x] \in Int /\ f[x] <= g[x]
  PROVE  SumOver(f, S) <= SumOver(g, S)
<1> DEFINE Bad == {T \in SUBSET S : ~(SumOver(f, T) <= SumOver(g, T))}
<1> SUFFICES ASSUME Bad # {} PROVE FALSE
  OBVIOUS
<1>1. PICK T \in Bad : \A U \in SUBSET T : U \in Bad => U = T
  <2>1. Bad \in SUBSET (SUBSET S)
    OBVIOUS
  <2> HIDE DEF Bad
  <2> QED
    BY <2>1, MinimalSubset
<1>2. T # {} /\ IsFiniteSet(T)
  <2>1. SumOver(f, {}) = 0 /\ SumOver(g, {}) = 0
    BY SumEmpty
  <2>2. T # {}
    BY <2>1
  <2> QED
    BY <2>2, FS_Subset
<1> DEFINE a == AnyOf(T)
           rest == T \ {a}
<1>3. /\ a \in T
      /\ SumOver(f, T) = f[a] + SumOver(f, rest)
      /\ SumOver(g, T) = g[a] + SumOver(g, rest)
  BY <1>2, SumStep
<1>4. SumOver(f, rest) <= SumOver(g, rest)
  BY <1>1, <1>3
<1>5. IsFiniteSet(rest)
  BY <1>2, FS_RemoveElement
<1>6. SumOver(f, rest) \in Int /\ SumOver(g, rest) \in Int
  BY <1>5, SumType
<1>7. f[a] \in Int /\ g[a] \in Int /\ f[a] <= g[a]
  BY <1>3
<1>8. ~(SumOver(f, T) <= SumOver(g, T))
  OBVIOUS
<1> HIDE DEF a, rest, Bad
<1> QED
  BY <1>3, <1>4, <1>6, <1>7, <1>8

\* One entry is at most the sum.
THEOREM SumBoundsEntry ==
  ASSUME NEW f, NEW S, IsFiniteSet(S), \A x \in S : f[x] \in Nat, NEW y \in S
  PROVE  f[y] <= SumOver(f, S)
<1>1. SumOver(f, S) = f[y] + SumOver(f, S \ {y})
  BY SumRemove
<1>2. IsFiniteSet(S \ {y})
  BY FS_RemoveElement
<1>3. SumOver(f, S \ {y}) \in Nat
  BY <1>2, SumNat
<1> QED
  BY <1>1, <1>3
-----------------------------------------------------------------------------
(* The totals of tables.                                                     *)

\* What the total of a table is, and that no entry of a table without negative
\* ones is above it.
THEOREM TotalType ==
  ASSUME NEW S, IsFiniteSet(S), NEW f \in [S -> Int]
  PROVE  /\ Total(f) \in Int
         /\ (\A x \in S : f[x] \in Nat) => Total(f) \in Nat
         /\ (\A x \in S : f[x] \in Nat) => \A x \in S : f[x] <= Total(f)
         /\ (\A x \in S : f[x] = 0) => Total(f) = 0
<1>1. DOMAIN f = S /\ \A x \in S : f[x] \in Int
  OBVIOUS
<1>2. Total(f) = SumOver(f, S)
  BY <1>1 DEF Total
<1>3. Total(f) \in Int
  BY <1>1, <1>2, SumType
<1>4. ASSUME \A x \in S : f[x] \in Nat
      PROVE  Total(f) \in Nat /\ \A x \in S : f[x] <= Total(f)
  <2>1. Total(f) \in Nat
    BY <1>2, <1>4, SumNat
  <2>2. ASSUME NEW x \in S PROVE f[x] <= SumOver(f, S)
    BY <1>4, SumBoundsEntry
  <2> QED
    BY <1>2, <2>1, <2>2
<1>5. ASSUME \A x \in S : f[x] = 0 PROVE Total(f) = 0
  BY <1>2, <1>5, SumZero
<1> QED
  BY <1>3, <1>4, <1>5

\* Writing one entry changes the total by the difference.
THEOREM TotalChange ==
  ASSUME NEW S, IsFiniteSet(S), NEW f \in [S -> Int], NEW g \in [S -> Int], NEW y \in S,
         \A x \in S \ {y} : g[x] = f[x]
  PROVE  Total(g) = Total(f) + g[y] - f[y]
<1>1. DOMAIN f = S /\ DOMAIN g = S /\ \A x \in S : f[x] \in Int /\ g[x] \in Int
  OBVIOUS
<1>2. SumOver(g, S) = SumOver(f, S) + g[y] - f[y]
  BY <1>1, SumChange
<1> QED
  BY <1>1, <1>2 DEF Total

\* From f to g each entry grows at most in proportion to a, and by a rest.
GrowsWithin(f, g, a, k, m, c) == \A x \in DOMAIN f : k * (g[x] - f[x]) <= m * a[x] + c

\* A bound on how much each entry grows is a bound on how much the total grows.
THEOREM TotalGrowth ==
  ASSUME NEW S, IsFiniteSet(S), NEW f \in [S -> Int], NEW g \in [S -> Int], NEW a \in [S -> Int],
         NEW k \in Int, NEW m \in Int, NEW c \in Int,
         GrowsWithin(f, g, a, k, m, c)
  PROVE  k * (Total(g) - Total(f)) <= m * Total(a) + c * Cardinality(S)
<1> DEFINE Holds(T) == k * (SumOver(g, T) - SumOver(f, T)) <= m * SumOver(a, T) + c * Cardinality(T)
           Bad == {T \in SUBSET S : ~Holds(T)}
<1>1. Bad = {}
  <2> SUFFICES ASSUME Bad # {} PROVE FALSE
    OBVIOUS
  <2>1. PICK T \in Bad : \A U \in SUBSET T : U \in Bad => U = T
    <3>1. Bad \in SUBSET (SUBSET S)
      OBVIOUS
    <3> HIDE DEF Bad
    <3> QED
      BY <3>1, MinimalSubset
  <2>2. T \in SUBSET S /\ ~Holds(T) /\ IsFiniteSet(T)
    <3>1. T \in SUBSET S /\ ~Holds(T)
      OBVIOUS
    <3> QED
      BY <3>1, FS_Subset
  <2>3. T # {}
    <3>1. /\ SumOver(f, {}) = 0 /\ SumOver(g, {}) = 0 /\ SumOver(a, {}) = 0
          /\ Cardinality({}) = 0
      BY SumEmpty, FS_EmptySet
    <3>2. Holds({})
      BY <3>1
    <3> QED
      BY <2>2, <3>2
  <2>4. PICK y : y = AnyOf(T)
    OBVIOUS
  <2>5. PICK U : U = T \ {y}
    OBVIOUS
  <2>6. /\ y \in T
        /\ SumOver(f, T) = f[y] + SumOver(f, U)
        /\ SumOver(g, T) = g[y] + SumOver(g, U)
        /\ SumOver(a, T) = a[y] + SumOver(a, U)
    BY <2>2, <2>3, <2>4, <2>5, SumStep
  <2>7. IsFiniteSet(U) /\ Cardinality(U) = Cardinality(T) - 1 /\ Cardinality(T) \in Int
    BY <2>2, <2>5, <2>6, FS_RemoveElement, FS_CardinalityType
  <2>8. Holds(U)
    <3>1. U \in SUBSET T /\ U # T /\ U \in SUBSET S
      BY <2>2, <2>5, <2>6
    <3> QED
      BY <2>1, <3>1
  <2>9. PICK F \in Int, G \in Int, A \in Int :
          F = SumOver(f, U) /\ G = SumOver(g, U) /\ A = SumOver(a, U)
    <3>1. /\ \A x \in U : f[x] \in Int
          /\ \A x \in U : g[x] \in Int
          /\ \A x \in U : a[x] \in Int
      BY <2>2, <2>5
    <3>2. SumOver(f, U) \in Int /\ SumOver(g, U) \in Int /\ SumOver(a, U) \in Int
      BY ONLY <2>7, <3>1, SumType
    <3> QED
      BY <3>2
  <2>10. PICK fy \in Int, gy \in Int, ay \in Int, n \in Int :
           fy = f[y] /\ gy = g[y] /\ ay = a[y] /\ n = Cardinality(T)
    BY <2>2, <2>6, <2>7
  <2>11. k * (gy - fy) <= m * ay + c
    BY <2>2, <2>6, <2>10 DEF GrowsWithin
  <2>12. k * (G - F) <= m * A + c * (n - 1)
    BY <2>7, <2>8, <2>9, <2>10
  <2>13. ~(k * ((gy + G) - (fy + F)) <= m * (ay + A) + c * n)
    BY <2>2, <2>6, <2>9, <2>10
  <2>14. /\ k * ((gy + G) - (fy + F)) = k * (gy - fy) + k * (G - F)
         /\ m * (ay + A) = m * ay + m * A /\ c * n = c * (n - 1) + c
    OBVIOUS
  <2>15. /\ k * (gy - fy) \in Int /\ k * (G - F) \in Int /\ m * ay \in Int /\ m * A \in Int
         /\ c * (n - 1) \in Int
    OBVIOUS
  <2> QED
    BY <2>11, <2>12, <2>13, <2>14, <2>15
<1>2. S \in SUBSET S /\ DOMAIN f = S /\ DOMAIN g = S /\ DOMAIN a = S
  OBVIOUS
<1> QED
  BY <1>1, <1>2 DEF Total

-----------------------------------------------------------------------------
(* Counting the entries of a list.                                          *)

\* A list that repeats nothing names as many things as it is long.
THEOREM DistinctCount ==
  ASSUME NEW A, NEW v \in Seq(A), IsInjective(v)
  PROVE  IsFiniteSet(Range(v)) /\ Cardinality(Range(v)) = Len(v)
<1> DEFINE n == Len(v)
<1>1. DOMAIN v = 1..n /\ n \in Nat
  OBVIOUS
<1>2. v \in Bijection(1..n, Range(v))
  BY <1>1 DEF Bijection, Injection, Surjection, IsInjective, Range
<1>3. ExistsBijection(1..n, Range(v))
  BY <1>2 DEF ExistsBijection
<1> HIDE DEF n
<1>4. IsFiniteSet(1..n) /\ Cardinality(1..n) = n
  <2>1. 1 \in Int /\ n \in Int
    BY <1>1
  <2>2. IsFiniteSet(1..n) /\ Cardinality(1..n) = IF 1 > n THEN 0 ELSE n - 1 + 1
    BY <2>1, FS_Interval
  <2> QED
    BY <1>1, <2>2
<1> QED
  BY <1>3, <1>4, FS_Bijection DEF n

\* Appending what a list does not name keeps it free of repetitions.
THEOREM AppendDistinct ==
  ASSUME NEW A, NEW v \in Seq(A), NEW x \in A, IsInjective(v), \A k \in 1..Len(v) : v[k] # x
  PROVE  IsInjective(Append(v, x))
<1>1. DOMAIN v = 1..Len(v) /\ DOMAIN Append(v, x) = 1..(Len(v) + 1) /\ Len(v) \in Nat
  OBVIOUS
<1>2. \A k \in 1..Len(v) : Append(v, x)[k] = v[k]
  OBVIOUS
<1>3. Append(v, x)[Len(v) + 1] = x
  OBVIOUS
<1> QED
  BY <1>1, <1>2, <1>3 DEF IsInjective

-----------------------------------------------------------------------------
(* Sums over the entries of a list that grows.                              *)

\* Appending adds one index and leaves the entries before it.
THEOREM AppendEntry ==
  ASSUME NEW T, NEW s \in Seq(T), NEW e \in T
  PROVE  /\ Append(s, e) \in Seq(T)
         /\ DOMAIN s = 1..Len(s) /\ IsFiniteSet(DOMAIN s) /\ Len(s) \in Nat
         /\ Len(Append(s, e)) = Len(s) + 1
         /\ DOMAIN Append(s, e) = DOMAIN s \cup {Len(s) + 1}
         /\ Len(s) + 1 \notin DOMAIN s
         /\ \A i \in DOMAIN s : Append(s, e)[i] = s[i]
         /\ Append(s, e)[Len(s) + 1] = e
<1> DEFINE n == Len(s)
<1>1. /\ Append(s, e) \in Seq(T)
      /\ DOMAIN s = 1..n /\ n \in Nat
      /\ DOMAIN Append(s, e) = 1..(n + 1)
      /\ Len(Append(s, e)) = n + 1
      /\ \A i \in 1..n : Append(s, e)[i] = s[i]
      /\ Append(s, e)[n + 1] = e
  OBVIOUS
<1> HIDE DEF n
<1>2. IsFiniteSet(1..n)
  <2>1. 1 \in Int /\ n \in Int
    BY <1>1
  <2> QED
    BY <2>1, FS_Interval
<1>3. 1..(n + 1) = (1..n) \cup {n + 1} /\ n + 1 \notin 1..n
  BY <1>1
<1> QED
  BY <1>1, <1>2, <1>3 DEF n

\* A column of a list that is appended to: a sum that takes the new entry in
\* grows by it.
THEOREM SumAppend ==
  ASSUME NEW T, NEW s \in Seq(T), NEW f, NEW g,
         \A i \in DOMAIN s : f[i] \in Int /\ g[i] = f[i],
         g[Len(s) + 1] \in Int,
         NEW S \in SUBSET DOMAIN s
  PROVE  SumOver(g, S \cup {Len(s) + 1}) = SumOver(f, S) + g[Len(s) + 1]
<1> DEFINE y == Len(s) + 1
<1>1. IsFiniteSet(S) /\ y \notin S
  <2>1. DOMAIN s = 1..Len(s) /\ Len(s) \in Nat
    OBVIOUS
  <2>2. IsFiniteSet(1..Len(s))
    BY <2>1, FS_Interval
  <2> QED
    BY <2>1, <2>2, FS_Subset
<1>2. \A x \in S : f[x] \in Int /\ g[x] = f[x]
  OBVIOUS
<1>3. g[y] \in Int
  OBVIOUS
<1> HIDE DEF y
<1>4. SumOver(f, S) \in Int
  BY <1>1, <1>2, SumType
<1>5. SumOver(g, S) = SumOver(f, S)
  BY <1>1, <1>2, SumSame
<1>6. \A x \in S \cup {y} : g[x] \in Int
  BY <1>2, <1>3
<1>7. SumOver(g, S \cup {y}) = g[y] + SumOver(g, S)
  BY <1>1, <1>6, SumAdd
<1>8. SumOver(g, S \cup {y}) = SumOver(f, S) + g[y]
  BY <1>3, <1>4, <1>5, <1>7
<1> QED
  BY <1>8 DEF y
=============================================================================
