----------------------------- MODULE Arithmetic -----------------------------
(***************************************************************************)
(* Facts that the proofs of several components need: induction, recursion, *)
(* remainders, and sums over finite sets (SumFunctionOnSet of Functions,   *)
(* which adds the elements in an order left open).  Induction is stated    *)
(* for a set of what is good and recursion for a function that makes a     *)
(* step, so that no lemma has an operator as a parameter.                  *)
(***************************************************************************)
EXTENDS Integers, FiniteSets, Functions, FiniteSetTheorems, WellFoundedInduction, TLAPS

---------------------------------------------------------------------------
\* Induction.

\* A set of numbers that is not empty has a least one.
LEMMA LeastNumber ==
    ASSUME NEW T, T \subseteq Nat, T # {}
    PROVE  \E n \in T : \A m \in T : n <= m
<1>1. \E n \in T : \A m \in T : <<m, n>> \notin OpToRel(<, Nat)
  BY NatLessThanWellFounded, WFMin, Zenon
<1>2. \E n \in T : \A m \in T : ~(m < n)
  BY <1>1 DEF OpToRel
<1> QED
  BY <1>2

\* Induction on the numbers.
LEMMA NumberInduction ==
    ASSUME NEW Good, 0 \in Good, \A n \in Nat : n \in Good => n + 1 \in Good
    PROVE  Nat \subseteq Good
<1> SUFFICES ASSUME Nat \ Good # {} PROVE FALSE
  OBVIOUS
<1>1. PICK n \in Nat \ Good : \A m \in Nat \ Good : n <= m
  BY LeastNumber
<1>2. n # 0 /\ n - 1 \in Nat /\ n = n - 1 + 1 /\ ~(n <= n - 1)
  OBVIOUS
<1>3. n - 1 \in Good
  BY <1>1, <1>2
<1>4. n \in Good
  BY <1>2, <1>3
<1> QED
  BY <1>4

\* What taking an element from a finite set leaves.
LEMMA LessOne ==
    ASSUME NEW s, IsFiniteSet(s), NEW x \in s
    PROVE  /\ IsFiniteSet(s \ {x}) /\ (s \ {x}) \cup {x} = s
           /\ Cardinality(s) \in Nat /\ Cardinality(s \ {x}) \in Nat
           /\ Cardinality(s \ {x}) = Cardinality(s) - 1
BY FS_RemoveElement, FS_CardinalityType, FS_EmptySet

\* Induction on the subsets of a finite set.
LEMMA SubsetInduction ==
    ASSUME NEW S, IsFiniteSet(S), NEW Good, {} \in Good,
           \A s \in SUBSET S, x \in S : s \in Good /\ x \notin s => s \cup {x} \in Good
    PROVE  SUBSET S \subseteq Good
<1> DEFINE Sizes == {n \in Nat : \A s \in SUBSET S : Cardinality(s) = n => s \in Good}
<1>1. \A s \in SUBSET S : IsFiniteSet(s) /\ Cardinality(s) \in Nat
  BY FS_Subset, FS_CardinalityType
<1>2. 0 \in Sizes
  BY <1>1, FS_EmptySet
<1>3. ASSUME NEW n \in Nat, n \in Sizes PROVE n + 1 \in Sizes
  <2> SUFFICES ASSUME NEW s \in SUBSET S, Cardinality(s) = n + 1 PROVE s \in Good
    OBVIOUS
  <2>1. s # {}
    <3>1. Cardinality({}) = 0 /\ n + 1 # 0
      BY FS_EmptySet
    <3> QED
      BY <3>1
  <2>2. PICK x \in s : TRUE
    BY <2>1
  <2>3. /\ s \ {x} \in SUBSET S /\ x \in S /\ x \notin s \ {x}
        /\ (s \ {x}) \cup {x} = s /\ Cardinality(s \ {x}) = n
    BY <1>1, LessOne
  <2>4. s \ {x} \in Good
    BY <1>3, <2>3
  <2> QED
    BY <2>3, <2>4
<1> HIDE DEF Sizes
<1>4. Nat \subseteq Sizes
  BY <1>2, <1>3, NumberInduction
<1> QED
  BY <1>1, <1>4 DEF Sizes

---------------------------------------------------------------------------
\* Recursion.

\* f is obtained by steps from its start, for the numbers of N.
Steps(f, start, step, N) ==
    f = [n \in N |-> IF n = 0 THEN start ELSE step[f[n - 1]]]

\* A recursion over the numbers below a bound has a solution.
LEMMA StepsExist ==
    ASSUME NEW start, NEW step, NEW m \in Nat
    PROVE  \E f : Steps(f, start, step, 0 .. m)
<1> DEFINE Good == {k \in Nat : \E f : Steps(f, start, step, 0 .. k)}
<1>1. 0 \in Good
  <2> DEFINE g == [n \in 0 .. 0 |-> start]
  <2>1. \A n \in 0 .. 0 : n = 0
    OBVIOUS
  <2>2. Steps(g, start, step, 0 .. 0)
    BY <2>1 DEF Steps
  <2> QED
    BY <2>2
<1>2. ASSUME NEW k \in Nat, k \in Good PROVE k + 1 \in Good
  <2>1. PICK g : Steps(g, start, step, 0 .. k)
    BY <1>2
  <2> DEFINE h == [n \in 0 .. k + 1 |-> IF n = 0 THEN start ELSE step[g[n - 1]]]
  <2>2. \A n \in 0 .. k : n \in 0 .. k + 1
    OBVIOUS
  <2>3. \A n \in 0 .. k : h[n] = g[n]
    BY <2>1, <2>2 DEF Steps
  <2>4. \A n \in 0 .. k + 1 : n # 0 => n - 1 \in 0 .. k
    OBVIOUS
  <2>5. \A n \in 0 .. k + 1 : n # 0 => step[g[n - 1]] = step[h[n - 1]]
    BY <2>3, <2>4
  <2>6. h = [n \in 0 .. k + 1 |-> IF n = 0 THEN start ELSE step[h[n - 1]]]
    BY <2>5
  <2>7. Steps(h, start, step, 0 .. k + 1)
    BY <2>6 DEF Steps
  <2> QED
    BY <2>7
<1> HIDE DEF Good
<1>3. Nat \subseteq Good
  BY <1>1, <1>2, NumberInduction
<1> QED
  BY <1>3 DEF Good

\* Two solutions agree as far as both go.
LEMMA StepsAgree ==
    ASSUME NEW start, NEW step, NEW j \in Nat, NEW m \in Nat, j <= m,
           NEW f, Steps(f, start, step, 0 .. j), NEW g, Steps(g, start, step, 0 .. m)
    PROVE  f[j] = g[j]
<1> DEFINE Good == {k \in Nat : k <= j => f[k] = g[k]}
<1>1. 0 \in Good
  BY DEF Steps
<1>2. ASSUME NEW k \in Nat, k \in Good PROVE k + 1 \in Good
  <2> SUFFICES ASSUME k + 1 <= j PROVE f[k + 1] = g[k + 1]
    OBVIOUS
  <2>1. k + 1 \in 0 .. j /\ k + 1 \in 0 .. m /\ k + 1 # 0 /\ k + 1 - 1 = k /\ k <= j
    OBVIOUS
  <2>2. f[k + 1] = step[f[k]] /\ g[k + 1] = step[g[k]]
    BY <2>1 DEF Steps
  <2> QED
    BY <1>2, <2>1, <2>2
<1> HIDE DEF Good
<1>3. Nat \subseteq Good
  BY <1>1, <1>2, NumberInduction
<1> QED
  BY <1>3 DEF Good

\* So a recursion over all numbers has a solution.
LEMMA RecursionExists ==
    ASSUME NEW start, NEW step
    PROVE  \E f : Steps(f, start, step, Nat)
<1> DEFINE upto(n) == CHOOSE f : Steps(f, start, step, 0 .. n)
           h == [n \in Nat |-> upto(n)[n]]
<1>1. \A n \in Nat : Steps(upto(n), start, step, 0 .. n)
  BY StepsExist
<1> HIDE DEF upto
<1>2. ASSUME NEW n \in Nat PROVE h[n] = IF n = 0 THEN start ELSE step[h[n - 1]]
  <2>1. n \in 0 .. n
    OBVIOUS
  <2>2. upto(n)[n] = IF n = 0 THEN start ELSE step[upto(n)[n - 1]]
    BY <1>1, <2>1 DEF Steps
  <2>3. CASE n = 0
    BY <2>2, <2>3
  <2>4. CASE n # 0
    <3>1. PICK p \in Nat : p = n - 1 /\ p <= n
      BY <2>4
    <3>2. upto(p)[p] = upto(n)[p]
      BY <1>1, <3>1, StepsAgree
    <3> QED
      BY <2>2, <2>4, <3>1, <3>2
  <2> QED
    BY <2>3, <2>4
<1>3. h = [n \in Nat |-> h[n]]
  OBVIOUS
<1> HIDE DEF h
<1>4. h = [n \in Nat |-> IF n = 0 THEN start ELSE step[h[n - 1]]]
  BY <1>2, <1>3
<1> QED
  BY <1>4 DEF Steps

\* p are the powers of two.
Doubles(p) == p = [b \in Nat |-> IF b = 0 THEN 1 ELSE 2 * p[b - 1]]

\* There are powers of two.
LEMMA DoublingExists == \E p : Doubles(p)
<1> DEFINE double == [y \in Nat |-> 2 * y]
<1>1. PICK f : Steps(f, 1, double, Nat)
  BY RecursionExists
<1> DEFINE Good == {b \in Nat : f[b] \in Nat}
<1>2. 0 \in Good
  BY <1>1 DEF Steps
<1>3. ASSUME NEW b \in Nat, b \in Good PROVE b + 1 \in Good
  <2>1. b + 1 \in Nat /\ b + 1 # 0 /\ b + 1 - 1 = b
    OBVIOUS
  <2>2. f[b + 1] = double[f[b]]
    BY <1>1, <2>1 DEF Steps
  <2> QED
    BY <1>3, <2>1, <2>2
<1> HIDE DEF Good
<1>4. Nat \subseteq Good
  BY <1>2, <1>3, NumberInduction
<1>5. \A b \in Nat : f[b] \in Nat
  BY <1>4 DEF Good
<1>6. \A b \in Nat : b # 0 => b - 1 \in Nat
  OBVIOUS
<1>7. \A b \in Nat : b # 0 => double[f[b - 1]] = 2 * f[b - 1]
  BY <1>5, <1>6
<1> HIDE DEF double
<1>8. Doubles(f)
  BY <1>1, <1>7 DEF Steps, Doubles
<1> QED
  BY <1>8

\* They start with one, double, and are positive.
LEMMA DoublingFacts ==
    ASSUME NEW p, Doubles(p)
    PROVE  /\ p[0] = 1
           /\ \A b \in Nat : p[b + 1] = 2 * p[b]
           /\ \A b \in Nat : p[b] \in Nat \ {0}
<1>1. p[0] = 1
  BY DEF Doubles
<1>2. ASSUME NEW b \in Nat PROVE p[b + 1] = 2 * p[b]
  <2>1. b + 1 \in Nat /\ b + 1 # 0 /\ b + 1 - 1 = b
    OBVIOUS
  <2> QED
    BY <2>1 DEF Doubles
<1> DEFINE Positive == {b \in Nat : p[b] \in Nat \ {0}}
<1>3. 0 \in Positive /\ \A b \in Nat : b \in Positive => b + 1 \in Positive
  BY <1>1, <1>2
<1> HIDE DEF Positive
<1>4. Nat \subseteq Positive
  BY <1>3, NumberInduction
<1> QED
  BY <1>1, <1>2, <1>4 DEF Positive

---------------------------------------------------------------------------
\* Remainders.

\* What a division yields.
LEMMA DivisionYields ==
    ASSUME NEW a \in Int, NEW n \in Nat \ {0}
    PROVE  a \div n \in Int /\ a % n \in 0 .. n - 1 /\ a = n * (a \div n) + (a % n)
OBVIOUS

\* What is left when multiples are taken away is the remainder.
LEMMA RemainderIs ==
    ASSUME NEW a \in Int, NEW n \in Nat \ {0}, NEW q \in Int, NEW r \in 0 .. n - 1,
           a = n * q + r
    PROVE  a % n = r
<1>1. PICK p \in Int, s \in 0 .. n - 1 : a = n * p + s /\ s = a % n
  <2> DEFINE p == a \div n
             s == a % n
  <2>1. p \in Int /\ s \in 0 .. n - 1 /\ a = n * p + s
    BY DivisionYields
  <2> HIDE DEF p
  <2> QED
    BY <2>1
<1>2. /\ \A u, v \in Int : u < v => n * u + n <= n * v
      /\ n * p \in Int /\ n * q \in Int
  <2>1. ASSUME NEW u \in Int, NEW v \in Int, u < v
        PROVE  n * u + n <= n * v
    <3>1. n * (u + 1) <= n * v
      BY <2>1
    <3>2. n * (u + 1) = n * u + n
      OBVIOUS
    <3> QED
      BY <3>1, <3>2
  <2> QED
    BY <2>1
<1>3. ~(p < q)
  <2> SUFFICES ASSUME p < q PROVE FALSE
    OBVIOUS
  <2>1. n * p + n <= n * q
    BY <1>2
  <2> QED
    BY <1>1, <1>2, <2>1
<1>4. ~(q < p)
  <2> SUFFICES ASSUME q < p PROVE FALSE
    OBVIOUS
  <2>1. n * q + n <= n * p
    BY <1>2
  <2> QED
    BY <1>1, <1>2, <2>1
<1>5. p = q
  BY <1>3, <1>4
<1>6. s = r
  <2>1. n * p = n * q
    BY <1>5
  <2> QED
    BY <1>1, <1>2, <2>1
<1> QED
  BY <1>1, <1>6

\* Multiples make no difference to the remainder.
LEMMA RemainderOfSum ==
    ASSUME NEW a \in Int, NEW n \in Nat \ {0}, NEW k \in Int
    PROVE  (n * k + a) % n = a % n
<1> DEFINE q == a \div n
           r == a % n
<1>1. q \in Int /\ r \in 0 .. n - 1 /\ a = n * q + r
  BY DivisionYields
<1> HIDE DEF q, r
<1>2. n * k + a = n * (k + q) + r
  BY <1>1
<1>3. n * k + a \in Int /\ k + q \in Int
  BY <1>1
<1>4. (n * k + a) % n = r
  BY <1>1, <1>2, <1>3, RemainderIs
<1> QED
  BY <1>4 DEF r

---------------------------------------------------------------------------
\* Sums: how the fold computes the sum over every subset of S.
first(s) == CHOOSE x \in s : TRUE
AddsFirst(sum, f, s) == IF s = {} THEN 0 ELSE f[first(s)] + sum[s \ {first(s)}]
Unfolds(sum, f, S) == sum = [s \in SUBSET S |-> AddsFirst(sum, f, s)]

\* The definition of SumFunctionOnSet.
LEMMA SumUnfolded ==
    ASSUME NEW f, NEW S
    PROVE  SumFunctionOnSet(f, S) = (CHOOSE sum : Unfolds(sum, f, S))[S]
BY DEF SumFunctionOnSet, FoldFunctionOnSet, MapThenFoldSet, Unfolds, AddsFirst, first

\* The first element belongs to the set.
LEMMA FirstFacts ==
    ASSUME NEW s, s # {}
    PROVE  first(s) \in s
BY DEF first

\* The recursion has a solution: the sums of the sets with n + 1 elements follow
\* from those with n.
LEMMA SumExists ==
    ASSUME NEW f, NEW S, IsFiniteSet(S)
    PROVE  \E sum : Unfolds(sum, f, S)
<1> DEFINE Small(n) == {s \in SUBSET S : Cardinality(s) <= n}
           Works(n) == \E sum : sum = [s \in Small(n) |-> AddsFirst(sum, f, s)]
           Good == {n \in Nat : Works(n)}
<1>1. \A s \in SUBSET S : IsFiniteSet(s) /\ Cardinality(s) \in Nat
  BY FS_Subset, FS_CardinalityType
<1>2. 0 \in Good
  <2>1. \A s \in Small(0) : s = {}
    BY <1>1, FS_EmptySet
  <2> DEFINE g == [s \in Small(0) |-> 0]
  <2>2. \A s \in Small(0) : AddsFirst(g, f, s) = 0
    BY <2>1 DEF AddsFirst
  <2>3. g = [s \in Small(0) |-> AddsFirst(g, f, s)]
    BY <2>2
  <2>4. Works(0)
    BY <2>3
  <2> QED
    BY <2>4
<1>3. ASSUME NEW n \in Nat, n \in Good PROVE n + 1 \in Good
  <2>1. PICK g : g = [s \in Small(n) |-> AddsFirst(g, f, s)]
    BY <1>3
  <2> DEFINE h == [s \in Small(n + 1) |-> AddsFirst(g, f, s)]
  <2>2. \A s \in Small(n + 1) : s # {} => s \ {first(s)} \in Small(n)
    BY <1>1, LessOne, FirstFacts
  <2>3. \A s \in Small(n) : s \in Small(n + 1)
    <3> SUFFICES ASSUME NEW s \in SUBSET S, Cardinality(s) <= n
                 PROVE  Cardinality(s) <= n + 1
      OBVIOUS
    <3>1. Cardinality(s) \in Nat
      BY <1>1
    <3> QED
      BY <3>1
  <2>4. \A s \in Small(n) : h[s] = g[s]
    BY <2>1, <2>3
  <2>5. \A s \in Small(n + 1) : AddsFirst(g, f, s) = AddsFirst(h, f, s)
    BY <2>2, <2>4 DEF AddsFirst
  <2>6. h = [s \in Small(n + 1) |-> AddsFirst(h, f, s)]
    BY <2>5
  <2>7. Works(n + 1)
    BY <2>6
  <2> QED
    BY <2>7
<1> HIDE DEF Good
<1>4. Nat \subseteq Good
  BY <1>2, <1>3, NumberInduction
<1>5. Cardinality(S) \in Nat /\ Small(Cardinality(S)) = SUBSET S
  BY <1>1, FS_Subset
<1>6. Works(Cardinality(S))
  BY <1>4, <1>5 DEF Good
<1> QED
  BY <1>5, <1>6 DEF Unfolds

\* Two solutions, for a set and a subset of it, agree.
LEMMA SumUnique ==
    ASSUME NEW f, NEW S, IsFiniteSet(S), NEW T \in SUBSET S, NEW g, NEW h,
           Unfolds(g, f, S), Unfolds(h, f, T)
    PROVE  \A s \in SUBSET T : g[s] = h[s]
<1> DEFINE Sizes == {n \in Nat : \A s \in SUBSET T : Cardinality(s) = n => g[s] = h[s]}
<1>1. \A s \in SUBSET T : IsFiniteSet(s) /\ Cardinality(s) \in Nat /\ s \in SUBSET S
  BY FS_Subset, FS_CardinalityType
<1>2. \A s \in SUBSET T : g[s] = AddsFirst(g, f, s) /\ h[s] = AddsFirst(h, f, s)
  BY DEF Unfolds
<1>3. 0 \in Sizes
  <2>1. \A s \in SUBSET T : Cardinality(s) = 0 => s = {}
    BY <1>1, FS_EmptySet
  <2> QED
    BY <1>2, <2>1 DEF AddsFirst
<1>4. ASSUME NEW n \in Nat, n \in Sizes PROVE n + 1 \in Sizes
  <2> SUFFICES ASSUME NEW s \in SUBSET T, Cardinality(s) = n + 1 PROVE g[s] = h[s]
    OBVIOUS
  <2>1. s # {}
    BY FS_EmptySet
  <2>2. s \ {first(s)} \in SUBSET T /\ Cardinality(s \ {first(s)}) = n
    BY <1>1, <2>1, LessOne, FirstFacts
  <2>3. g[s \ {first(s)}] = h[s \ {first(s)}]
    BY <1>4, <2>2
  <2> QED
    BY <1>2, <2>1, <2>3 DEF AddsFirst
<1> HIDE DEF Sizes
<1>5. Nat \subseteq Sizes
  BY <1>3, <1>4, NumberInduction
<1> QED
  BY <1>1, <1>5 DEF Sizes

\* One solution gives the sum over every subset.
LEMMA SumOfSubsets ==
    ASSUME NEW f, NEW S, IsFiniteSet(S)
    PROVE  \E sum : Unfolds(sum, f, S) /\ \A s \in SUBSET S : SumFunctionOnSet(f, s) = sum[s]
<1>1. PICK sum : Unfolds(sum, f, S)
  BY SumExists
<1>2. ASSUME NEW s \in SUBSET S PROVE SumFunctionOnSet(f, s) = sum[s]
  <2>1. IsFiniteSet(s)
    BY FS_Subset
  <2>2. Unfolds(CHOOSE h : Unfolds(h, f, s), f, s)
    BY <2>1, SumExists
  <2>3. sum[s] = (CHOOSE h : Unfolds(h, f, s))[s]
    BY <1>1, <2>2, SumUnique
  <2> QED
    BY <2>3, SumUnfolded
<1> QED
  BY <1>1, <1>2

---------------------------------------------------------------------------
\* The sum over nothing.
LEMMA SumOfNothing ==
    ASSUME NEW f
    PROVE  SumFunctionOnSet(f, {}) = 0
<1>1. IsFiniteSet({})
  BY FS_EmptySet
<1>2. PICK sum : Unfolds(sum, f, {}) /\ SumFunctionOnSet(f, {}) = sum[{}]
  BY <1>1, SumOfSubsets
<1> QED
  BY <1>2 DEF Unfolds, AddsFirst

\* The sum is the first element and the sum over the others.
LEMMA SumOfFirst ==
    ASSUME NEW f, NEW S, IsFiniteSet(S), S # {}
    PROVE  SumFunctionOnSet(f, S) = f[first(S)] + SumFunctionOnSet(f, S \ {first(S)})
<1>1. PICK sum : Unfolds(sum, f, S) /\ \A s \in SUBSET S : SumFunctionOnSet(f, s) = sum[s]
  BY SumOfSubsets
<1>2. sum[S] = f[first(S)] + sum[S \ {first(S)}]
  BY <1>1 DEF Unfolds, AddsFirst
<1> QED
  BY <1>1, <1>2

\* A sum of integers is an integer.
LEMMA SumType ==
    ASSUME NEW f, NEW S, IsFiniteSet(S), \A x \in S : f[x] \in Int
    PROVE  SumFunctionOnSet(f, S) \in Int
<1> DEFINE Sizes == {n \in Nat : \A s \in SUBSET S :
                        Cardinality(s) = n => SumFunctionOnSet(f, s) \in Int}
<1>1. \A s \in SUBSET S : IsFiniteSet(s) /\ Cardinality(s) \in Nat
  BY FS_Subset, FS_CardinalityType
<1>2. 0 \in Sizes
  BY <1>1, FS_EmptySet, SumOfNothing
<1>3. ASSUME NEW n \in Nat, n \in Sizes PROVE n + 1 \in Sizes
  <2> SUFFICES ASSUME NEW s \in SUBSET S, Cardinality(s) = n + 1
               PROVE  SumFunctionOnSet(f, s) \in Int
    OBVIOUS
  <2>1. s # {} /\ IsFiniteSet(s)
    BY <1>1, FS_EmptySet
  <2>2. first(s) \in s /\ s \ {first(s)} \in SUBSET S /\ Cardinality(s \ {first(s)}) = n
    BY <2>1, FirstFacts, LessOne
  <2>3. SumFunctionOnSet(f, s \ {first(s)}) \in Int /\ f[first(s)] \in Int
    BY <1>3, <2>2
  <2>4. SumFunctionOnSet(f, s) = f[first(s)] + SumFunctionOnSet(f, s \ {first(s)})
    BY <2>1, SumOfFirst
  <2> QED
    BY <2>3, <2>4
<1> HIDE DEF Sizes
<1>4. Nat \subseteq Sizes
  BY <1>2, <1>3, NumberInduction
<1> QED
  BY <1>1, <1>4 DEF Sizes

\* It does not matter which element is added first.
LEMMA SumAdds ==
    ASSUME NEW f, NEW S, IsFiniteSet(S), \A x \in S : f[x] \in Int, NEW x \in S
    PROVE  SumFunctionOnSet(f, S) = f[x] + SumFunctionOnSet(f, S \ {x})
<1> DEFINE sum(s) == SumFunctionOnSet(f, s)
           Sizes == {n \in Nat : \A s \in SUBSET S : Cardinality(s) = n =>
                        \A z \in s : sum(s) = f[z] + sum(s \ {z})}
<1>1. \A s \in SUBSET S : IsFiniteSet(s) /\ Cardinality(s) \in Nat /\ sum(s) \in Int
  BY FS_Subset, FS_CardinalityType, SumType
<1> HIDE DEF sum
<1>2. 0 \in Sizes
  BY <1>1, FS_EmptySet
<1>3. ASSUME NEW n \in Nat, n \in Sizes PROVE n + 1 \in Sizes
  <2> SUFFICES ASSUME NEW s \in SUBSET S, Cardinality(s) = n + 1, NEW z \in s
               PROVE  sum(s) = f[z] + sum(s \ {z})
    OBVIOUS
  <2> DEFINE y == first(s)
  <2>1. y \in s /\ sum(s) = f[y] + sum(s \ {y})
    BY <1>1, FirstFacts, SumOfFirst DEF sum
  <2> HIDE DEF y
  <2>2. \A u \in s : s \ {u} \in SUBSET S /\ Cardinality(s \ {u}) = n
    <3>1. IsFiniteSet(s)
      BY <1>1
    <3>2. \A u \in s : Cardinality(s \ {u}) = n
      BY <3>1, LessOne
    <3> QED
      BY <3>2
  <2>3. \A u \in s : \A v \in s \ {u} : sum(s \ {u}) = f[v] + sum((s \ {u}) \ {v})
    BY <1>3, <2>2
  <2>4. CASE z = y
    BY <2>1, <2>4
  <2>5. CASE z # y
    <3>1. (s \ {z}) \ {y} = (s \ {y}) \ {z} /\ (s \ {z}) \ {y} \in SUBSET S
      OBVIOUS
    <3>2. /\ sum(s \ {y}) = f[z] + sum((s \ {z}) \ {y})
          /\ sum(s \ {z}) = f[y] + sum((s \ {z}) \ {y})
      BY <2>1, <2>3, <2>5, <3>1
    <3>3. f[z] \in Int /\ f[y] \in Int /\ sum((s \ {z}) \ {y}) \in Int
      BY <1>1, <2>1, <3>1
    <3> QED
      BY <2>1, <3>2, <3>3
  <2> QED
    BY <2>4, <2>5
<1> HIDE DEF Sizes
<1>4. Nat \subseteq Sizes
  BY <1>2, <1>3, NumberInduction
<1>5. S \in SUBSET S
  OBVIOUS
<1>6. \A z \in S : sum(S) = f[z] + sum(S \ {z})
  BY <1>1, <1>4, <1>5 DEF Sizes
<1> QED
  BY <1>6 DEF sum

\* Functions that agree on a set have the same sum over it.
LEMMA SumOfSame ==
    ASSUME NEW f, NEW g, NEW S, IsFiniteSet(S), \A x \in S : f[x] \in Int /\ f[x] = g[x]
    PROVE  SumFunctionOnSet(f, S) = SumFunctionOnSet(g, S)
<1> DEFINE Good == {s \in SUBSET S : SumFunctionOnSet(f, s) = SumFunctionOnSet(g, s)}
<1>1. {} \in Good
  BY SumOfNothing
<1>2. ASSUME NEW s \in SUBSET S, NEW x \in S, s \in Good, x \notin s
      PROVE  s \cup {x} \in Good
  <2>1. IsFiniteSet(s \cup {x}) /\ (s \cup {x}) \ {x} = s
    BY <1>2, FS_Subset
  <2>2. \A y \in s \cup {x} : f[y] \in Int /\ g[y] \in Int
    OBVIOUS
  <2>3. SumFunctionOnSet(f, s \cup {x}) = f[x] + SumFunctionOnSet(f, s)
    BY <2>1, <2>2, SumAdds
  <2>4. SumFunctionOnSet(g, s \cup {x}) = g[x] + SumFunctionOnSet(g, s)
    BY <2>1, <2>2, SumAdds
  <2> QED
    BY <1>2, <2>3, <2>4
<1> HIDE DEF Good
<1>3. SUBSET S \subseteq Good
  BY <1>1, <1>2, SubsetInduction
<1> QED
  BY <1>3 DEF Good

\* A function that is constant on a set has this constant, times the size, as sum.
LEMMA SumOfConstant ==
    ASSUME NEW f, NEW S, IsFiniteSet(S), NEW c \in Int, \A x \in S : f[x] = c
    PROVE  SumFunctionOnSet(f, S) = c * Cardinality(S)
<1> DEFINE Good == {s \in SUBSET S : SumFunctionOnSet(f, s) = c * Cardinality(s)}
<1>1. {} \in Good
  BY SumOfNothing, FS_EmptySet
<1>2. ASSUME NEW s \in SUBSET S, NEW x \in S, s \in Good, x \notin s
      PROVE  s \cup {x} \in Good
  <2>1. IsFiniteSet(s \cup {x}) /\ (s \cup {x}) \ {x} = s /\ x \in s \cup {x}
    BY <1>2, FS_Subset
  <2>2. SumFunctionOnSet(f, s \cup {x}) = f[x] + SumFunctionOnSet(f, s)
    <3>1. \A y \in s \cup {x} : f[y] \in Int
      OBVIOUS
    <3>2. SumFunctionOnSet(f, s \cup {x}) = f[x] + SumFunctionOnSet(f, (s \cup {x}) \ {x})
      BY <2>1, <3>1, SumAdds
    <3> QED
      BY <2>1, <3>2
  <2>3. Cardinality(s) \in Nat /\ Cardinality(s \cup {x}) = Cardinality(s) + 1
    <3>1. IsFiniteSet(s)
      BY FS_Subset
    <3> QED
      BY <1>2, <3>1, FS_AddElement, FS_CardinalityType
  <2>4. c + c * Cardinality(s) = c * (Cardinality(s) + 1)
    BY <2>3
  <2> QED
    BY <1>2, <2>2, <2>3, <2>4
<1> HIDE DEF Good
<1>3. SUBSET S \subseteq Good
  BY <1>1, <1>2, SubsetInduction
<1> QED
  BY <1>3 DEF Good

\* Two sets without a common element have their sizes added.
LEMMA DisjointUnion ==
    ASSUME NEW S, NEW T, IsFiniteSet(S), IsFiniteSet(T), S \cap T = {}
    PROVE  Cardinality(S \cup T) = Cardinality(S) + Cardinality(T)
<1>1. Cardinality(S \cup T) = Cardinality(S) + Cardinality(T) - Cardinality(S \cap T)
  BY FS_Union
<1>2. Cardinality(S) \in Nat /\ Cardinality(T) \in Nat /\ Cardinality(S \cap T) = 0
  BY FS_CardinalityType, FS_EmptySet
<1> QED
  BY <1>1, <1>2

\* The sum up to n is the last element and the sum up to n - 1.
LEMMA SumUpTo ==
    ASSUME NEW f, NEW n \in Nat, \A x \in 0 .. n : f[x] \in Int
    PROVE  SumFunctionOnSet(f, 0 .. n) = f[n] + SumFunctionOnSet(f, 0 .. n - 1)
<1>1. IsFiniteSet(0 .. n) /\ n \in 0 .. n /\ (0 .. n) \ {n} = 0 .. n - 1
  <2>1. 0 \in Int /\ n \in Int /\ n \in 0 .. n /\ (0 .. n) \ {n} = 0 .. n - 1
    OBVIOUS
  <2> QED
    BY <2>1, FS_Interval
<1>2. SumFunctionOnSet(f, 0 .. n) = f[n] + SumFunctionOnSet(f, (0 .. n) \ {n})
  BY <1>1, SumAdds
<1> QED
  BY <1>1, <1>2

\* A sum is that of the elements at even places and that of those at odd places.
LEMMA SumEvenOdd ==
    ASSUME NEW f, NEW even, NEW odd, NEW n \in Nat,
           \A x \in 0 .. 2 * n - 1 : f[x] \in Int,
           \A j \in 0 .. n - 1 : even[j] = f[2 * j] /\ odd[j] = f[2 * j + 1]
    PROVE  SumFunctionOnSet(f, 0 .. 2 * n - 1) =
               SumFunctionOnSet(even, 0 .. n - 1) + SumFunctionOnSet(odd, 0 .. n - 1)
<1> DEFINE sum(g, m) == SumFunctionOnSet(g, 0 .. m - 1)
           Good == {m \in Nat : m <= n => sum(f, 2 * m) = sum(even, m) + sum(odd, m)}
<1>1. 0 \in Good
  <2>1. 0 .. 2 * 0 - 1 = {} /\ 0 .. 0 - 1 = {}
    OBVIOUS
  <2> QED
    BY <2>1, SumOfNothing
<1>2. ASSUME NEW m \in Nat, m \in Good PROVE m + 1 \in Good
  <2> SUFFICES ASSUME m + 1 <= n
               PROVE  sum(f, 2 * (m + 1)) = sum(even, m + 1) + sum(odd, m + 1)
    OBVIOUS
  <2>1. /\ \A x \in 0 .. 2 * m + 1 : f[x] \in Int
        /\ \A j \in 0 .. m : even[j] \in Int /\ odd[j] \in Int
        /\ even[m] = f[2 * m] /\ odd[m] = f[2 * m + 1]
    OBVIOUS
  <2>2. SumFunctionOnSet(f, 0 .. 2 * m + 1) = f[2 * m + 1] + SumFunctionOnSet(f, 0 .. 2 * m)
    <3>1. 2 * m + 1 \in Nat /\ 2 * m + 1 - 1 = 2 * m
      OBVIOUS
    <3> QED
      BY <2>1, <3>1, SumUpTo
  <2>3. SumFunctionOnSet(f, 0 .. 2 * m) = f[2 * m] + SumFunctionOnSet(f, 0 .. 2 * m - 1)
    <3>1. 2 * m \in Nat /\ \A x \in 0 .. 2 * m : f[x] \in Int
      BY <2>1
    <3> QED
      BY <3>1, SumUpTo
  <2>4. /\ SumFunctionOnSet(even, 0 .. m) = even[m] + SumFunctionOnSet(even, 0 .. m - 1)
        /\ SumFunctionOnSet(odd, 0 .. m) = odd[m] + SumFunctionOnSet(odd, 0 .. m - 1)
    BY <2>1, SumUpTo
  <2>5. sum(f, 2 * m) = sum(even, m) + sum(odd, m)
    BY <1>2
  <2>6. 2 * (m + 1) - 1 = 2 * m + 1 /\ (m + 1) - 1 = m
    OBVIOUS
  <2>7. sum(even, m) \in Int /\ sum(odd, m) \in Int
    <3>1. IsFiniteSet(0 .. m - 1)
      BY FS_Interval
    <3>2. \A j \in 0 .. m - 1 : even[j] \in Int /\ odd[j] \in Int
      BY <2>1
    <3> QED
      BY <3>1, <3>2, SumType
  <2>8. /\ sum(f, 2 * (m + 1)) = f[2 * m + 1] + (f[2 * m] + sum(f, 2 * m))
        /\ sum(even, m + 1) = even[m] + sum(even, m)
        /\ sum(odd, m + 1) = odd[m] + sum(odd, m)
    BY <2>2, <2>3, <2>4, <2>6
  <2>9. f[2 * m] \in Int /\ f[2 * m + 1] \in Int
    BY <2>1
  <2> HIDE DEF sum
  <2> QED
    BY <2>1, <2>5, <2>7, <2>8, <2>9
<1> HIDE DEF Good
<1>3. Nat \subseteq Good
  BY <1>1, <1>2, NumberInduction
<1> QED
  BY <1>3 DEF Good
=============================================================================
