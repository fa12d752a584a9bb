----------------------------- MODULE SumTheorems ------------------------------
(***************************************************************************)
(* Facts about finite sets of any size that the proofs of the components   *)
(* rest on: induction over the subsets of a finite set and over an         *)
(* interval, and what FoldFunction(+, 0, f) is for a function f with a     *)
(* finite domain.                                                          *)
(*                                                                         *)
(* The principles of induction take the set G of the cases that hold, not  *)
(* a predicate: they follow from the strict subsets of a finite set being  *)
(* well-founded.  A sum is first shown to be the value of a function that  *)
(* is built one place at a time, and then to be the same whichever place   *)
(* is added first; after that no proof unfolds a fold.                     *)
(***************************************************************************)
EXTENDS Integers, Functions, FiniteSetTheorems, TLAPS

\* What holds of a finite set's subset whenever it holds of the smaller ones holds
\* of all its subsets.
LEMMA StrongInduction ==
  ASSUME NEW S, IsFiniteSet(S), NEW G,
         \A T \in SUBSET S : (\A U \in SUBSET T : U # T => U \in G) => T \in G
  PROVE  \A T \in SUBSET S : T \in G
<1> SUFFICES ASSUME \E T \in SUBSET S : T \notin G PROVE FALSE
  OBVIOUS
<1> DEFINE B == {T \in SUBSET S : T \notin G}
<1>1. FiniteSubsetsOf(S) = SUBSET S
  BY FS_FiniteSubsetsOfFinite
<1>2. B # {} /\ B \subseteq FiniteSubsetsOf(S)
  BY <1>1
<1>3. IsWellFoundedOn(StrictSubsetOrdering(S), FiniteSubsetsOf(S))
  BY FS_StrictSubsetOrderingWellFounded
<1> HIDE DEF B
<1>4. PICK T \in B : \A U \in B : <<U, T>> \notin StrictSubsetOrdering(S)
  BY <1>2, <1>3, WFMin
<1>5. T \in SUBSET S /\ T \notin G
  BY <1>4 DEF B
<1>6. ASSUME NEW U \in SUBSET T, U # T PROVE U \in G
  <2>1. U \in SUBSET S
    BY <1>5
  <2>2. <<U, T>> \in StrictSubsetOrdering(S)
    BY <1>5, <1>6, <2>1 DEF StrictSubsetOrdering
  <2> QED
    BY <1>4, <2>1, <2>2 DEF B
<1> QED
  BY <1>5, <1>6

\* What holds of the empty set, and of one element more, holds of a finite set.
LEMMA SetInduction ==
  ASSUME NEW S, IsFiniteSet(S), NEW G, {} \in G,
         \A T \in SUBSET S : \A x \in S \ T : T \in G => T \union {x} \in G
  PROVE  S \in G
<1>1. ASSUME NEW T \in SUBSET S, \A U \in SUBSET T : U # T => U \in G
      PROVE  T \in G
  <2>1. CASE T = {}
    BY <2>1
  <2>2. CASE T # {}
    <3>1. PICK x \in T : TRUE
      BY <2>2
    <3>2. T \ {x} \in G
      BY <1>1, <3>1
    <3>3. (T \ {x}) \union {x} = T /\ x \in S \ (T \ {x}) /\ T \ {x} \in SUBSET S
      BY <3>1
    <3> QED
      BY <3>2, <3>3
  <2> QED
    BY <2>1, <2>2
<1>2. \A T \in SUBSET S : T \in G
  BY <1>1, StrongInduction
<1> QED
  BY <1>2

\* What holds of 0, and goes on from each number to the next, holds up to n.
LEMMA CountInduction ==
  ASSUME NEW n \in Nat, NEW G, 0 \in G,
         \A k \in 0..n - 1 : k \in G => k + 1 \in G
  PROVE  \A k \in 0..n : k \in G
<1> DEFINE H == {T \in SUBSET (1..n) : \A k \in 0..n : T = 1..k => k \in G}
<1>1. IsFiniteSet(1..n)
  BY FS_Interval
<1>2. ASSUME NEW T \in SUBSET (1..n), \A U \in SUBSET T : U # T => U \in H
      PROVE  T \in H
  <2>1. ASSUME NEW k \in 0..n, T = 1..k PROVE k \in G
    <3>1. CASE k = 0
      BY <3>1
    <3>2. CASE k # 0
      <4>1. k - 1 \in 0..n - 1 /\ k - 1 \in 0..n /\ k - 1 + 1 = k
        BY <3>2
      <4>2. 1..(k - 1) \in SUBSET T
        BY <2>1, <4>1
      <4>3. k \in T /\ k \notin 1..(k - 1)
        BY <2>1, <3>2
      <4>4. 1..(k - 1) \in H
        BY <1>2, <4>2, <4>3
      <4>5. k - 1 \in G
        BY <4>1, <4>4
      <4> QED
        BY <4>1, <4>5
    <3> QED
      BY <3>1, <3>2
  <2> QED
    BY <2>1
<1>3. \A T \in SUBSET (1..n) : T \in H
  <2> HIDE DEF H
  <2> QED
    BY <1>1, <1>2, StrongInduction
<1>4. ASSUME NEW k \in 0..n PROVE k \in G
  <2>1. 1..k \in SUBSET (1..n)
    OBVIOUS
  <2> QED
    BY <1>3, <2>1
<1> QED
  BY <1>4

-----------------------------------------------------------------------------
\* A finite set of numbers has a least and a greatest member.
LEMMA Extremes ==
  ASSUME NEW S \in SUBSET Int, IsFiniteSet(S), S # {}
  PROVE  /\ \E m \in S : \A x \in S : m <= x
         /\ \E m \in S : \A x \in S : x <= m
<1> DEFINE G == {T \in SUBSET S : T # {} => /\ \E m \in T : \A x \in T : m <= x
                                            /\ \E m \in T : \A x \in T : x <= m}
<1>1. {} \in G
  OBVIOUS
<1>2. ASSUME NEW T \in SUBSET S, NEW x \in S \ T, T \in G PROVE T \union {x} \in G
  <2>1. x \in Int /\ T \subseteq Int
    OBVIOUS
  <2>2. CASE T = {}
    BY <2>1, <2>2
  <2>3. CASE T # {}
    <3>1. PICK l \in T : \A y \in T : l <= y
      BY <1>2, <2>3
    <3>2. PICK g \in T : \A y \in T : y <= g
      BY <1>2, <2>3
    <3> DEFINE a == IF x < l THEN x ELSE l
               b == IF g < x THEN x ELSE g
    <3>3. a \in T \union {x} /\ \A y \in T \union {x} : a <= y
      BY <2>1, <3>1
    <3>4. b \in T \union {x} /\ \A y \in T \union {x} : y <= b
      BY <2>1, <3>2
    <3> QED
      BY <3>3, <3>4
  <2> QED
    BY <2>2, <2>3
<1>3. S \in G
  <2> HIDE DEF G
  <2>1. \A T \in SUBSET S : \A x \in S \ T : T \in G => T \union {x} \in G
    BY <1>2
  <2> QED
    BY <1>1, <2>1, SetInduction
<1> QED
  BY <1>3

-----------------------------------------------------------------------------
\* The recursive definition of a sum
IsSum(g, f, S) ==
  g = [s \in SUBSET S |->
         IF s = {} THEN 0
         ELSE f[CHOOSE x \in s : TRUE] + g[s \ {CHOOSE x \in s : TRUE}]]

\* A function with a finite domain has a sum over each subset of the domain: the
\* functions Upto(k), for subsets of k elements, are built one from the other.
LEMMA SumExists ==
  ASSUME NEW S, IsFiniteSet(S), NEW f \in [S -> Int]
  PROVE  \E g \in [SUBSET S -> Int] : IsSum(g, f, S)
<1> DEFINE P(s) == CHOOSE x \in s : TRUE
           Upto(k) == {s \in SUBSET S : Cardinality(s) <= k}
           Partial(g, k) == g = [s \in Upto(k) |-> IF s = {} THEN 0 ELSE f[P(s)] + g[s \ {P(s)}]]
           G == {k \in Nat : \E g \in [Upto(k) -> Int] : Partial(g, k)}
<1>1. /\ Cardinality(S) \in Nat
      /\ \A s \in SUBSET S : IsFiniteSet(s) /\ Cardinality(s) \in Nat /\ Cardinality(s) <= Cardinality(S)
  BY FS_Subset, FS_CardinalityType
<1>2. \A s \in SUBSET S : Cardinality(s) = 0 <=> s = {}
  BY <1>1, FS_EmptySet
<1>3. \A s \in SUBSET S : s # {} => P(s) \in s /\ s \ {P(s)} \in SUBSET S
                                   /\ Cardinality(s \ {P(s)}) = Cardinality(s) - 1
  <2>1. \A s \in SUBSET S : s # {} => P(s) \in s
    OBVIOUS
  <2> QED
    BY <1>1, <2>1, FS_RemoveElement
<1> HIDE DEF P
<1>4. 0 \in G
  <2> DEFINE g == [s \in Upto(0) |-> 0]
  <2>1. g \in [Upto(0) -> Int]
    OBVIOUS
  <2>2. Partial(g, 0)
    BY <1>1, <1>2
  <2> QED
    BY <2>1, <2>2
<1>5. ASSUME NEW k \in Nat, k \in G PROVE k + 1 \in G
  <2>1. PICK g \in [Upto(k) -> Int] : Partial(g, k)
    BY <1>5
  <2> DEFINE h == [s \in Upto(k + 1) |-> IF s \in Upto(k) THEN g[s] ELSE f[P(s)] + g[s \ {P(s)}]]
  <2>2. ASSUME NEW s \in Upto(k + 1), s # {}
        PROVE  /\ P(s) \in S /\ s \ {P(s)} \in Upto(k) /\ s \ {P(s)} \in Upto(k + 1)
               /\ f[P(s)] \in Int /\ g[s \ {P(s)}] \in Int
    <3>1. s \in SUBSET S /\ Cardinality(s) \in Nat /\ Cardinality(s) <= k + 1
      BY <1>1
    <3>2. P(s) \in s /\ s \ {P(s)} \in SUBSET S /\ Cardinality(s \ {P(s)}) = Cardinality(s) - 1
      BY <1>3, <2>2, <3>1
    <3>3. Cardinality(s \ {P(s)}) <= k /\ Cardinality(s \ {P(s)}) <= k + 1
      BY <3>1, <3>2
    <3> QED
      BY <3>1, <3>2, <3>3
  <2>3. {} \in Upto(k) /\ g[{}] = 0
    <3>1. {} \in Upto(k)
      BY FS_EmptySet
    <3> QED
      BY <2>1, <3>1
  <2>4. ASSUME NEW s \in Upto(k + 1) PROVE h[s] = IF s = {} THEN 0 ELSE f[P(s)] + h[s \ {P(s)}]
    <3>1. CASE s = {}
      BY <2>3, <3>1
    <3>2. CASE s # {} /\ s \in Upto(k)
      <4>1. g[s] = f[P(s)] + g[s \ {P(s)}]
        BY <2>1, <3>2
      <4>2. h[s] = g[s] /\ h[s \ {P(s)}] = g[s \ {P(s)}]
        BY <2>2, <3>2
      <4> QED
        BY <3>2, <4>1, <4>2
    <3>3. CASE s # {} /\ s \notin Upto(k)
      <4>1. h[s] = f[P(s)] + g[s \ {P(s)}] /\ h[s \ {P(s)}] = g[s \ {P(s)}]
        BY <2>2, <3>3
      <4> QED
        BY <3>3, <4>1
    <3> QED
      BY <3>1, <3>2, <3>3
  <2>5. h \in [Upto(k + 1) -> Int]
    <3>1. ASSUME NEW s \in Upto(k + 1), s \notin Upto(k) PROVE s # {}
      BY <2>3, <3>1
    <3>2. ASSUME NEW s \in Upto(k + 1) PROVE h[s] \in Int
      <4>1. CASE s \in Upto(k)
        BY <4>1, <2>1
      <4>2. CASE s \notin Upto(k)
        BY <2>2, <3>1, <4>2
      <4> QED
        BY <4>1, <4>2
    <3> QED
      BY <3>2
  <2>6. Partial(h, k + 1)
    BY <2>4
  <2>7. \E e \in [Upto(k + 1) -> Int] : Partial(e, k + 1)
    <3> HIDE DEF h, Partial, Upto
    <3> QED
      BY <2>5, <2>6
  <2>8. k + 1 \in Nat
    OBVIOUS
  <2> HIDE DEF Partial, Upto
  <2> QED
    BY <2>7, <2>8
<1>6. Cardinality(S) \in G
  <2>1. \A k \in 0..Cardinality(S) - 1 : k \in G => k + 1 \in G
    BY <1>1, <1>5
  <2> HIDE DEF G
  <2>2. \A k \in 0..Cardinality(S) : k \in G
    BY <1>1, <1>4, <2>1, CountInduction
  <2> QED
    BY <1>1, <2>2
<1>7. Upto(Cardinality(S)) = SUBSET S
  BY <1>1
<1>8. PICK g \in [SUBSET S -> Int] : Partial(g, Cardinality(S))
  BY <1>6, <1>7
<1>9. IsSum(g, f, S)
  BY <1>7, <1>8 DEF IsSum, P
<1> QED
  BY <1>9

\* Whichever element is taken first
LEMMA SumAnyOrder ==
  ASSUME NEW S, IsFiniteSet(S), NEW f \in [S -> Int], NEW g \in [SUBSET S -> Int], IsSum(g, f, S)
  PROVE  /\ g[{}] = 0
         /\ \A T \in SUBSET S : \A x \in T : g[T] = f[x] + g[T \ {x}]
<1> DEFINE P(s) == CHOOSE x \in s : TRUE
           G == {T \in SUBSET S : \A x \in T : g[T] = f[x] + g[T \ {x}]}
<1>1. g[{}] = 0
  BY DEF IsSum
<1>2. \A s \in SUBSET S : s # {} => P(s) \in s /\ g[s] = f[P(s)] + g[s \ {P(s)}]
  BY DEF IsSum
<1> HIDE DEF P
<1>3. ASSUME NEW T \in SUBSET S, \A U \in SUBSET T : U # T => U \in G
      PROVE  T \in G
  <2>1. ASSUME NEW x \in T PROVE g[T] = f[x] + g[T \ {x}]
    <3> DEFINE y == P(T)
    <3>1. y \in T /\ g[T] = f[y] + g[T \ {y}]
      BY <1>2
    <3> HIDE DEF y
    <3>2. CASE x = y
      BY <3>1, <3>2
    <3>3. CASE x # y
      <4>1. T \ {y} \in G /\ T \ {x} \in G /\ x \in T \ {y} /\ y \in T \ {x}
        BY <1>3, <3>1, <3>3
      <4>2. g[T \ {y}] = f[x] + g[(T \ {y}) \ {x}] /\ g[T \ {x}] = f[y] + g[(T \ {x}) \ {y}]
        BY <4>1
      <4>3. (T \ {y}) \ {x} = (T \ {x}) \ {y} /\ (T \ {x}) \ {y} \in SUBSET S
        OBVIOUS
      <4>4. f[x] \in Int /\ f[y] \in Int /\ g[(T \ {x}) \ {y}] \in Int
        BY <3>1, <4>3
      <4> DEFINE rest == g[(T \ {x}) \ {y}]
      <4>5. g[T] = f[y] + (f[x] + rest) /\ g[T \ {x}] = f[y] + rest
        BY <3>1, <4>2, <4>3
      <4> HIDE DEF rest
      <4> QED
        BY <4>4, <4>5 DEF rest
    <3> QED
      BY <3>2, <3>3
  <2> QED
    BY <2>1
<1>4. \A T \in SUBSET S : T \in G
  <2> HIDE DEF G
  <2> QED
    BY <1>3, StrongInduction
<1> QED
  BY <1>1, <1>4

Summed(f) == FoldFunction(+, 0, f)

\* The recursive definition gives integers.
LEMMA SumTyped ==
  ASSUME NEW S, IsFiniteSet(S), NEW f \in [S -> Int], NEW g, IsSum(g, f, S)
  PROVE  g \in [SUBSET S -> Int]
<1> DEFINE G == {T \in SUBSET S : g[T] \in Int}
<1>1. ASSUME NEW T \in SUBSET S, \A U \in SUBSET T : U # T => U \in G
      PROVE  T \in G
  <2>1. CASE T = {}
    BY <2>1 DEF IsSum
  <2>2. CASE T # {}
    <3>1. PICK x \in T : g[T] = f[x] + g[T \ {x}]
      BY <2>2 DEF IsSum
    <3>2. T \ {x} \in G
      BY <1>1, <3>1
    <3> QED
      BY <3>1, <3>2
  <2> QED
    BY <2>1, <2>2
<1>2. \A T \in SUBSET S : T \in G
  <2> HIDE DEF G
  <2> QED
    BY <1>1, StrongInduction
<1> QED
  BY <1>2 DEF IsSum

\* A recursive sum over a finite set of numbers is one, and more than zero if
\* each of them and their number are.
LEMMA SumOfNaturals ==
  ASSUME NEW S, IsFiniteSet(S), NEW f \in [S -> Nat], NEW g, IsSum(g, f, S)
  PROVE  /\ g[S] \in Nat
         /\ S # {} /\ (\A x \in S : f[x] > 0) => g[S] > 0
<1>0. f \in [S -> Int]
  OBVIOUS
<1>1. g \in [SUBSET S -> Int]
  BY <1>0, SumTyped
<1>2. g[{}] = 0 /\ \A T \in SUBSET S : \A x \in T : g[T] = f[x] + g[T \ {x}]
  BY <1>0, <1>1, SumAnyOrder
<1> DEFINE G == {T \in SUBSET S : g[T] \in Nat}
<1>3. {} \in G
  BY <1>2
<1>4. ASSUME NEW T \in SUBSET S, NEW x \in S \ T, T \in G PROVE T \union {x} \in G
  <2>1. T \union {x} \in SUBSET S /\ (T \union {x}) \ {x} = T
    OBVIOUS
  <2>2. g[T \union {x}] = f[x] + g[T]
    BY <1>2, <2>1
  <2> QED
    BY <1>4, <2>1, <2>2
<1>5. \A T \in SUBSET S : T \in G
  <2>1. ASSUME NEW T \in SUBSET S, \A U \in SUBSET T : U # T => U \in G PROVE T \in G
    <3>1. CASE T = {}
      BY <1>3, <3>1
    <3>2. CASE T # {}
      <4>1. PICK x \in T : TRUE
        BY <3>2
      <4>2. T \ {x} \in G /\ x \in S \ (T \ {x}) /\ (T \ {x}) \union {x} = T /\ T \ {x} \in SUBSET S
        BY <2>1, <4>1
      <4> HIDE DEF G
      <4> QED
        BY <1>4, <4>2
    <3> QED
      BY <3>1, <3>2
  <2> HIDE DEF G
  <2> QED
    BY <2>1, StrongInduction
<1>6. ASSUME NEW x \in S, f[x] > 0 PROVE g[S] > 0
  <2>1. g[S] = f[x] + g[S \ {x}] /\ S \ {x} \in G
    BY <1>2, <1>5
  <2> QED
    BY <1>6, <2>1
<1> QED
  BY <1>5, <1>6

\* total[T] is the sum of what f has at T.
Sums(total, f, S) ==
  /\ total \in [SUBSET S -> Int]
  /\ total[{}] = 0
  /\ \A T \in SUBSET S : \A x \in S \ T : total[T \union {x}] = total[T] + f[x]

\* The fold that the modules count with (what the limiter's windows hold, what the
\* alert service has been told of a rule) is a sum: nothing over no place, and one
\* place's value more with each place, whichever is added.
THEOREM FoldIsSum ==
  ASSUME NEW S, IsFiniteSet(S), NEW f \in [S -> Int]
  PROVE  \E total : Sums(total, f, S) /\ Summed(f) = total[S]
<1> DEFINE g == CHOOSE h : IsSum(h, f, S)
<1>1. Summed(f) = (CHOOSE h : IsSum(h, f, DOMAIN f))[DOMAIN f]
  BY Zenon DEF Summed, FoldFunction, FoldFunctionOnSet, MapThenFoldSet, IsSum
<1>2. PICK e \in [SUBSET S -> Int] : IsSum(e, f, S)
  BY SumExists
<1>3. DOMAIN f = S
  OBVIOUS
<1>4. IsSum(g, f, S)
  BY <1>2, Zenon
<1>10. Summed(f) = g[S]
  BY <1>1, <1>3, Zenon
<1> HIDE DEF g
<1>5. IsFiniteSet(S) /\ f \in [S -> Int]
  OBVIOUS
<1>6. g \in [SUBSET S -> Int]
  BY <1>4, <1>5, SumTyped
<1>7. PICK total \in [SUBSET S -> Int] : IsSum(total, f, S) /\ Summed(f) = total[S]
  BY <1>4, <1>6, <1>10
<1>8. /\ total[{}] = 0
      /\ \A T \in SUBSET S : \A x \in T : total[T] = f[x] + total[T \ {x}]
  <2>1. IsFiniteSet(S) /\ f \in [S -> Int] /\ total \in [SUBSET S -> Int] /\ IsSum(total, f, S)
    BY <1>7
  <2> QED
    BY <2>1, SumAnyOrder, SMTT(30)
<1>9. ASSUME NEW T \in SUBSET S, NEW x \in S \ T
      PROVE  total[T \union {x}] = total[T] + f[x]
  <2>1. T \union {x} \in SUBSET S /\ x \in T \union {x} /\ (T \union {x}) \ {x} = T
    OBVIOUS
  <2>2. total[T \union {x}] = f[x] + total[T]
    BY <1>8, <2>1
  <2> QED
    BY <1>7, <2>2
<1> QED
  BY <1>7, <1>8, <1>9 DEF Sums

-----------------------------------------------------------------------------
(* What sums do *)

\* What the community modules compute of naturals is such a sum.
LEMMA SumSteps ==
  ASSUME NEW S, IsFiniteSet(S), NEW f \in [S -> Nat], NEW g, IsSum(g, f, S)
  PROVE  Sums(g, f, S)
<1>0. f \in [S -> Int]
  OBVIOUS
<1>1. g \in [SUBSET S -> Int]
  BY <1>0, SumTyped
<1>2. g[{}] = 0 /\ \A T \in SUBSET S : \A x \in T : g[T] = f[x] + g[T \ {x}]
  BY <1>0, <1>1, SumAnyOrder
<1>3. ASSUME NEW T \in SUBSET S, NEW x \in S \ T
      PROVE  g[T \union {x}] = g[T] + f[x]
  <2>1. T \union {x} \in SUBSET S /\ x \in T \union {x} /\ (T \union {x}) \ {x} = T
    OBVIOUS
  <2>2. g[T \union {x}] = f[x] + g[T]
    BY <1>2, <2>1
  <2> QED
    BY <1>1, <2>2
<1> QED
  BY <1>1, <1>2, <1>3 DEF Sums

\* x is at least low and at most high times y.
Between(low, x, y, high) == low * y <= x /\ x <= high * y

\* Of two sums, what bounds each place by a factor bounds the whole.
LEMMA SumBetween ==
  ASSUME NEW S, IsFiniteSet(S), NEW f \in [S -> Nat], NEW z \in [S -> Nat],
         NEW g, IsSum(g, f, S), NEW h, IsSum(h, z, S), NEW low \in Nat, NEW high \in Nat,
         \A x \in S : Between(low, f[x], z[x], high)
  PROVE  Between(low, g[S], h[S], high)
<1>0. Sums(g, f, S)
  BY SumSteps
<1>1. Sums(h, z, S)
  BY SumSteps
<1> DEFINE G == {T \in SUBSET S : Between(low, g[T], h[T], high)}
<1>3. {} \in G
  BY <1>0, <1>1 DEF Sums, Between
<1>4. \A a, b, c \in Int : a * (b + c) = a * b + a * c /\ a * b \in Int
  OBVIOUS
<1>5. ASSUME NEW T \in SUBSET S, \A U \in SUBSET T : U # T => U \in G PROVE T \in G
  <2>1. CASE T = {}
    BY <1>3, <2>1
  <2>2. CASE T # {}
    <3>1. PICK x \in T : TRUE
      BY <2>2
    <3> DEFINE U == T \ {x}
    <3>0. U \in SUBSET S /\ x \in S \ U /\ U \union {x} = T /\ U \in SUBSET T /\ U # T
      BY <3>1
    <3>2. U \in G /\ g[T] = g[U] + f[x] /\ h[T] = h[U] + z[x]
      <4>1. U \in G
        <5> HIDE DEF G, U
        <5> QED
          BY <1>5, <3>0
      <4>2. g[T] = g[U] + f[x] /\ h[T] = h[U] + z[x]
        <5> HIDE DEF U
        <5> QED
          BY <1>0, <1>1, <3>0 DEF Sums
      <4> QED
        BY <4>1, <4>2
    <3>3. /\ low * h[U] <= g[U] /\ g[U] <= high * h[U]
          /\ low * z[x] <= f[x] /\ f[x] <= high * z[x]
      BY <3>1, <3>2 DEF Between
    <3>4. g[U] \in Int /\ h[U] \in Int /\ f[x] \in Int /\ z[x] \in Int
      BY <1>0, <1>1 DEF Sums
    <3> HIDE DEF U
    <3>5. /\ low * h[T] = low * z[x] + low * h[U]
          /\ high * h[T] = high * z[x] + high * h[U]
      BY <1>4, <3>2, <3>4
    <3>6. /\ low * z[x] \in Int /\ low * h[U] \in Int /\ high * z[x] \in Int /\ high * h[U] \in Int
      BY <1>4, <3>4
    <3> QED
      BY <3>2, <3>3, <3>4, <3>5, <3>6 DEF Between
  <2> QED
    BY <2>1, <2>2
<1>6. \A T \in SUBSET S : T \in G
  <2> HIDE DEF G
  <2> QED
    BY <1>5, StrongInduction
<1> QED
  BY <1>6

\* A sum of integers is one.
LEMMA SumType ==
  ASSUME NEW S, IsFiniteSet(S), NEW f \in [S -> Int]
  PROVE  Summed(f) \in Int
<1>1. PICK total : Sums(total, f, S) /\ Summed(f) = total[S]
  BY FoldIsSum
<1> QED
  BY <1>1 DEF Sums

\* Place by place at most, and at most in all.
LEMMA SumAtMost ==
  ASSUME NEW S, IsFiniteSet(S), NEW f \in [S -> Int], NEW h \in [S -> Int],
         \A x \in S : f[x] <= h[x]
  PROVE  Summed(f) <= Summed(h)
<1>1. PICK a : Sums(a, f, S) /\ Summed(f) = a[S]
  BY FoldIsSum
<1>2. PICK b : Sums(b, h, S) /\ Summed(h) = b[S]
  BY FoldIsSum
<1> DEFINE G == {T \in SUBSET S : a[T] <= b[T]}
<1>3. {} \in G
  BY <1>1, <1>2 DEF Sums
<1>4. ASSUME NEW T \in SUBSET S, NEW x \in S \ T, T \in G PROVE T \union {x} \in G
  <2>1. a[T \union {x}] = a[T] + f[x] /\ b[T \union {x}] = b[T] + h[x]
    BY <1>1, <1>2 DEF Sums
  <2>2. a[T] \in Int /\ b[T] \in Int /\ f[x] \in Int /\ h[x] \in Int /\ f[x] <= h[x] /\ a[T] <= b[T]
    BY <1>1, <1>2, <1>4 DEF Sums
  <2>3. T \union {x} \in SUBSET S
    OBVIOUS
  <2> QED
    BY <2>1, <2>2, <2>3
<1>5. S \in G
  <2> HIDE DEF G
  <2> QED
    BY <1>3, <1>4, SetInduction
<1> QED
  BY <1>1, <1>2, <1>5

\* Nothing, anywhere, is nothing.
LEMMA SumOfZeros ==
  ASSUME NEW S, IsFiniteSet(S), NEW f \in [S -> Int], \A x \in S : f[x] = 0
  PROVE  Summed(f) = 0
<1>1. PICK a : Sums(a, f, S) /\ Summed(f) = a[S]
  BY FoldIsSum
<1> DEFINE G == {T \in SUBSET S : a[T] = 0}
<1>2. {} \in G
  BY <1>1 DEF Sums
<1>3. ASSUME NEW T \in SUBSET S, NEW x \in S \ T, T \in G PROVE T \union {x} \in G
  <2>1. a[T \union {x}] = a[T] + f[x] /\ f[x] = 0 /\ a[T] = 0 /\ T \union {x} \in SUBSET S
    BY <1>1, <1>3 DEF Sums
  <2> QED
    BY <2>1
<1>4. S \in G
  <2> HIDE DEF G
  <2> QED
    BY <1>2, <1>3, SetInduction
<1> QED
  BY <1>1, <1>4

\* Two sums over the same places add up place by place.
LEMMA SumOfSums ==
  ASSUME NEW S, IsFiniteSet(S), NEW f \in [S -> Int], NEW h \in [S -> Int], NEW e \in [S -> Int],
         \A x \in S : h[x] = f[x] + e[x]
  PROVE  Summed(h) = Summed(f) + Summed(e)
<1>1. PICK a : Sums(a, f, S) /\ Summed(f) = a[S]
  BY FoldIsSum
<1>2. PICK b : Sums(b, h, S) /\ Summed(h) = b[S]
  BY FoldIsSum
<1>3. PICK c : Sums(c, e, S) /\ Summed(e) = c[S]
  BY FoldIsSum
<1> DEFINE G == {T \in SUBSET S : b[T] = a[T] + c[T]}
<1>4. {} \in G
  BY <1>1, <1>2, <1>3 DEF Sums
<1>5. ASSUME NEW T \in SUBSET S, NEW x \in S \ T, T \in G PROVE T \union {x} \in G
  <2>1. /\ a[T \union {x}] = a[T] + f[x] /\ b[T \union {x}] = b[T] + h[x]
        /\ c[T \union {x}] = c[T] + e[x]
    BY <1>1, <1>2, <1>3 DEF Sums
  <2>2. /\ a[T] \in Int /\ b[T] \in Int /\ c[T] \in Int /\ f[x] \in Int /\ h[x] \in Int /\ e[x] \in Int
        /\ h[x] = f[x] + e[x] /\ b[T] = a[T] + c[T]
    BY <1>1, <1>2, <1>3, <1>5 DEF Sums
  <2>3. T \union {x} \in SUBSET S
    OBVIOUS
  <2> QED
    BY <2>1, <2>2, <2>3
<1>6. S \in G
  <2> HIDE DEF G
  <2> QED
    BY <1>4, <1>5, SetInduction
<1> QED
  BY <1>1, <1>2, <1>3, <1>6

\* One more place.
LEMMA SumWithPlace ==
  ASSUME NEW S, IsFiniteSet(S), NEW x, x \notin S, NEW X, X = S \union {x},
         NEW f \in [S -> Int], NEW h \in [X -> Int], \A y \in S : h[y] = f[y]
  PROVE  Summed(h) = Summed(f) + h[x]
<1>1. PICK a : Sums(a, f, S) /\ Summed(f) = a[S]
  BY FoldIsSum
<1>2. IsFiniteSet(X) /\ h \in [X -> Int]
  BY FS_AddElement
<1>3. PICK b : Sums(b, h, X) /\ Summed(h) = b[X]
  BY <1>2, FoldIsSum
<1> DEFINE G == {T \in SUBSET S : b[T] = a[T]}
<1>4. {} \in G
  BY <1>1, <1>3 DEF Sums
<1>5. ASSUME NEW T \in SUBSET S, NEW y \in S \ T, T \in G PROVE T \union {y} \in G
  <2>1. a[T \union {y}] = a[T] + f[y] /\ b[T \union {y}] = b[T] + h[y]
    BY <1>1, <1>3 DEF Sums
  <2> QED
    BY <1>5, <2>1
<1>6. S \in G
  <2> HIDE DEF G
  <2> QED
    BY <1>4, <1>5, SetInduction
<1>7. b[X] = b[S] + h[x]
  BY <1>3 DEF Sums
<1> QED
  BY <1>1, <1>3, <1>6, <1>7

\* A place with another value.
LEMMA SumWithChange ==
  ASSUME NEW S, IsFiniteSet(S), NEW f \in [S -> Int], NEW x \in S, NEW d \in Int,
         NEW h \in [S -> Int], h[x] = f[x] + d, \A y \in S : y # x => h[y] = f[y]
  PROVE  Summed(h) = Summed(f) + d
<1> DEFINE R == S \ {x}
<1>1. IsFiniteSet(R) /\ x \notin R /\ S = R \union {x}
  BY FS_RemoveElement
<1> HIDE DEF R
<1>2. PICK rest \in [R -> Int] : \A y \in R : rest[y] = f[y]
  <2>1. [y \in R |-> f[y]] \in [R -> Int]
    BY <1>1
  <2> QED
    BY <2>1
<1>3. (\A y \in R : h[y] = rest[y]) /\ (\A y \in R : f[y] = rest[y])
  BY <1>1, <1>2
<1>4. Summed(h) = Summed(rest) + h[x]
  BY <1>1, <1>3, SumWithPlace
<1>5. Summed(f) = Summed(rest) + f[x]
  BY <1>1, <1>3, SumWithPlace
<1>6. Summed(rest) \in Int
  BY <1>1, SumType
<1> QED
  BY <1>4, <1>5, <1>6

\* Shifted by one place, the last of which falls out.
LEMMA SumShifted ==
  ASSUME NEW n \in Nat, NEW f \in [0..n - 1 -> Nat], NEW h \in [0..n - 1 -> Nat],
         \A i \in 0..n - 1 : h[i] = IF i = 0 THEN 0 ELSE f[i - 1]
  PROVE  Summed(h) <= Summed(f)
<1> DEFINE S == 0..n - 1
<1>1. IsFiniteSet(S) /\ f \in [S -> Int] /\ h \in [S -> Int]
  BY FS_Interval
<1> HIDE DEF S
<1>2. PICK a : Sums(a, f, S) /\ Summed(f) = a[S]
  BY <1>1, FoldIsSum
<1>3. PICK b : Sums(b, h, S) /\ Summed(h) = b[S]
  BY <1>1, FoldIsSum
<1>4. ASSUME NEW k \in 0..n - 1, NEW j \in -1..n - 1, j = k - 1
      PROVE  /\ a[0..j] \in Int /\ f[k] \in Nat /\ h[k] \in Nat
             /\ a[0..k] = a[0..j] + f[k] /\ b[0..k] = b[0..j] + h[k]
  <2>1. /\ 0..j \in SUBSET S /\ 0..k \in SUBSET S /\ k \in S \ (0..j)
        /\ (0..j) \union {k} = 0..k
    BY <1>4 DEF S
  <2>2. a[(0..j) \union {k}] = a[0..j] + f[k] /\ b[(0..j) \union {k}] = b[0..j] + h[k]
    BY <1>2, <1>3, <2>1 DEF Sums
  <2> QED
    BY <1>2, <2>1, <2>2 DEF Sums
<1> DEFINE G == {k \in 0..n - 1 : \A j \in -1..n - 1 : j = k - 1 => b[0..k] = a[0..j]}
<1>5. ASSUME n > 0 PROVE 0 \in G
  <2>1. 0..-1 = {} /\ 0 \in 0..n - 1 /\ -1 \in -1..n - 1 /\ -1 = 0 - 1 /\ h[0] = 0
    BY <1>5
  <2>2. b[0..0] = b[0..-1] + h[0]
    BY <1>4, <2>1
  <2>3. b[0..-1] = 0 /\ a[0..-1] = 0
    BY <1>2, <1>3, <2>1 DEF Sums
  <2>4. b[0..0] = a[0..-1]
    BY <2>1, <2>2, <2>3
  <2>5. \A j \in -1..n - 1 : j = 0 - 1 => j = -1
    OBVIOUS
  <2> QED
    BY <2>1, <2>4, <2>5
<1>6. ASSUME NEW k \in 0..(n - 1) - 1, k \in G PROVE k + 1 \in G
  <2>1. /\ k \in 0..n - 1 /\ k + 1 \in 0..n - 1 /\ k \in -1..n - 1 /\ k - 1 \in -1..n - 1
        /\ k = (k + 1) - 1 /\ k + 1 # 0
    OBVIOUS
  <2>2. h[k + 1] = f[k]
    BY <2>1
  <2>3. a[0..k] = a[0..k - 1] + f[k] /\ b[0..k + 1] = b[0..k] + h[k + 1]
    BY <1>4, <2>1
  <2>4. b[0..k] = a[0..k - 1]
    BY <1>6, <2>1
  <2>5. b[0..k + 1] = a[0..k]
    BY <2>2, <2>3, <2>4
  <2>6. \A j \in -1..n - 1 : j = (k + 1) - 1 => j = k
    OBVIOUS
  <2> QED
    BY <2>1, <2>5, <2>6
<1>7. CASE n > 0
  <2> DEFINE m == n - 1
  <2>1. m \in Nat /\ (\A k \in 0..m - 1 : k \in G => k + 1 \in G) /\ 0 \in G
    <3> HIDE DEF G
    <3> QED
      BY <1>5, <1>6, <1>7
  <2>2. \A k \in 0..m : k \in G
    <3> HIDE DEF G, m
    <3> QED
      BY <2>1, CountInduction
  <2>3. m \in 0..n - 1 /\ m - 1 \in -1..n - 1 /\ m \in 0..m /\ S = 0..m
    BY <1>7 DEF S
  <2>4. b[0..m] = a[0..m - 1]
    BY <2>2, <2>3
  <2>5. a[0..m] = a[0..m - 1] + f[m] /\ a[0..m - 1] \in Int /\ f[m] \in Nat
    BY <1>4, <2>3
  <2> QED
    BY <1>2, <1>3, <2>3, <2>4, <2>5
<1>8. CASE n = 0
  <2>1. S = {}
    BY <1>8 DEF S
  <2> QED
    BY <1>2, <1>3, <2>1 DEF Sums
<1> QED
  BY <1>7, <1>8

=============================================================================
