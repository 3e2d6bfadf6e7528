----------------------------- MODULE FoldLemmas -----------------------------
(***************************************************************************)
(* Induction over numbers and finite sets, and what the folds and sums of  *)
(* the community modules compute.  The induction rules speak of sets, not  *)
(* of predicates: to show P(n) for all n, show it of {n \in Nat : P(n)}.   *)
(***************************************************************************)
EXTENDS SequencesExt, FiniteSetTheorems, SequenceTheorems, TLAPS

-----------------------------------------------------------------------------
(* Induction *)

\* Every set of natural numbers that is not empty has a least member.
LEMMA LeastNatural ==
  ASSUME NEW T \in SUBSET Nat, T # {}
  PROVE  \E n \in T : \A k \in T : n <= k
<1> DEFINE R == StrictSubsetOrdering(Nat)
           U == {1..n : n \in T}
<1>1. IsWellFoundedOn(R, FiniteSubsetsOf(Nat))
  BY FS_StrictSubsetOrderingWellFounded
<1>2. U \subseteq FiniteSubsetsOf(Nat) /\ U # {}
  <2>1. ASSUME NEW n \in T
        PROVE  1..n \in FiniteSubsetsOf(Nat)
    <3>1. n \in Int /\ 1..n \in SUBSET Nat
      OBVIOUS
    <3>2. IsFiniteSet(1..n)
      BY <3>1, FS_Interval
    <3> QED
      BY <3>1, <3>2 DEF FiniteSubsetsOf
  <2> QED
    BY <2>1
<1> HIDE DEF R
<1>3. PICK X \in U : \A Y \in U : <<Y, X>> \notin R
  BY <1>1, <1>2, WFMin
<1>4. PICK n \in T : X = 1..n
  OBVIOUS
<1>5. ASSUME NEW k \in T, k < n
      PROVE  FALSE
  <2>1. 1..k \in SUBSET Nat /\ 1..n \in SUBSET Nat /\ 1..k \subseteq 1..n
    BY <1>5
  <2>2. n \in 1..n /\ n \notin 1..k
    BY <1>5
  <2>3. <<1..k, 1..n>> \in R
    BY <2>1, <2>2 DEF R, StrictSubsetOrdering
  <2> QED
    BY <2>3, <1>3, <1>4
<1> QED
  BY <1>5

\* A set that holds 0 and every successor holds every natural number.
LEMMA NatSetInduction ==
  ASSUME NEW S \in SUBSET Nat, 0 \in S, \A n \in S : n + 1 \in S
  PROVE  S = Nat
<1>1. ASSUME S # Nat
      PROVE  FALSE
  <2>1. PICK n \in Nat \ S : \A k \in Nat \ S : n <= k
    BY <1>1, LeastNatural
  <2>2. n - 1 \in S
    BY <2>1
  <2> QED
    BY <2>1, <2>2
<1> QED
  BY <1>1

\* The same for an interval.
LEMMA IntervalInduction ==
  ASSUME NEW n \in Nat, NEW S, 0 \in S, \A i \in 1..n : i - 1 \in S => i \in S
  PROVE  0..n \subseteq S
<1> DEFINE T == {i \in Nat : i <= n => i \in S}
<1>1. \A i \in T : i + 1 \in T
  OBVIOUS
<1>2. T = Nat
  <2> HIDE DEF T
  <2>1. T \in SUBSET Nat /\ 0 \in T
    BY DEF T
  <2> QED
    BY <1>1, <2>1, NatSetInduction
<1> QED
  BY <1>2

\* A family of subsets of a finite set that holds {} and grows by every element
\* holds every subset.
LEMMA SubsetInduction ==
  ASSUME NEW S, IsFiniteSet(S), NEW F, {} \in F,
         \A T \in SUBSET S, x \in S : T \in F /\ x \notin T => T \union {x} \in F
  PROVE  S \in F
<1> DEFINE N == {n \in Nat : \A T \in SUBSET S : Cardinality(T) = n => T \in F}
<1>1. 0 \in N
  <2>1. ASSUME NEW T \in SUBSET S, Cardinality(T) = 0
        PROVE  T = {}
    BY <2>1, FS_Subset, FS_EmptySet
  <2> QED
    BY <2>1
<1>2. ASSUME NEW n \in Nat, n \in N
      PROVE  n + 1 \in N
  <2>1. ASSUME NEW T \in SUBSET S, Cardinality(T) = n + 1
        PROVE  T \in F
    <3>1. IsFiniteSet(T) /\ T # {}
      BY <2>1, FS_Subset, FS_EmptySet
    <3>2. PICK x \in T : TRUE
      BY <3>1
    <3>3. Cardinality(T \ {x}) = n
      <4> HIDE DEF N
      <4>1. Cardinality(T \ {x}) = Cardinality(T) - 1
        BY <3>1, <3>2, FS_RemoveElement
      <4> QED
        BY <2>1, <4>1
    <3>4. T \ {x} \in F /\ (T \ {x}) \union {x} = T
      BY <1>2, <3>2, <3>3
    <3> QED
      BY <3>2, <3>4
  <2> QED
    BY <2>1
<1>3. N = Nat
  <2> HIDE DEF N
  <2>1. N \in SUBSET Nat
    BY DEF N
  <2> QED
    BY <1>1, <1>2, <2>1, NatSetInduction
<1>4. Cardinality(S) \in Nat
  BY FS_CardinalityType
<1> QED
  BY <1>3, <1>4

-----------------------------------------------------------------------------
(* Recursion *)

\* pick[T] is an element of T.
Picks(pick, S) == \A T \in SUBSET S : T # {} => pick[T] \in T

Steps(S, V) == [S -> [V -> V]]

\* g goes through each subset of S in the order of the picks, from base.
Iterates(g, S, V, base, pick, step) ==
  /\ g \in [SUBSET S -> V]
  /\ \A T \in SUBSET S :
       g[T] = IF T = {} THEN base ELSE step[pick[T]][g[T \ {pick[T]}]]

\* A function on the subsets of a finite set that picks one element of its
\* argument and goes on with the others exists, whatever it does with them.
LEMMA IterationExists ==
  ASSUME NEW S, IsFiniteSet(S), NEW V, NEW base \in V,
         NEW pick, Picks(pick, S), NEW step, step \in Steps(S, V)
  PROVE  \E g : Iterates(g, S, V, base, pick, step)
<1> USE DEF Picks, Steps
<1> DEFINE D(n) == {T \in SUBSET S : Cardinality(T) <= n}
           Eq(g, T) == g[T] = IF T = {} THEN base ELSE step[pick[T]][g[T \ {pick[T]}]]
           N == {n \in Nat : \E g \in [D(n) -> V] : \A T \in D(n) : Eq(g, T)}
<1>1. 0 \in N
  <2>1. \A T \in D(0) : T = {}
    <3> SUFFICES ASSUME NEW T \in SUBSET S, Cardinality(T) <= 0
                 PROVE  T = {}
      OBVIOUS
    <3>1. IsFiniteSet(T) /\ Cardinality(T) \in Nat
      BY FS_Subset, FS_CardinalityType
    <3> QED
      BY <3>1, FS_EmptySet
  <2>2. [T \in D(0) |-> base] \in [D(0) -> V]
    OBVIOUS
  <2> QED
    BY <2>1, <2>2
<1>2. ASSUME NEW n \in Nat, n \in N
      PROVE  n + 1 \in N
  <2>1. PICK g \in [D(n) -> V] : \A T \in D(n) : Eq(g, T)
    BY <1>2
  <2> DEFINE h == [T \in D(n + 1) |->
                     IF T = {} THEN base ELSE step[pick[T]][g[T \ {pick[T]}]]]
  <2>2. ASSUME NEW T \in SUBSET S, Cardinality(T) <= n + 1, T # {}
        PROVE  T \ {pick[T]} \in D(n) /\ T \ {pick[T]} \in D(n + 1) /\ pick[T] \in S
    <3> HIDE DEF N, h
    <3>1. IsFiniteSet(T) /\ pick[T] \in T /\ Cardinality(T) \in Nat
      BY <2>2, FS_Subset, FS_CardinalityType
    <3>2. Cardinality(T \ {pick[T]}) = Cardinality(T) - 1
      BY <3>1, FS_RemoveElement
    <3>3. Cardinality(T \ {pick[T]}) <= n
      BY <2>2, <3>1, <3>2
    <3>4. Cardinality(T \ {pick[T]}) <= n + 1
      BY <2>2, <3>1, <3>2
    <3> QED
      BY <3>1, <3>3, <3>4
  <2>3. h \in [D(n + 1) -> V]
    BY <2>2
  <2>4. ASSUME NEW T \in SUBSET S, Cardinality(T) <= n
        PROVE  T \in D(n + 1) /\ h[T] = g[T]
    <3> HIDE DEF N
    <3>1. Cardinality(T) \in Nat
      BY FS_Subset, FS_CardinalityType
    <3>2. Cardinality(T) <= n + 1
      BY <2>4, <3>1
    <3>3. T \in D(n) /\ T \in D(n + 1)
      BY <2>4, <3>2
    <3>4. Eq(g, T)
      BY <2>1, <3>3
    <3> QED
      BY <3>3, <3>4
  <2>5. ASSUME NEW T \in D(n + 1)
        PROVE  Eq(h, T)
    <3>1. CASE T = {}
      BY <3>1
    <3>2. CASE T # {}
      BY <2>2, <2>4, <3>2
    <3> QED
      BY <3>1, <3>2
  <2>6. n + 1 \in Nat
    OBVIOUS
  <2> QED
    BY <2>3, <2>5, <2>6
<1>3. N = Nat
  <2> HIDE DEF N
  <2>1. N \in SUBSET Nat
    BY DEF N
  <2> QED
    BY <1>1, <1>2, <2>1, NatSetInduction
<1>4. Cardinality(S) \in Nat /\ D(Cardinality(S)) = SUBSET S
  BY FS_CardinalityType, FS_Subset
<1>5. Cardinality(S) \in N
  BY <1>3, <1>4
<1>6. PICK g \in [D(Cardinality(S)) -> V] : \A T \in D(Cardinality(S)) : Eq(g, T)
  BY <1>5
<1> QED
  BY <1>4, <1>6 DEF Iterates

\* h agrees with g on {}, and on a set whenever on the set without its pick.
Follows(h, g, S, pick) ==
  /\ h[{}] = g[{}]
  /\ \A T \in SUBSET S :
       T # {} /\ h[T \ {pick[T]}] = g[T \ {pick[T]}] => h[T] = g[T]

\* Then they agree everywhere.
LEMMA IterationUnique ==
  ASSUME NEW S, IsFiniteSet(S), NEW pick, Picks(pick, S),
         NEW g, NEW h, Follows(h, g, S, pick)
  PROVE  \A T \in SUBSET S : h[T] = g[T]
<1> USE DEF Picks, Follows
<1> DEFINE N == {n \in Nat : \A T \in SUBSET S : Cardinality(T) = n => h[T] = g[T]}
<1>1. 0 \in N
  <2>1. ASSUME NEW T \in SUBSET S, Cardinality(T) = 0
        PROVE  T = {}
    BY <2>1, FS_Subset, FS_EmptySet
  <2> QED
    BY <2>1
<1>2. ASSUME NEW n \in Nat, n \in N
      PROVE  n + 1 \in N
  <2>1. ASSUME NEW T \in SUBSET S, Cardinality(T) = n + 1
        PROVE  h[T] = g[T]
    <3>1. IsFiniteSet(T) /\ T # {}
      BY <2>1, FS_Subset, FS_EmptySet
    <3>2. pick[T] \in T
      BY <3>1
    <3>3. Cardinality(T \ {pick[T]}) = n
      <4> HIDE DEF N
      <4>1. Cardinality(T \ {pick[T]}) = Cardinality(T) - 1
        BY <3>1, <3>2, FS_RemoveElement
      <4> QED
        BY <2>1, <4>1
    <3>4. h[T \ {pick[T]}] = g[T \ {pick[T]}]
      BY <1>2, <3>3
    <3> QED
      BY <3>1, <3>4
  <2> QED
    BY <2>1
<1>3. N = Nat
  <2> HIDE DEF N
  <2>1. N \in SUBSET Nat
    BY DEF N
  <2> QED
    BY <1>1, <1>2, <2>1, NatSetInduction
<1>4. \A T \in SUBSET S : Cardinality(T) \in Nat
  BY FS_CardinalityType, FS_Subset
<1> QED
  BY <1>3, <1>4

-----------------------------------------------------------------------------
(* Sums *)

\* g adds up f over each subset of S in the order of the picks.
AddsUp(g, f, S, pick) ==
  /\ g \in [SUBSET S -> Int]
  /\ g = [T \in SUBSET S |-> IF T = {} THEN 0 ELSE f[pick[T]] + g[T \ {pick[T]}]]

LEMMA SumIteration ==
  ASSUME NEW S, IsFiniteSet(S), NEW f \in [S -> Int],
         NEW pick, Picks(pick, S)
  PROVE  \E g : AddsUp(g, f, S, pick)
<1>1. PICK step : step = [x \in S |-> [v \in Int |-> f[x] + v]]
  OBVIOUS
<1>3. step \in Steps(S, Int)
  BY <1>1 DEF Steps
<1>4. 0 \in Int
  OBVIOUS
<1>5. \E g : Iterates(g, S, Int, 0, pick, step)
  BY <1>3, <1>4, IterationExists
<1>6. PICK g \in [SUBSET S -> Int] : \A T \in SUBSET S :
        g[T] = IF T = {} THEN 0 ELSE step[pick[T]][g[T \ {pick[T]}]]
  BY <1>5 DEF Iterates
<1>7. ASSUME NEW T \in SUBSET S
      PROVE  g[T] = IF T = {} THEN 0 ELSE f[pick[T]] + g[T \ {pick[T]}]
  <2>1. CASE T = {}
    BY <1>6, <2>1
  <2>2. CASE T # {}
    <3>1. pick[T] \in S /\ T \ {pick[T]} \in SUBSET S
      BY <2>2 DEF Picks
    <3>2. g[T \ {pick[T]}] \in Int
      BY <3>1
    <3>3. step[pick[T]][g[T \ {pick[T]}]] = f[pick[T]] + g[T \ {pick[T]}]
      BY <1>1, <3>1, <3>2
    <3> QED
      BY <1>6, <2>2, <3>3
  <2> QED
    BY <2>1, <2>2
<1> QED
  BY <1>6, <1>7 DEF AddsUp

\* g maps every subset of S to the sum of f over it.
IsSum(g, f, S) ==
  /\ g \in [SUBSET S -> Int]
  /\ g[{}] = 0
  /\ \A T \in SUBSET S : \A x \in T : g[T] = f[x] + g[T \ {x}]

\* A sum that goes through a set in one order does not depend on the order.
LEMMA AnyOrder ==
  ASSUME NEW S, IsFiniteSet(S), NEW f \in [S -> Int], NEW pick, Picks(pick, S),
         NEW g \in [SUBSET S -> Int], g[{}] = 0,
         \A T \in SUBSET S : T # {} => g[T] = f[pick[T]] + g[T \ {pick[T]}]
  PROVE  IsSum(g, f, S)
<1> DEFINE N == {n \in Nat : \A T \in SUBSET S : Cardinality(T) = n =>
                               \A x \in T : g[T] = f[x] + g[T \ {x}]}
<1>1. 0 \in N
  <2>1. ASSUME NEW T \in SUBSET S, Cardinality(T) = 0
        PROVE  T = {}
    BY <2>1, FS_Subset, FS_EmptySet
  <2> QED
    BY <2>1
<1>2. ASSUME NEW n \in Nat, n \in N
      PROVE  n + 1 \in N
  <2>1. ASSUME NEW T \in SUBSET S, Cardinality(T) = n + 1, NEW x \in T
        PROVE  g[T] = f[x] + g[T \ {x}]
    <3> DEFINE y == pick[T]
    <3>1. IsFiniteSet(T) /\ T # {} /\ y \in T
      BY <2>1, FS_Subset DEF Picks
    <3>2. g[T] = f[y] + g[T \ {y}]
      BY <3>1
    <3>3. CASE x = y
      BY <3>2, <3>3
    <3>4. CASE x # y
      <4>1. Cardinality(T \ {y}) = n /\ Cardinality(T \ {x}) = n
        <5> HIDE DEF N, y
        <5>1. Cardinality(T \ {y}) = Cardinality(T) - 1
          BY <3>1, FS_RemoveElement
        <5>2. Cardinality(T \ {x}) = Cardinality(T) - 1
          BY <3>1, FS_RemoveElement
        <5> QED
          BY <2>1, <5>1, <5>2
      <4>2. g[T \ {y}] = f[x] + g[(T \ {y}) \ {x}]
        BY <1>2, <3>4, <4>1
      <4>3. g[T \ {x}] = f[y] + g[(T \ {x}) \ {y}]
        BY <1>2, <3>1, <3>4, <4>1
      <4>4. (T \ {y}) \ {x} = (T \ {x}) \ {y}
        OBVIOUS
      <4>5. f[x] \in Int /\ f[y] \in Int /\ g[(T \ {x}) \ {y}] \in Int
        BY <3>1
      <4>6. g[T] = f[y] + (f[x] + g[(T \ {x}) \ {y}])
        BY <3>2, <4>2, <4>4
      <4> HIDE DEF y, N
      <4> QED
        BY <4>3, <4>5, <4>6
    <3> QED
      BY <3>3, <3>4
  <2> QED
    BY <2>1
<1>3. N = Nat
  <2> HIDE DEF N
  <2>1. N \in SUBSET Nat
    BY DEF N
  <2> QED
    BY <1>1, <1>2, <2>1, NatSetInduction
<1>4. \A T \in SUBSET S : Cardinality(T) \in Nat
  BY FS_CardinalityType, FS_Subset
<1> QED
  BY <1>3, <1>4 DEF IsSum

\* SumFunction(f) is the sum of f over its domain.
LEMMA SumIsSum ==
  ASSUME NEW S, IsFiniteSet(S), NEW f \in [S -> Int]
  PROVE  \E g : IsSum(g, f, S) /\ SumFunction(f) = g[S]
<1> DEFINE Folds(h) == h = [T \in SUBSET S |->
             IF T = {} THEN 0 ELSE f[CHOOSE x \in T : TRUE] + h[T \ {CHOOSE x \in T : TRUE}]]
           iter == CHOOSE h : Folds(h)
<1>1. PICK pick : pick = [T \in SUBSET S |-> CHOOSE x \in T : TRUE]
  OBVIOUS
<1>2. Picks(pick, S)
  BY <1>1 DEF Picks
<1>3. PICK g \in [SUBSET S -> Int] :
        g = [T \in SUBSET S |-> IF T = {} THEN 0 ELSE f[pick[T]] + g[T \ {pick[T]}]]
  <2>1. \E g : AddsUp(g, f, S, pick)
    BY <1>2, SumIteration
  <2> QED
    BY <2>1 DEF AddsUp
<1>4. \A T \in SUBSET S : T # {} => g[T] = f[pick[T]] + g[T \ {pick[T]}]
  BY <1>3
<1>5. Folds(iter)
  <2>1. Folds(g)
    BY <1>1, <1>3
  <2> HIDE DEF Folds
  <2> QED
    BY <2>1
<1>6. \A T \in SUBSET S : iter[T] = g[T]
  <2>1. \A T \in SUBSET S :
          iter[T] = IF T = {} THEN 0 ELSE f[pick[T]] + iter[T \ {pick[T]}]
    BY <1>1, <1>5
  <2> HIDE DEF iter
  <2>2. ASSUME NEW T \in SUBSET S, T # {}, iter[T \ {pick[T]}] = g[T \ {pick[T]}]
        PROVE  iter[T] = g[T]
    BY <1>4, <2>1, <2>2
  <2>3. iter[{}] = g[{}]
    BY <1>3, <2>1
  <2>4. Follows(iter, g, S, pick)
    BY <2>2, <2>3 DEF Follows
  <2> QED
    BY <1>2, <2>4, IterationUnique
<1>7. SumFunction(f) = iter[S]
  BY Zenon DEF SumFunction, SumFunctionOnSet, FoldFunctionOnSet, MapThenFoldSet
<1>8. g[{}] = 0
  BY <1>3
<1>9. IsSum(g, f, S)
  BY <1>2, <1>4, <1>8, AnyOrder
<1>10. iter[S] = g[S]
  BY <1>6
<1> QED
  BY <1>7, <1>9, <1>10

LEMMA SumType ==
  ASSUME NEW S, IsFiniteSet(S), NEW f \in [S -> Int]
  PROVE  SumFunction(f) \in Int
<1>1. PICK g : IsSum(g, f, S) /\ SumFunction(f) = g[S]
  BY SumIsSum
<1> QED
  BY <1>1 DEF IsSum

\* The sum of numbers that are not negative is not negative.
LEMMA SumNat ==
  ASSUME NEW S, IsFiniteSet(S), NEW f \in [S -> Nat]
  PROVE  SumFunction(f) \in Nat
<1>1. f \in [S -> Int]
  OBVIOUS
<1>2. PICK g : IsSum(g, f, S) /\ SumFunction(f) = g[S]
  BY <1>1, SumIsSum
<1> DEFINE F == {T \in SUBSET S : g[T] \in Nat}
<1>3. {} \in F
  BY <1>2 DEF IsSum
<1>4. ASSUME NEW T \in SUBSET S, NEW x \in S, T \in F, x \notin T
      PROVE  T \union {x} \in F
  <2>1. (T \union {x}) \ {x} = T
    BY <1>4
  <2>2. g[T \union {x}] = f[x] + g[T]
    BY <1>2, <2>1 DEF IsSum
  <2> QED
    BY <1>4, <2>2
<1>5. S \in F
  <2> HIDE DEF F
  <2> QED
    BY <1>3, <1>4, SubsetInduction
<1> QED
  BY <1>2, <1>5

\* A function that is 0 everywhere adds up to 0.
LEMMA SumZero ==
  ASSUME NEW S, IsFiniteSet(S), NEW f \in [S -> Int], \A x \in S : f[x] = 0
  PROVE  SumFunction(f) = 0
<1>1. PICK g : IsSum(g, f, S) /\ SumFunction(f) = g[S]
  BY SumIsSum
<1> DEFINE F == {T \in SUBSET S : g[T] = 0}
<1>2. {} \in F
  BY <1>1 DEF IsSum
<1>3. ASSUME NEW T \in SUBSET S, NEW x \in S, T \in F, x \notin T
      PROVE  T \union {x} \in F
  <2>1. (T \union {x}) \ {x} = T
    BY <1>3
  <2>2. g[T \union {x}] = f[x] + g[T]
    BY <1>1, <2>1 DEF IsSum
  <2> QED
    BY <1>3, <2>2
<1>4. S \in F
  <2> HIDE DEF F
  <2> QED
    BY <1>2, <1>3, SubsetInduction
<1> QED
  BY <1>1, <1>4

\* A new value at one point moves the sum by the difference.
LEMMA SumExcept ==
  ASSUME NEW S, IsFiniteSet(S), NEW f \in [S -> Int], NEW x \in S, NEW v \in Int
  PROVE  SumFunction([f EXCEPT ![x] = v]) = SumFunction(f) - f[x] + v
<1>1. PICK e \in [S -> Int] : e = [f EXCEPT ![x] = v]
  OBVIOUS
<1>2. PICK g : IsSum(g, f, S) /\ SumFunction(f) = g[S]
  BY SumIsSum
<1>3. PICK h : IsSum(h, e, S) /\ SumFunction(e) = h[S]
  BY SumIsSum
<1> DEFINE F == {T \in SUBSET S : x \notin T => h[T] = g[T]}
<1>4. {} \in F
  BY <1>2, <1>3 DEF IsSum
<1>5. ASSUME NEW T \in SUBSET S, NEW y \in S, T \in F, y \notin T
      PROVE  T \union {y} \in F
  <2>1. (T \union {y}) \ {y} = T
    BY <1>5
  <2>2. g[T \union {y}] = f[y] + g[T] /\ h[T \union {y}] = e[y] + h[T]
    <3>1. T \union {y} \in SUBSET S /\ y \in T \union {y}
      OBVIOUS
    <3>2. \A U \in SUBSET S : \A z \in U : g[U] = f[z] + g[U \ {z}]
      BY <1>2 DEF IsSum
    <3>3. \A U \in SUBSET S : \A z \in U : h[U] = e[z] + h[U \ {z}]
      BY <1>3 DEF IsSum
    <3>4. g[T \union {y}] = f[y] + g[(T \union {y}) \ {y}]
      BY <3>1, <3>2, Zenon
    <3>5. h[T \union {y}] = e[y] + h[(T \union {y}) \ {y}]
      BY <3>1, <3>3, Zenon
    <3> QED
      BY <2>1, <3>4, <3>5
  <2>3. y # x => e[y] = f[y]
    BY <1>1
  <2> QED
    BY <1>5, <2>2, <2>3
<1>6. S \in F
  <2> HIDE DEF F
  <2> QED
    BY <1>4, <1>5, SubsetInduction
<1>7. S \ {x} \in F
  <2>1. IsFiniteSet(S \ {x})
    BY FS_RemoveElement
  <2>2. \A T \in SUBSET (S \ {x}), y \in S \ {x} : T \in F /\ y \notin T => T \union {y} \in F
    BY <1>5
  <2> HIDE DEF F
  <2> QED
    BY <1>4, <2>1, <2>2, SubsetInduction
<1>8. g[S] = f[x] + g[S \ {x}] /\ h[S] = e[x] + h[S \ {x}]
  BY <1>2, <1>3 DEF IsSum
<1>9. h[S \ {x}] = g[S \ {x}] /\ g[S \ {x}] \in Int /\ e[x] = v
  BY <1>1, <1>2, <1>7 DEF IsSum
<1> QED
  BY <1>1, <1>2, <1>3, <1>8, <1>9

-----------------------------------------------------------------------------
(* Folds over sequences *)

\* The greatest member of a set of positions is one of them.
LEMMA GreatestPosition ==
  ASSUME NEW n \in Nat, NEW T \in SUBSET (1..n), T # {}
  PROVE  Max(T) \in T /\ \A y \in T : Max(T) >= y
<1> DEFINE U == {n - y : y \in T}
<1>1. U \in SUBSET Nat /\ U # {}
  <2>1. \A y \in T : n - y \in Nat
    OBVIOUS
  <2> QED
    BY <2>1
<1>2. PICK u \in U : \A w \in U : u <= w
  <2> HIDE DEF U
  <2> QED
    BY <1>1, LeastNatural
<1>3. PICK x \in T : u = n - x
  OBVIOUS
<1>4. \A y \in T : n - y \in U /\ y \in Int /\ x \in Int
  OBVIOUS
<1>5. \A y \in T : x >= y
  <2> HIDE DEF U
  <2> QED
    BY <1>2, <1>3, <1>4
<1> QED
  BY <1>5 DEF Max

\* The pick of FoldLeft, at each set of positions of a sequence of length n.
PicksLast(pick, n) == pick = [T \in SUBSET (1..n) |-> Max(T)]

\* Taking the greatest position first goes through a sequence backwards.
LEMMA PositionsInOrder ==
  ASSUME NEW n \in Nat, NEW pick, PicksLast(pick, n)
  PROVE  /\ IsFiniteSet(1..n) /\ Picks(pick, 1..n)
         /\ \A i \in 1..n : pick[1..i] = i /\ (1..i) \ {i} = 1..(i - 1)
<1>1. IsFiniteSet(1..n)
  BY FS_Interval
<1>2. Picks(pick, 1..n)
  <2>1. ASSUME NEW T \in SUBSET (1..n), T # {}
        PROVE  pick[T] \in T
    BY <2>1, GreatestPosition DEF PicksLast
  <2> QED
    BY <2>1 DEF Picks
<1>3. ASSUME NEW i \in 1..n
      PROVE  pick[1..i] = i /\ (1..i) \ {i} = 1..(i - 1)
  <2>1. 1..i \in SUBSET (1..n) /\ 1..i # {} /\ i \in 1..i
    OBVIOUS
  <2>2. Max(1..i) \in 1..i /\ Max(1..i) >= i
    BY <2>1, GreatestPosition
  <2> QED
    BY <2>1, <2>2 DEF PicksLast
<1> QED
  BY <1>1, <1>2, <1>3

\* r goes from base through n steps, each of which depends on the number of the
\* step and on where the one before has led.
IsRun(r, n, V, base, step) ==
  /\ r \in [0..n -> V]
  /\ r[0] = base
  /\ \A i \in 1..n : r[i] = step[i][r[i - 1]]

\* Two runs that start together and do not part at any step are one.
InStep(f, g, n) ==
  /\ f[0] = g[0]
  /\ \A i \in 1..n : f[i - 1] = g[i - 1] => f[i] = g[i]

LEMMA SameRun ==
  ASSUME NEW n \in Nat, NEW f, NEW g, InStep(f, g, n)
  PROVE  \A i \in 0..n : f[i] = g[i]
<1> USE DEF InStep
<1> DEFINE S == {i \in 0..n : f[i] = g[i]}
<1>1. 0 \in S
  OBVIOUS
<1>2. \A i \in 1..n : i - 1 \in S => i \in S
  OBVIOUS
<1>3. 0..n \subseteq S
  <2> HIDE DEF S
  <2> QED
    BY <1>1, <1>2, IntervalInduction
<1> QED
  BY <1>3

\* Seen at the sets of the first positions, an iteration that takes the last
\* position first is such a run.
LEMMA RunOfIteration ==
  ASSUME NEW n \in Nat, NEW V, NEW base \in V, NEW step, step \in Steps(1..n, V),
         NEW pick, PicksLast(pick, n),
         NEW g, Iterates(g, 1..n, V, base, pick, step)
  PROVE  \E r : IsRun(r, n, V, base, step) /\ g[1..n] = r[n]
<1>1. PICK r : r = [i \in 0..n |-> g[1..i]]
  OBVIOUS
<1>2. g \in [SUBSET (1..n) -> V]
  BY DEF Iterates
<1>3. \A i \in 0..n : 1..i \in SUBSET (1..n)
  OBVIOUS
<1>4. r \in [0..n -> V]
  BY <1>1, <1>2, <1>3
<1>5. r[0] = base
  <2>1. 1..0 = {} /\ {} \in SUBSET (1..n) /\ 0 \in 0..n
    OBVIOUS
  <2>2. g[{}] = base
    BY <2>1 DEF Iterates
  <2> QED
    BY <1>1, <2>1, <2>2
<1>6. ASSUME NEW i \in 1..n
      PROVE  r[i] = step[i][r[i - 1]]
  <2>1. 1..i \in SUBSET (1..n) /\ i \in 1..i /\ i \in 0..n /\ i - 1 \in 0..n
    OBVIOUS
  <2>2. pick[1..i] = i /\ (1..i) \ {i} = 1..(i - 1)
    BY PositionsInOrder
  <2>3. g[1..i] = step[i][g[1..(i - 1)]]
    BY <2>1, <2>2 DEF Iterates
  <2> QED
    BY <1>1, <2>1, <2>3
<1>7. r[n] = g[1..n]
  BY <1>1
<1> QED
  BY <1>4, <1>5, <1>6, <1>7 DEF IsRun

\* g is the recursion that FoldLeft goes through, by its values in V: whatever
\* recursion follows it ends where a run ends.
IsFold(g, n, V, base, step) ==
  /\ g \in [SUBSET (1..n) -> V]
  /\ g[{}] = base
  /\ \A T \in SUBSET (1..n) : T # {} =>
       Max(T) \in 1..n /\ T \ {Max(T)} \in SUBSET (1..n) /\ g[T] = step[Max(T)][g[T \ {Max(T)}]]
  /\ \A h : /\ h[{}] = g[{}]
            /\ \A T \in SUBSET (1..n) :
                 T # {} /\ h[T \ {Max(T)}] = g[T \ {Max(T)}] => h[T] = g[T]
            => \E r : IsRun(r, n, V, base, step) /\ h[1..n] = r[n]

LEMMA FoldExists ==
  ASSUME NEW n \in Nat, NEW V, NEW base \in V, NEW step, step \in Steps(1..n, V)
  PROVE  \E g : IsFold(g, n, V, base, step)
<1>1. PICK pick : PicksLast(pick, n)
  BY DEF PicksLast
<1>2. IsFiniteSet(1..n) /\ Picks(pick, 1..n)
  BY <1>1, PositionsInOrder
<1>3. PICK g : Iterates(g, 1..n, V, base, pick, step)
  BY <1>2, IterationExists
<1>4. \A T \in SUBSET (1..n) : pick[T] = Max(T)
  BY <1>1 DEF PicksLast
<1>5. ASSUME NEW T \in SUBSET (1..n), T # {}
      PROVE  Max(T) \in 1..n /\ g[T] = step[Max(T)][g[T \ {Max(T)}]]
  <2>1. g[T] = step[pick[T]][g[T \ {pick[T]}]]
    BY <1>3, <1>5 DEF Iterates
  <2>2. pick[T] \in T
    BY <1>2, <1>5 DEF Picks
  <2> QED
    BY <1>4, <2>1, <2>2
<1>6. ASSUME NEW h, h[{}] = g[{}],
             \A T \in SUBSET (1..n) :
               T # {} /\ h[T \ {Max(T)}] = g[T \ {Max(T)}] => h[T] = g[T]
      PROVE  \E r : IsRun(r, n, V, base, step) /\ h[1..n] = r[n]
  <2>1. Follows(h, g, 1..n, pick)
    BY <1>4, <1>6 DEF Follows
  <2>2. \A T \in SUBSET (1..n) : h[T] = g[T]
    BY <1>2, <2>1, IterationUnique
  <2>3. \E r : IsRun(r, n, V, base, step) /\ g[1..n] = r[n]
    BY <1>1, <1>3, RunOfIteration
  <2> QED
    BY <2>2, <2>3
<1>7. g \in [SUBSET (1..n) -> V] /\ g[{}] = base
  BY <1>3 DEF Iterates
<1>8. IsFold(g, n, V, base, step)
  BY <1>5, <1>6, <1>7, Zenon DEF IsFold
<1> QED
  BY <1>8

\* A run exists, whatever its steps do.
LEMMA RunExists ==
  ASSUME NEW n \in Nat, NEW V, NEW base \in V, NEW step, step \in Steps(1..n, V)
  PROVE  \E r : IsRun(r, n, V, base, step)
<1>1. PICK g : IsFold(g, n, V, base, step)
  BY FoldExists
<1> QED
  BY <1>1 DEF IsFold

-----------------------------------------------------------------------------
(* The elements of a sequence *)

LEMMA ElementsType ==
  ASSUME NEW V, NEW s \in Seq(V)
  PROVE  ToSet(s) \in SUBSET V /\ IsFiniteSet(ToSet(s))
<1>1. DOMAIN s = 1..Len(s) /\ Len(s) \in Nat
  OBVIOUS
<1>2. IsFiniteSet(1..Len(s))
  BY <1>1, FS_Interval
<1>3. \A i \in 1..Len(s) : s[i] \in V
  OBVIOUS
<1>4. ToSet(s) \in SUBSET V
  BY <1>1, <1>3 DEF ToSet
<1>5. s \in Surjection(1..Len(s), ToSet(s))
  BY <1>1 DEF Surjection, ToSet
<1> QED
  BY <1>2, <1>4, <1>5, FS_Surjection

\* An order of a finite set is a sequence of its elements.
LEMMA OrderType ==
  ASSUME NEW V, NEW S \in SUBSET V, IsFiniteSet(S), NEW s \in SetToSeqs(S)
  PROVE  s \in Seq(V)
<1>1. Cardinality(S) \in Nat
  BY FS_CardinalityType
<1>2. s \in [1..Cardinality(S) -> S]
  BY DEF SetToSeqs
<1>3. s \in Seq(S)
  BY <1>1, <1>2, SeqDef
<1> QED
  BY <1>3, SeqMonotonic

LEMMA ConcatElements ==
  ASSUME NEW V, NEW s \in Seq(V), NEW t \in Seq(V)
  PROVE  s \o t \in Seq(V) /\ ToSet(s \o t) = ToSet(s) \union ToSet(t)
<1>1. s \o t \in Seq(V) /\ Len(s \o t) = Len(s) + Len(t)
  OBVIOUS
<1>2. ASSUME NEW x \in ToSet(s \o t)
      PROVE  x \in ToSet(s) \union ToSet(t)
  <2>1. PICK i \in 1..Len(s) + Len(t) : x = (s \o t)[i]
    BY <1>1, <1>2 DEF ToSet
  <2>2. CASE i <= Len(s)
    <3>1. i \in 1..Len(s) /\ x = s[i]
      BY <2>1, <2>2
    <3> QED
      BY <3>1 DEF ToSet
  <2>3. CASE i > Len(s)
    <3>1. i - Len(s) \in 1..Len(t) /\ x = t[i - Len(s)]
      BY <2>1, <2>3
    <3> QED
      BY <3>1 DEF ToSet
  <2> QED
    BY <2>1, <2>2, <2>3
<1>3. ASSUME NEW i \in 1..Len(s)
      PROVE  s[i] \in ToSet(s \o t)
  <2>1. (s \o t)[i] = s[i] /\ i \in 1..Len(s \o t)
    OBVIOUS
  <2> QED
    BY <1>1, <2>1 DEF ToSet
<1>4. ASSUME NEW i \in 1..Len(t)
      PROVE  t[i] \in ToSet(s \o t)
  <2>1. (s \o t)[Len(s) + i] = t[i] /\ Len(s) + i \in 1..Len(s \o t)
    BY <1>1
  <2> QED
    BY <1>1, <2>1 DEF ToSet
<1>5. ToSet(s) = {s[i] : i \in 1..Len(s)} /\ ToSet(t) = {t[i] : i \in 1..Len(t)}
  BY DEF ToSet
<1> QED
  BY <1>1, <1>2, <1>3, <1>4, <1>5

LEMMA AppendElements ==
  ASSUME NEW V, NEW s \in Seq(V), NEW x \in V
  PROVE  Append(s, x) \in Seq(V) /\ ToSet(Append(s, x)) = ToSet(s) \union {x}
<1>1. Append(s, x) \in Seq(V) /\ Len(Append(s, x)) = Len(s) + 1
  OBVIOUS
<1>2. \A i \in 1..Len(s) : Append(s, x)[i] = s[i]
  OBVIOUS
<1>3. Append(s, x)[Len(s) + 1] = x
  OBVIOUS
<1>4. DOMAIN Append(s, x) = 1..Len(s) + 1 /\ DOMAIN s = 1..Len(s)
  BY <1>1
<1>5. 1..Len(s) + 1 = (1..Len(s)) \union {Len(s) + 1}
  OBVIOUS
<1> QED
  BY <1>1, <1>2, <1>3, <1>4, <1>5 DEF ToSet

\* Flattening a sequence of sequences keeps their elements, and adds none.
LEMMA FlattenElements ==
  ASSUME NEW V, NEW seqs \in Seq(Seq(V))
  PROVE  /\ FlattenSeq(seqs) \in Seq(V)
         /\ ToSet(FlattenSeq(seqs)) = UNION {ToSet(seqs[i]) : i \in 1..Len(seqs)}
<1> DEFINE n == Len(seqs)
           Flattens(h) == h = [i \in 1..n |-> IF i = 1 THEN seqs[i] ELSE h[i - 1] \o seqs[i]]
           flatten == CHOOSE h : Flattens(h)
<1>1. n \in Nat /\ \A i \in 1..n : seqs[i] \in Seq(V)
  OBVIOUS
<1>2. CASE n = 0
  <2>1. seqs = <<>>
    BY <1>2
  <2>2. FlattenSeq(seqs) = <<>>
    BY <2>1 DEF FlattenSeq
  <2> QED
    BY <1>2, <2>2 DEF ToSet
<1>3. CASE n # 0
  <2>1. PICK step : step = [i \in 1..n - 1 |-> [s \in Seq(V) |-> s \o seqs[i + 1]]]
    OBVIOUS
  <2>2. step \in Steps(1..n - 1, Seq(V))
    BY <1>1, <2>1 DEF Steps
  <2>3. n - 1 \in Nat /\ seqs[1] \in Seq(V)
    BY <1>1, <1>3
  <2>4. PICK r : IsRun(r, n - 1, Seq(V), seqs[1], step)
    <3> HIDE DEF n
    <3> QED
      BY <2>2, <2>3, RunExists
  <2>5. PICK g : g = [i \in 1..n |-> r[i - 1]]
    OBVIOUS
  <2>6. Flattens(g)
    <3>1. ASSUME NEW i \in 1..n
          PROVE  r[i - 1] = IF i = 1 THEN seqs[i] ELSE g[i - 1] \o seqs[i]
      <4>1. CASE i = 1
        BY <2>4, <4>1 DEF IsRun
      <4>2. CASE i # 1
        <5>1. i - 1 \in 1..n - 1 /\ i - 1 \in 1..n /\ (i - 1) + 1 = i /\ (i - 1) - 1 \in 0..n - 1
          BY <1>1, <4>2
        <5>2. r[i - 1] = step[i - 1][r[(i - 1) - 1]] /\ r[(i - 1) - 1] \in Seq(V)
          BY <2>4, <5>1 DEF IsRun
        <5>3. g[i - 1] = r[(i - 1) - 1]
          BY <2>5, <5>1
        <5> QED
          BY <2>1, <4>2, <5>1, <5>2, <5>3
      <4> QED
        BY <4>1, <4>2
    <3> QED
      BY <2>5, <3>1
  <2>7. Flattens(flatten)
    <3> HIDE DEF Flattens
    <3> QED
      BY <2>6
  <2>8. FlattenSeq(seqs) = flatten[n]
    BY <1>3, Zenon DEF FlattenSeq
  <2> DEFINE S == {i \in 0..n - 1 : /\ flatten[i + 1] \in Seq(V)
                                    /\ ToSet(flatten[i + 1]) = UNION {ToSet(seqs[j]) : j \in 1..i + 1}}
  <2> HIDE DEF flatten
  <2>9. 0 \in S
    <3>1. flatten[1] = seqs[1] /\ 0 \in 0..n - 1
      BY <1>1, <1>3, <2>7
    <3> QED
      BY <2>3, <3>1
  <2>10. ASSUME NEW i \in 1..n - 1, i - 1 \in S
         PROVE  i \in S
    <3>1. i + 1 \in 1..n /\ i \in 0..n - 1 /\ (i - 1) + 1 = i
      BY <1>1
    <3>2. flatten[i + 1] = flatten[i] \o seqs[i + 1]
      <4>1. flatten[i + 1] = IF i + 1 = 1 THEN seqs[i + 1]
                             ELSE flatten[(i + 1) - 1] \o seqs[i + 1]
        BY <2>7, <3>1
      <4>2. (i + 1) - 1 = i /\ i + 1 # 1
        BY <1>1
      <4> QED
        BY <4>1, <4>2
    <3>3. flatten[i] \in Seq(V) /\ ToSet(flatten[i]) = UNION {ToSet(seqs[j]) : j \in 1..i}
      BY <2>10, <3>1
    <3>4. ToSet(flatten[i + 1]) = ToSet(flatten[i]) \union ToSet(seqs[i + 1])
      BY <1>1, <3>1, <3>2, <3>3, ConcatElements
    <3>5. flatten[i + 1] \in Seq(V)
      BY <1>1, <3>1, <3>2, <3>3, ConcatElements
    <3>6. 1..i + 1 = (1..i) \union {i + 1}
      BY <3>1
    <3>7. ToSet(flatten[i + 1]) = UNION {ToSet(seqs[j]) : j \in 1..i + 1}
      BY <3>3, <3>4, <3>6
    <3> QED
      BY <3>1, <3>5, <3>7
  <2>11. n - 1 \in S
    <3>1. 0..n - 1 \subseteq S
      <4> HIDE DEF S, n
      <4> QED
        BY <2>3, <2>9, <2>10, IntervalInduction
    <3>2. n - 1 \in 0..n - 1
      BY <2>3
    <3> HIDE DEF S
    <3> QED
      BY <3>1, <3>2
  <2>12. (n - 1) + 1 = n
    BY <1>1
  <2>13. FlattenSeq(seqs) = flatten[(n - 1) + 1]
    BY <2>8, <2>12
  <2>14. flatten[(n - 1) + 1] \in Seq(V) /\ ToSet(flatten[(n - 1) + 1]) =
           UNION {ToSet(seqs[j]) : j \in 1..(n - 1) + 1}
    BY <2>11
  <2> QED
    BY <2>12, <2>13, <2>14
<1> QED
  BY <1>2, <1>3
=============================================================================
