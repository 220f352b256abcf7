------------------------------ MODULE FoldProofs ------------------------------
(***************************************************************************)
(* What the models' sums and folds compute, for data of any size.  A fold  *)
(* of the community modules chooses a function on the subsets of a set     *)
(* that satisfies an equation; that such a function exists, and what it    *)
(* returns, is proved by the least number, and the smallest subset, for    *)
(* which it would not hold.                                                *)
(***************************************************************************)
EXTENDS Integers, Functions, FiniteSetTheorems, WellFoundedInduction, TLAPS

-----------------------------------------------------------------------------
\* Least numbers and smallest sets

\* A set of natural numbers that is not empty has a least one.
LEMMA LeastNatural ==
    ASSUME NEW S, S \subseteq Nat, S # {}
    PROVE  \E n \in S : \A m \in S : n <= m
<1>1. PICK n \in S : \A m \in S : ~(<<m, n>> \in OpToRel(<, Nat))
  BY WFMin, NatLessThanWellFounded
<1>2. \A m \in S : ~(m < n)
  BY <1>1 DEF OpToRel
<1>3. \A m \in S : n <= m
  BY <1>2
<1> QED BY <1>3

\* A property of numbers that holds of 0, and of n + 1 whenever it holds of n, holds of all.
LEMMA EveryNatural ==
    ASSUME NEW H, 0 \in H, \A n \in Nat : n \in H => n + 1 \in H
    PROVE  Nat \subseteq H
<1> SUFFICES ASSUME Nat \ H # {} PROVE FALSE
  OBVIOUS
<1>1. PICK n \in Nat \ H : \A m \in Nat \ H : n <= m
  BY LeastNatural
<1>2. n - 1 \in Nat /\ n - 1 \notin Nat \ H
  BY <1>1
<1> QED BY <1>1, <1>2

\* A set of numbers bounded from above that is not empty has a greatest one.
LEMMA GreatestNatural ==
    ASSUME NEW S, NEW b \in Nat, S \subseteq 0..b, S # {}
    PROVE  \E n \in S : \A m \in S : m <= n
<1> DEFINE T == {k \in Nat : b - k \in S}
<1>1. T # {}
  <2>1. PICK n \in S : TRUE
    OBVIOUS
  <2>2. b - n \in Nat /\ b - (b - n) = n
    BY <2>1
  <2>3. b - n \in T
    BY <2>1, <2>2
  <2> QED BY <2>3
<1>2. PICK k \in T : \A m \in T : k <= m
  BY <1>1, LeastNatural
<1>3. ASSUME NEW m \in S PROVE m <= b - k
  <2>1. b - m \in Nat /\ b - (b - m) = m
    BY <1>3
  <2>2. b - m \in T
    BY <2>1
  <2> QED BY <1>2, <1>3, <2>1, <2>2
<1> QED BY <1>2, <1>3

\* A property of sets that holds of {}, and of every finite set of which it holds without
\* one of its elements, holds of the subsets of a finite set.
LEMMA EverySubset ==
    ASSUME NEW S, IsFiniteSet(S), NEW H, {} \in H,
           \A T \in SUBSET S : (T # {} /\ \A x \in T : T \ {x} \in H) => T \in H
    PROVE  SUBSET S \subseteq H
<1> DEFINE Bad == {n \in Nat : \E T \in SUBSET S : Cardinality(T) = n /\ T \notin H}
<1> SUFFICES ASSUME NEW U \in SUBSET S, U \notin H PROVE FALSE
  OBVIOUS
<1>1. \A T \in SUBSET S : IsFiniteSet(T) /\ Cardinality(T) \in Nat
  BY FS_Subset, FS_CardinalityType
<1>2. Bad # {}
  BY <1>1
<1>3. PICK n \in Bad : \A m \in Bad : n <= m
  BY <1>2, LeastNatural
<1>4. PICK T \in SUBSET S : Cardinality(T) = n /\ T \notin H
  BY <1>3
<1>5. ASSUME NEW x \in T PROVE T \ {x} \in H
  <2>1. Cardinality(T \ {x}) = n - 1
    BY <1>1, <1>4, FS_RemoveElement
  <2>2. T \ {x} \in SUBSET S /\ Cardinality(T \ {x}) \in Nat
    BY <1>1
  <2> QED BY <1>3, <2>1, <2>2
<1> QED BY <1>4, <1>5

-----------------------------------------------------------------------------
\* The function a fold chooses exists

\* "pick" takes an element of every subset of S, and "step" makes a value of A of an
\* element and a value of A.
Picks(pick, S) == \A T \in SUBSET S : T # {} => pick[T] \in T

StepsWithin(step, S, A) == \A x \in S : \A a \in A : step[x][a] \in A

\* "it" folds every subset of S into a value, by the step of the element that is picked.
IsFold(it, S, base, pick, step) ==
    \A T \in SUBSET S : it[T] = IF T = {} THEN base ELSE step[pick[T]][it[T \ {pick[T]}]]

\* A finite set can be folded into values of any set.
LEMMA FoldExists ==
    ASSUME NEW S, IsFiniteSet(S), NEW A, NEW base \in A,
           NEW pick, Picks(pick, S), NEW step, StepsWithin(step, S, A)
    PROVE  \E it \in [SUBSET S -> A] : IsFold(it, S, base, pick, step)
<1> USE DEF Picks, StepsWithin
<1> DEFINE Small(n) == {T \in SUBSET S : Cardinality(T) <= n}
           Fold(it, n) == \A T \in Small(n) :
               it[T] = IF T = {} THEN base ELSE step[pick[T]][it[T \ {pick[T]}]]
           H == {n \in Nat : \E it \in [SUBSET S -> A] : Fold(it, n)}
<1>1. \A T \in SUBSET S : IsFiniteSet(T) /\ Cardinality(T) \in Nat
  BY FS_Subset, FS_CardinalityType
<1>2. 0 \in H
  <2>1. \A T \in Small(0) : T = {}
    BY <1>1, FS_EmptySet
  <2>2. [T \in SUBSET S |-> base] \in [SUBSET S -> A]
    OBVIOUS
  <2>3. Fold([T \in SUBSET S |-> base], 0)
    BY <2>1
  <2> QED BY <2>2, <2>3
<1>3. ASSUME NEW n \in Nat, n \in H PROVE n + 1 \in H
  <2>1. PICK it \in [SUBSET S -> A] : Fold(it, n)
    BY <1>3
  <2> DEFINE jt == [T \in SUBSET S |->
                       IF T = {} THEN base ELSE step[pick[T]][it[T \ {pick[T]}]]]
  <2>2. jt \in [SUBSET S -> A]
    OBVIOUS
  <2>3. \A T \in Small(n) : jt[T] = it[T]
    BY <2>1
  <2>4. ASSUME NEW T \in Small(n + 1), T # {} PROVE T \ {pick[T]} \in Small(n)
    <3>1. Cardinality(T \ {pick[T]}) = Cardinality(T) - 1
      BY <1>1, <2>4, FS_RemoveElement
    <3> QED BY <1>1, <2>4, <3>1
  <2>5. Fold(jt, n + 1)
    BY <2>3, <2>4
  <2>6. \E f \in [SUBSET S -> A] : Fold(f, n + 1)
    <3> HIDE DEF jt, Fold
    <3> QED BY <2>2, <2>5
  <2> HIDE DEF Fold
  <2> QED BY <2>6
<1>4. Cardinality(S) \in H
  BY <1>1, <1>2, <1>3, EveryNatural
<1>5. PICK it \in [SUBSET S -> A] : Fold(it, Cardinality(S))
  BY <1>4
<1>6. \A T \in SUBSET S : T \in Small(Cardinality(S))
  BY FS_Subset
<1> QED BY <1>5, <1>6 DEF IsFold

-----------------------------------------------------------------------------
\* Sums of finite functions

\* The element SumFunction takes next.
FirstIn(T) == CHOOSE x \in T : TRUE

\* The function SumFunction chooses, which adds up f on every subset of S.
SumsUp(it, S, f) ==
    it = [T \in SUBSET S |-> IF T = {} THEN 0 ELSE f[FirstIn(T)] + it[T \ {FirstIn(T)}]]

\* A set that is not empty has a first element.
LEMMA FirstExists == ASSUME NEW T, T # {} PROVE FirstIn(T) \in T
BY DEF FirstIn

\* The sum of a function is what some function of the subsets of its domain adds up to.
LEMMA SumUnfolds ==
    ASSUME NEW S, IsFiniteSet(S), NEW f \in [S -> Int]
    PROVE  \E it \in [SUBSET S -> Int] : SumFunction(f) = it[S] /\ SumsUp(it, S, f)
<1> DEFINE pick == [T \in SUBSET S |-> FirstIn(T)]
           step == [x \in S |-> [a \in Int |-> f[x] + a]]
<1>1. Picks(pick, S)
  BY FirstExists DEF Picks
<1>2. StepsWithin(step, S, Int)
  BY DEF StepsWithin
<1>3. 0 \in Int
  OBVIOUS
<1>4. PICK it \in [SUBSET S -> Int] : IsFold(it, S, 0, pick, step)
  <2> HIDE DEF pick, step
  <2> QED BY <1>1, <1>2, <1>3, FoldExists
<1>5. ASSUME NEW T \in SUBSET S, T # {} PROVE it[T] = f[FirstIn(T)] + it[T \ {FirstIn(T)}]
  <2>1. FirstIn(T) \in S /\ it[T \ {FirstIn(T)}] \in Int
    BY <1>5, FirstExists
  <2>2. it[T] = step[FirstIn(T)][it[T \ {FirstIn(T)}]]
    BY <1>4, <1>5 DEF IsFold
  <2> QED BY <2>1, <2>2
<1>6. SumsUp(it, S, f)
  BY <1>4, <1>5 DEF SumsUp, IsFold
<1> DEFINE jt == CHOOSE i : SumsUp(i, S, f)
<1>7. SumsUp(jt, S, f)
  BY <1>6
<1>8. SumFunction(f) = jt[S]
  BY DEF SumFunction, SumFunctionOnSet, FoldFunctionOnSet, MapThenFoldSet, SumsUp, FirstIn
<1> HIDE DEF jt
<1> DEFINE H == {T \in SUBSET S : jt[T] \in Int}
<1>9. ASSUME NEW T \in SUBSET S, T # {}, \A x \in T : T \ {x} \in H PROVE T \in H
  <2>1. FirstIn(T) \in T /\ jt[T \ {FirstIn(T)}] \in Int
    BY <1>9, FirstExists
  <2>2. jt[T] = f[FirstIn(T)] + jt[T \ {FirstIn(T)}]
    BY <1>7, <1>9 DEF SumsUp
  <2> QED BY <2>1, <2>2
<1>10. {} \in H
  BY <1>7 DEF SumsUp
<1>11. SUBSET S \subseteq H
  <2> HIDE DEF H
  <2> QED BY <1>9, <1>10, EverySubset
<1>12. jt \in [SUBSET S -> Int]
  BY <1>7, <1>11 DEF SumsUp
<1> QED BY <1>7, <1>8, <1>12

\* The sum of integers is one.
LEMMA SumType ==
    ASSUME NEW S, IsFiniteSet(S), NEW f \in [S -> Int]
    PROVE  SumFunction(f) \in Int
<1>1. \E it \in [SUBSET S -> Int] : SumFunction(f) = it[S] /\ SumsUp(it, S, f)
  BY SumUnfolds
<1> QED BY <1>1

\* Of two functions that differ at one argument the sums differ by as much.
LEMMA SumUpdate ==
    ASSUME NEW S, IsFiniteSet(S), NEW f \in [S -> Int], NEW g \in [S -> Int],
           NEW x \in S, \A y \in S \ {x} : g[y] = f[y]
    PROVE  SumFunction(g) = SumFunction(f) + g[x] - f[x]
<1>1. PICK it \in [SUBSET S -> Int] : SumFunction(f) = it[S] /\ SumsUp(it, S, f)
  BY SumUnfolds
<1>2. PICK jt \in [SUBSET S -> Int] : SumFunction(g) = jt[S] /\ SumsUp(jt, S, g)
  BY SumUnfolds
<1> DEFINE H == {T \in SUBSET S : jt[T] = it[T] + IF x \in T THEN g[x] - f[x] ELSE 0}
<1>3. ASSUME NEW T \in SUBSET S, T # {}, \A y \in T : T \ {y} \in H PROVE T \in H
  <2>1. PICK y \in T : y = FirstIn(T)
    BY <1>3, FirstExists
  <2>2. it[T] = f[y] + it[T \ {y}] /\ jt[T] = g[y] + jt[T \ {y}]
    BY <1>1, <1>2, <1>3, <2>1 DEF SumsUp
  <2>3. jt[T \ {y}] = it[T \ {y}] + IF x \in T \ {y} THEN g[x] - f[x] ELSE 0
    BY <1>3
  <2>4. it[T \ {y}] \in Int /\ jt[T \ {y}] \in Int /\ f[y] \in Int /\ g[y] \in Int
    OBVIOUS
  <2> QED BY <2>2, <2>3, <2>4
<1>4. {} \in H
  BY <1>1, <1>2 DEF SumsUp
<1>5. SUBSET S \subseteq H
  <2> HIDE DEF H
  <2> QED BY <1>3, <1>4, EverySubset
<1>6. jt[S] = it[S] + (g[x] - f[x])
  BY <1>5
<1> QED BY <1>1, <1>2, <1>6

\* Sums are monotone.
LEMMA SumMonotone ==
    ASSUME NEW S, IsFiniteSet(S), NEW f \in [S -> Int], NEW g \in [S -> Int],
           \A x \in S : f[x] <= g[x]
    PROVE  SumFunction(f) <= SumFunction(g)
<1>1. PICK it \in [SUBSET S -> Int] : SumFunction(f) = it[S] /\ SumsUp(it, S, f)
  BY SumUnfolds
<1>2. PICK jt \in [SUBSET S -> Int] : SumFunction(g) = jt[S] /\ SumsUp(jt, S, g)
  BY SumUnfolds
<1> DEFINE H == {T \in SUBSET S : it[T] <= jt[T]}
<1>3. ASSUME NEW T \in SUBSET S, T # {}, \A y \in T : T \ {y} \in H PROVE T \in H
  <2>1. PICK y \in T : y = FirstIn(T)
    BY <1>3, FirstExists
  <2>2. it[T] = f[y] + it[T \ {y}] /\ jt[T] = g[y] + jt[T \ {y}]
    BY <1>1, <1>2, <1>3, <2>1 DEF SumsUp
  <2>3. it[T \ {y}] <= jt[T \ {y}] /\ f[y] <= g[y]
    BY <1>3
  <2>4. it[T \ {y}] \in Int /\ jt[T \ {y}] \in Int /\ f[y] \in Int /\ g[y] \in Int
    OBVIOUS
  <2> QED BY <2>2, <2>3, <2>4
<1>4. {} \in H
  BY <1>1, <1>2 DEF SumsUp
<1>5. SUBSET S \subseteq H
  <2> HIDE DEF H
  <2> QED BY <1>3, <1>4, EverySubset
<1> QED BY <1>1, <1>2, <1>5

\* Zeros add up to zero.
LEMMA SumOfZeros ==
    ASSUME NEW S, IsFiniteSet(S)
    PROVE  SumFunction([x \in S |-> 0]) = 0
<1> DEFINE f == [x \in S |-> 0]
<1>0. f \in [S -> Int]
  OBVIOUS
<1>1. PICK it \in [SUBSET S -> Int] : SumFunction(f) = it[S] /\ SumsUp(it, S, f)
  <2> HIDE DEF f
  <2> QED BY <1>0, SumUnfolds
<1> DEFINE H == {T \in SUBSET S : it[T] = 0}
<1>2. ASSUME NEW T \in SUBSET S, T # {}, \A y \in T : T \ {y} \in H PROVE T \in H
  <2>1. PICK y \in T : y = FirstIn(T)
    BY <1>2, FirstExists
  <2>2. it[T] = f[y] + it[T \ {y}]
    BY <1>1, <1>2, <2>1 DEF SumsUp
  <2> QED BY <1>2, <2>2
<1>3. {} \in H
  BY <1>1 DEF SumsUp
<1>4. SUBSET S \subseteq H
  <2> HIDE DEF H
  <2> QED BY <1>2, <1>3, EverySubset
<1> QED BY <1>1, <1>4

\* The sum of natural numbers is one.
LEMMA SumOfNaturals ==
    ASSUME NEW S, IsFiniteSet(S), NEW f \in [S -> Nat]
    PROVE  SumFunction(f) \in Nat
<1> DEFINE zeros == [x \in S |-> 0]
<1>1. zeros \in [S -> Int] /\ f \in [S -> Int] /\ \A x \in S : zeros[x] <= f[x]
  OBVIOUS
<1>2. SumFunction(zeros) = 0
  BY SumOfZeros
<1>3. SumFunction(zeros) <= SumFunction(f)
  <2> HIDE DEF zeros
  <2> QED BY <1>1, SumMonotone
<1>4. SumFunction(f) \in Int
  BY <1>1, SumType
<1> QED BY <1>2, <1>3, <1>4

-----------------------------------------------------------------------------
\* Folds of sequences, from the left

\* The index FoldLeft takes next.
Greatest(T) == CHOOSE x \in T : \A y \in T : x >= y

GreatestOf(n) == [T \in SUBSET (1..n) |-> Greatest(T)]

\* A set of indices that is not empty has a last one.
LEMMA GreatestExists ==
    ASSUME NEW n \in Nat, NEW T \in SUBSET (1..n), T # {}
    PROVE  Greatest(T) \in T
<1>1. T \subseteq 0..n
  OBVIOUS
<1>2. \E x \in T : \A y \in T : y <= x
  BY <1>1, GreatestNatural
<1>3. \E x \in T : \A y \in T : x >= y
  BY <1>1, <1>2
<1> QED BY <1>3 DEF Greatest

\* The first n indices are n and those before it.
LEMMA LastOfPrefix ==
    ASSUME NEW n \in Nat \ {0}
    PROVE  Greatest(1..n) = n /\ (1..n) \ {n} = 1..(n - 1)
<1>1. Greatest(1..n) \in 1..n
  <2>1. 1..n \in SUBSET (1..n) /\ 1..n # {}
    BY 1 \in 1..n
  <2> QED BY <2>1, GreatestExists
<1>2. \A y \in 1..n : Greatest(1..n) >= y
  <2>1. \E x \in 1..n : \A y \in 1..n : x >= y
    BY n \in 1..n /\ \A y \in 1..n : n >= y
  <2> QED BY <2>1 DEF Greatest
<1> QED BY <1>1, <1>2

\* A sequence of n elements can be folded into values of any set.
LEMMA SequenceFoldExists ==
    ASSUME NEW n \in Nat, NEW A, NEW base \in A, NEW step, StepsWithin(step, 1..n, A)
    PROVE  \E it \in [SUBSET (1..n) -> A] : IsFold(it, 1..n, base, GreatestOf(n), step)
<1>1. Picks(GreatestOf(n), 1..n)
  BY GreatestExists DEF Picks, GreatestOf
<1>2. IsFiniteSet(1..n)
  BY FS_Interval
<1> QED BY <1>1, <1>2, FoldExists

\* What every step keeps within a set ends within it.
LEMMA FoldStays ==
    ASSUME NEW n \in Nat, NEW A, NEW it, it[{}] \in A,
           \A T \in SUBSET (1..n) : T # {} /\ it[T \ {Greatest(T)}] \in A => it[T] \in A
    PROVE  it[1..n] \in A
<1> DEFINE H == {T \in SUBSET (1..n) : it[T] \in A}
<1>1. IsFiniteSet(1..n)
  BY FS_Interval
<1>2. {} \in H
  OBVIOUS
<1>3. ASSUME NEW T \in SUBSET (1..n), T # {}, \A x \in T : T \ {x} \in H PROVE T \in H
  BY <1>3, GreatestExists
<1>4. SUBSET (1..n) \subseteq H
  <2> DEFINE S == 1..n
  <2>1. IsFiniteSet(S) /\ {} \in H
        /\ \A T \in SUBSET S : (T # {} /\ \A x \in T : T \ {x} \in H) => T \in H
    BY <1>1, <1>2, <1>3
  <2> HIDE DEF H, S
  <2>2. SUBSET S \subseteq H
    BY <2>1, EverySubset
  <2> QED BY <2>2 DEF S
<1> QED BY <1>4

\* "p" takes one step after the other.
IsWalk(p, n, base, stride) == p[0] = base /\ \A i \in 1..n : p[i] = stride[i][p[i - 1]]

\* Steps can be taken one after the other.
LEMMA WalkExists ==
    ASSUME NEW n \in Nat, NEW A, NEW base \in A, NEW stride, StepsWithin(stride, 1..n, A)
    PROVE  \E p \in [0..n -> A] : IsWalk(p, n, base, stride)
<1>1. PICK it \in [SUBSET (1..n) -> A] : IsFold(it, 1..n, base, GreatestOf(n), stride)
  BY SequenceFoldExists
<1> DEFINE p == [i \in 0..n |-> it[1..i]]
<1>2. p \in [0..n -> A]
  <2>1. ASSUME NEW i \in 0..n PROVE 1..i \subseteq 1..n
    OBVIOUS
  <2> QED BY <1>1, <2>1
<1>3. p[0] = base
  <2>1. 1..0 = {} /\ 0 \in 0..n
    OBVIOUS
  <2> QED BY <1>1, <2>1 DEF IsFold
<1>4. ASSUME NEW i \in 1..n PROVE p[i] = stride[i][p[i - 1]]
  <2>1. i \in Nat \ {0} /\ i \in 0..n /\ i - 1 \in 0..n /\ 1..i \subseteq 1..n /\ i \in 1..i
    OBVIOUS
  <2>2. Greatest(1..i) = i /\ (1..i) \ {i} = 1..(i - 1)
    BY <2>1, LastOfPrefix
  <2>3. it[1..i] = stride[GreatestOf(n)[1..i]][it[(1..i) \ {GreatestOf(n)[1..i]}]]
    BY <1>1, <2>1 DEF IsFold
  <2>4. GreatestOf(n)[1..i] = i
    BY <2>1, <2>2 DEF GreatestOf
  <2> QED BY <2>1, <2>2, <2>3, <2>4
<1> QED BY <1>2, <1>3, <1>4 DEF IsWalk

=============================================================================
