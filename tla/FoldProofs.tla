----------------------------- MODULE FoldProofs -----------------------------
(***************************************************************************)
(* Facts about the folds of the community modules, which take the elements *)
(* of a finite set one after the other: that the recursion has a solution, *)
(* and in which set its values are.                                        *)
(*                                                                         *)
(* A fold is given here by functions instead of operators: pick chooses the*)
(* element of a set that is taken first, step combines it with the value of*)
(* the others.  Induction is on the size of the set, in the form that every*)
(* set of numbers has a least element.  A sum over a set is such a fold; a *)
(* fold of a sequence from the left is one whose element taken first is    *)
(* the last position.                                                      *)
(***************************************************************************)
EXTENDS Integers, FiniteSetsExt, FiniteSetTheorems, WellFoundedInduction, TLAPS

\* Every set of natural numbers has a least element.
LEMMA LeastElement ==
  ASSUME NEW T, T \subseteq Nat, T # {}
  PROVE  \E n \in T : \A k \in T : n <= k
<1>1. PICK n \in T : \A k \in T : <<k, n>> \notin OpToRel(<, Nat)
  BY WFMin, NatLessThanWellFounded
<1>2. ASSUME NEW k \in T PROVE n <= k
  <2>1. k \in Nat /\ n \in Nat /\ <<k, n>> \in Nat \X Nat
    OBVIOUS
  <2>2. ~ (<<k, n>>[1] < <<k, n>>[2])
    BY <1>1, <2>1 DEF OpToRel
  <2> QED
    BY <2>1, <2>2
<1> QED
  BY <1>2

\* Sets of positions in a sequence have a greatest element.
LEMMA GreatestElement ==
  ASSUME NEW n \in Nat, NEW S \in SUBSET (1..n), S # {}
  PROVE  Max(S) \in S
<1> DEFINE T == {k \in Nat : \A i \in S : i <= k}
<1>1. n \in T
  OBVIOUS
<1>2. PICK k \in T : \A j \in T : k <= j
  BY <1>1, LeastElement
<1>3. k \in S
  <2>1. SUFFICES ASSUME k \notin S PROVE FALSE
    OBVIOUS
  <2>2. \A i \in S : i \in Nat \ {0} /\ i <= k - 1
    BY <2>1
  <2>3. k - 1 \in Nat
    <3>1. PICK i \in S : TRUE
      OBVIOUS
    <3>2. i \in Nat \ {0} /\ i <= k /\ k \in Nat
      BY <1>2, <3>1
    <3> QED
      BY <3>2
  <2>4. k - 1 \in T
    BY <2>2, <2>3
  <2> QED
    BY <1>2, <2>4
<1> QED
  BY <1>3 DEF Max

Picks(P, pick) == \A set \in (SUBSET P) \ {{}} : pick[set] \in set

Folds(sets, fold, base, step, pick) ==
  fold = [set \in sets |->
           IF set = {} THEN base
           ELSE step[<<pick[set], fold[set \ {pick[set]}]>>]]

\* The subsets of P with at most n elements.
UpTo(P, n) == {set \in SUBSET P : Cardinality(set) <= n}

\* What is left of a set is smaller by one.
LEMMA PickShrinks ==
  ASSUME NEW P, IsFiniteSet(P), NEW pick, Picks(P, pick),
         NEW set \in SUBSET P, set # {}
  PROVE  /\ set \ {pick[set]} \in SUBSET P
         /\ Cardinality(set) \in Nat \ {0}
         /\ Cardinality(set \ {pick[set]}) = Cardinality(set) - 1
BY FS_Subset, FS_RemoveElement, FS_CardinalityType, FS_EmptySet DEF Picks

\* The recursion has a solution on the small subsets.
LEMMA SmallFolds ==
  ASSUME NEW P, IsFiniteSet(P), NEW pick, Picks(P, pick),
         NEW base, NEW step, NEW n \in Nat
  PROVE  \E fold : Folds(UpTo(P, n), fold, base, step, pick)
<1> DEFINE T == {k \in Nat :
                   ~ \E fold : Folds(UpTo(P, k), fold, base, step, pick)}
<1>1. SUFFICES ASSUME T # {} PROVE FALSE
  OBVIOUS
<1>2. PICK k \in T : \A j \in T : k <= j
  BY <1>1, LeastElement
<1>3. CASE k = 0
  <2> DEFINE only == [set \in UpTo(P, 0) |-> base]
  <2>1. ASSUME NEW set \in UpTo(P, 0) PROVE set = {}
    <3>1. set \in SUBSET P /\ Cardinality(set) <= 0
      BY DEF UpTo
    <3>2. set # {} => Cardinality(set) \in Nat \ {0}
      BY <3>1, PickShrinks
    <3> QED
      BY <3>1, <3>2
  <2>2. Folds(UpTo(P, 0), only, base, step, pick)
    BY <2>1 DEF Folds
  <2> QED
    BY <1>2, <1>3, <2>2
<1>4. CASE k # 0
  <2>1. k - 1 \in Nat /\ k - 1 \notin T
    BY <1>2, <1>4
  <2>2. PICK fold : Folds(UpTo(P, k - 1), fold, base, step, pick)
    BY <2>1
  <2> DEFINE larger == [set \in UpTo(P, k) |->
                         IF set = {} THEN base
                         ELSE step[<<pick[set], fold[set \ {pick[set]}]>>]]
  <2>3. ASSUME NEW set \in UpTo(P, k), set # {}
        PROVE  set \ {pick[set]} \in UpTo(P, k - 1) \intersect UpTo(P, k)
    BY <2>3, PickShrinks DEF UpTo
  <2>4. ASSUME NEW set \in UpTo(P, k - 1) \intersect UpTo(P, k)
        PROVE  larger[set] = fold[set]
    BY <2>2, <2>4 DEF Folds
  <2>5. Folds(UpTo(P, k), larger, base, step, pick)
    BY <2>3, <2>4 DEF Folds
  <2> QED
    BY <1>2, <2>5
<1> QED
  BY <1>3, <1>4

\* The recursion has a solution on all subsets.
LEMMA FoldExists ==
  ASSUME NEW P, IsFiniteSet(P), NEW pick, Picks(P, pick), NEW base, NEW step
  PROVE  \E fold : Folds(SUBSET P, fold, base, step, pick)
<1>1. Cardinality(P) \in Nat /\ UpTo(P, Cardinality(P)) = SUBSET P
  BY FS_Subset, FS_CardinalityType DEF UpTo
<1>2. \E fold : Folds(UpTo(P, Cardinality(P)), fold, base, step, pick)
  BY <1>1, SmallFolds
<1> QED
  BY <1>1, <1>2

\* A fold stays in any set that holds its base and that no step leaves.
LEMMA FoldType ==
  ASSUME NEW P, IsFiniteSet(P), NEW pick, Picks(P, pick),
         NEW V, NEW fold, fold[{}] \in V,
         \A set \in (SUBSET P) \ {{}} :
           fold[set \ {pick[set]}] \in V => fold[set] \in V
  PROVE  \A set \in SUBSET P : fold[set] \in V
<1> DEFINE T == {n \in Nat : \E set \in SUBSET P :
                               Cardinality(set) = n /\ fold[set] \notin V}
<1>1. SUFFICES ASSUME NEW bad \in SUBSET P, fold[bad] \notin V PROVE FALSE
  OBVIOUS
<1>2. T # {} /\ T \subseteq Nat
  BY <1>1, FS_Subset, FS_CardinalityType
<1> HIDE DEF T
<1>3. PICK n \in T : \A k \in T : n <= k
  BY <1>2, LeastElement
<1>4. PICK set \in SUBSET P : Cardinality(set) = n /\ fold[set] \notin V
  BY <1>3 DEF T
<1> DEFINE rest == set \ {pick[set]}
<1>5. set # {}
  BY <1>4
<1>6. /\ rest \in SUBSET P /\ Cardinality(rest) = n - 1
      /\ n \in Nat \ {0}
  BY <1>4, <1>5, PickShrinks
<1>7. fold[rest] \in V
  <2>1. n - 1 \in Nat /\ ~ (n <= n - 1)
    BY <1>6
  <2> QED
    BY <1>3, <1>6, <2>1 DEF T
<1> QED
  BY <1>4, <1>5, <1>7

----------------------------------------------------------------------------
(* Sums over a finite set, in whatever order its elements are taken.       *)

First(set) == CHOOSE x \in set : TRUE

IsSum(sum, worth, P) ==
  /\ \A set \in SUBSET P : sum[set] \in Int
  /\ sum[{}] = 0
  /\ \A set \in (SUBSET P) \ {{}} :
       sum[set] = worth[First(set)] + sum[set \ {First(set)}]

Adds(sum, worth, P) ==
  sum = [set \in SUBSET P |->
          IF set = {} THEN 0 ELSE worth[First(set)] + sum[set \ {First(set)}]]

\* What adds the elements up one by one is an integer for every subset.
LEMMA AddsIsSum ==
  ASSUME NEW P, IsFiniteSet(P), NEW worth, \A x \in P : worth[x] \in Int,
         NEW sum, Adds(sum, worth, P)
  PROVE  IsSum(sum, worth, P)
<1> DEFINE pick == [set \in SUBSET P |-> First(set)]
<1>1. Picks(P, pick)
  BY DEF Picks, First
<1>2. sum[{}] = 0
  BY DEF Adds
<1>3. ASSUME NEW set \in (SUBSET P) \ {{}}
      PROVE  /\ sum[set] = worth[First(set)] + sum[set \ {First(set)}]
             /\ pick[set] = First(set) /\ worth[First(set)] \in Int
  BY DEF Adds, First
<1>4. \A set \in SUBSET P : sum[set] \in Int
  <2> HIDE DEF pick
  <2>1. ASSUME NEW set \in (SUBSET P) \ {{}}, sum[set \ {pick[set]}] \in Int
        PROVE  sum[set] \in Int
    <3>1. sum[set \ {First(set)}] \in Int /\ worth[First(set)] \in Int
      BY <1>3, <2>1
    <3>2. sum[set] = worth[First(set)] + sum[set \ {First(set)}]
      BY <1>3
    <3> QED
      BY <3>1, <3>2
  <2>2. sum[{}] \in Int
    BY <1>2
  <2> QED
    BY <1>1, <2>1, <2>2, FoldType
<1> QED
  BY <1>2, <1>3, <1>4 DEF IsSum

LEMMA SumExists ==
  ASSUME NEW P, IsFiniteSet(P), NEW worth, \A x \in P : worth[x] \in Int
  PROVE  \E sum : Adds(sum, worth, P)
<1> DEFINE pick == [set \in SUBSET P |-> First(set)]
           step == [x \in P \X Int |-> worth[x[1]] + x[2]]
<1>1. Picks(P, pick)
  BY DEF Picks, First
<1>2. ASSUME NEW set \in (SUBSET P) \ {{}}
      PROVE  /\ pick[set] = First(set) /\ First(set) \in P
             /\ worth[First(set)] \in Int
             /\ set \ {First(set)} \in SUBSET P
  BY DEF First
<1>3. PICK fold : Folds(SUBSET P, fold, 0, step, pick)
  <2> HIDE DEF pick, step
  <2> QED
    BY <1>1, FoldExists
<1>4. fold[{}] = 0
  BY <1>3 DEF Folds
<1>5. ASSUME NEW set \in (SUBSET P) \ {{}}, fold[set \ {First(set)}] \in Int
      PROVE  fold[set] = worth[First(set)] + fold[set \ {First(set)}]
  BY <1>2, <1>3, <1>5 DEF Folds
<1>6. \A set \in SUBSET P : fold[set] \in Int
  <2>1. ASSUME NEW set \in (SUBSET P) \ {{}}, fold[set \ {pick[set]}] \in Int
        PROVE  fold[set] \in Int
    <3> HIDE DEF pick, step
    <3>1. fold[set \ {First(set)}] \in Int /\ worth[First(set)] \in Int
      BY <1>2, <2>1
    <3>2. fold[set] = worth[First(set)] + fold[set \ {First(set)}]
      BY <1>5, <3>1
    <3> QED
      BY <3>1, <3>2
  <2>2. fold[{}] \in Int
    BY <1>4
  <2> HIDE DEF pick, step
  <2> QED
    BY <1>1, <2>1, <2>2, FoldType
<1>7. Adds(fold, worth, P)
  <2>1. fold = [set \in SUBSET P |-> fold[set]]
    BY <1>3 DEF Folds
  <2>2. \A set \in SUBSET P :
          fold[set] = IF set = {} THEN 0
                      ELSE worth[First(set)] + fold[set \ {First(set)}]
    BY <1>2, <1>4, <1>5, <1>6
  <2> QED
    BY <2>1, <2>2 DEF Adds
<1> QED
  BY <1>7

\* A sum of natural numbers is one.
LEMMA SumOfNaturals ==
  ASSUME NEW P, IsFiniteSet(P), NEW sum, NEW worth, IsSum(sum, worth, P),
         \A x \in P : worth[x] \in Nat
  PROVE  \A set \in SUBSET P : sum[set] \in Nat
<1> DEFINE pick == [set \in SUBSET P |-> First(set)]
<1>1. Picks(P, pick)
  BY DEF Picks, First
<1>2. ASSUME NEW set \in (SUBSET P) \ {{}}, sum[set \ {pick[set]}] \in Nat
      PROVE  sum[set] \in Nat
  <2>1. pick[set] = First(set) /\ First(set) \in P
    BY <1>1 DEF Picks
  <2>2. sum[set] = worth[First(set)] + sum[set \ {First(set)}]
    BY DEF IsSum
  <2>3. worth[First(set)] \in Nat /\ sum[set \ {First(set)}] \in Nat
    BY <1>2, <2>1
  <2> QED
    BY <2>2, <2>3
<1>3. sum[{}] \in Nat
  BY DEF IsSum
<1> HIDE DEF pick
<1> QED
  BY <1>1, <1>2, <1>3, FoldType

----------------------------------------------------------------------------
(* Folds over a sequence from the left, one position after the other.      *)

\* Induction up to n, over the set of the numbers that are through.
LEMMA StepByStep ==
  ASSUME NEW n \in Nat, NEW S, 0 \in S,
         \A i \in 1..n : i - 1 \in S => i \in S
  PROVE  0..n \subseteq S
<1> DEFINE T == (0..n) \ S
<1>1. SUFFICES ASSUME T # {} PROVE FALSE
  OBVIOUS
<1>2. PICK k \in T : \A j \in T : k <= j
  <2>1. T \subseteq Nat
    OBVIOUS
  <2> HIDE DEF T
  <2> QED
    BY <1>1, <2>1, LeastElement
<1>3. k \in 1..n /\ k - 1 \in 0..n /\ ~ (k <= k - 1)
  BY <1>2
<1> QED
  BY <1>2, <1>3

LEMMA LastPosition ==
  ASSUME NEW i \in Nat \ {0}
  PROVE  Max(1..i) = i /\ (1..i) \ {i} = 1..(i - 1)
<1>1. i \in 1..i /\ \A j \in 1..i : i >= j
  OBVIOUS
<1>2. \A k \in 1..i : (\A j \in 1..i : k >= j) => k = i
  BY <1>1
<1> QED
  BY <1>1, <1>2 DEF Max

\* The fold over the positions 1 to n, the last one taken first.
LeftFold(fold, n, V, base, step) ==
  /\ fold \in [SUBSET (1..n) -> V]
  /\ fold[{}] = base
  /\ \A set \in (SUBSET (1..n)) \ {{}} :
       /\ Max(set) \in 1..n
       /\ fold[set] = step[Max(set)][fold[set \ {Max(set)}]]

\* The same as long as the values stay in V.
LeftFoldWithin(fold, n, V, base, step) ==
  /\ fold[{}] = base
  /\ \A set \in (SUBSET (1..n)) \ {{}} :
       fold[set \ {Max(set)}] \in V =>
         fold[set] = step[Max(set)][fold[set \ {Max(set)}]]

\* A row of values, each made of the one before and the element at its place.
Row(row, n, V, base, step, last) ==
  /\ row \in [0..n -> V]
  /\ row[0] = base
  /\ \A i \in 1..n : row[i] = step[i][row[i - 1]]
  /\ row[n] = last

\* The fold from the left exists, with values in any set that no step leaves.
LEMMA LeftFoldExists ==
  ASSUME NEW n \in Nat, NEW V, NEW base \in V,
         NEW step \in [1..n -> [V -> V]]
  PROVE  \E fold : LeftFold(fold, n, V, base, step)
<1> DEFINE P == 1..n
           pick == [set \in SUBSET P |-> Max(set)]
           pairs == [x \in P \X V |-> step[x[1]][x[2]]]
           Solves(f) ==
             f = [set \in SUBSET P |->
                   IF set = {} THEN base
                   ELSE pairs[<<pick[set], f[set \ {pick[set]}]>>]]
<1>1. IsFiniteSet(P)
  BY FS_Interval
<1>2. ASSUME NEW set \in (SUBSET P) \ {{}}
      PROVE  /\ pick[set] = Max(set) /\ Max(set) \in set /\ Max(set) \in P
             /\ set \ {Max(set)} \in SUBSET P
  BY GreatestElement
<1>3. Picks(P, pick)
  BY <1>2 DEF Picks
<1>4. PICK fold : Solves(fold)
  <2>1. \E fold : Folds(SUBSET P, fold, base, pairs, pick)
    BY <1>1, <1>3, FoldExists
  <2> QED
    BY <2>1 DEF Folds
<1>5. fold[{}] = base
  BY <1>4
<1>6. ASSUME NEW i \in P, NEW v \in V
      PROVE  pairs[<<i, v>>] = step[i][v] /\ step[i][v] \in V
  <2>1. <<i, v>> \in P \X V /\ step[i] \in [V -> V]
    OBVIOUS
  <2> HIDE DEF P
  <2>2. pairs[<<i, v>>] = step[<<i, v>>[1]][<<i, v>>[2]]
    BY ONLY <2>1 DEF pairs
  <2>3. <<i, v>>[1] = i /\ <<i, v>>[2] = v
    OBVIOUS
  <2> QED
    BY ONLY <2>1, <2>2, <2>3
<1>7. ASSUME NEW set \in (SUBSET P) \ {{}}
      PROVE  fold[set] = pairs[<<Max(set), fold[set \ {Max(set)}]>>]
  <2>1. pick[set] = Max(set)
    BY <1>2
  <2> HIDE DEF pick, pairs, P
  <2>2. fold[set] = pairs[<<pick[set], fold[set \ {pick[set]}]>>]
    BY ONLY <1>4
  <2> QED
    BY ONLY <2>1, <2>2
<1>8. \A set \in SUBSET P : fold[set] \in V
  <2> HIDE DEF pick, pairs, P
  <2>1. ASSUME NEW set \in (SUBSET P) \ {{}}, fold[set \ {pick[set]}] \in V
        PROVE  fold[set] \in V
    <3>1. pick[set] = Max(set) /\ Max(set) \in P
      BY <1>2
    <3>2. fold[set] = step[Max(set)][fold[set \ {Max(set)}]]
      BY <1>6, <1>7, <2>1, <3>1
    <3> QED
      BY <1>6, <2>1, <3>1, <3>2
  <2> QED
    BY <1>1, <1>3, <1>5, <2>1, FoldType
<1>9. ASSUME NEW set \in (SUBSET P) \ {{}}
      PROVE  fold[set] = step[Max(set)][fold[set \ {Max(set)}]]
  <2> HIDE DEF pick, pairs, P
  <2> QED
    BY <1>2, <1>6, <1>7, <1>8
<1>10. fold \in [SUBSET P -> V]
  BY <1>4, <1>8
<1> QED
  BY <1>2, <1>5, <1>9, <1>10 DEF LeftFold

\* Its value on all positions is the last of such a row.
LEMMA LeftFoldSteps ==
  ASSUME NEW n \in Nat, NEW V, NEW base \in V,
         NEW step \in [1..n -> [V -> V]],
         NEW fold, LeftFoldWithin(fold, n, V, base, step)
  PROVE  \E row : Row(row, n, V, base, step, fold[1..n])
<1> DEFINE row == [i \in 0..n |-> fold[1..i]]
           S == {i \in 0..n : fold[1..i] \in V}
<1>1. 1..0 = {} /\ fold[{}] = base
  BY DEF LeftFoldWithin
<1>2. ASSUME NEW i \in 1..n, fold[1..(i - 1)] \in V
      PROVE  fold[1..i] = step[i][fold[1..(i - 1)]] /\ fold[1..i] \in V
  <2>1. 1..i \in (SUBSET (1..n)) \ {{}}
    OBVIOUS
  <2>2. Max(1..i) = i /\ (1..i) \ {i} = 1..(i - 1)
    BY LastPosition
  <2>3. fold[1..i] = step[i][fold[1..(i - 1)]]
    BY <1>2, <2>1, <2>2 DEF LeftFoldWithin
  <2> QED
    BY <1>2, <2>3
<1>3. 0..n \subseteq S
  <2>1. 0 \in S
    BY <1>1
  <2>2. ASSUME NEW i \in 1..n, i - 1 \in S PROVE i \in S
    <3>1. fold[1..(i - 1)] \in V
      BY <2>2
    <3>2. fold[1..i] \in V
      BY <1>2, <3>1
    <3> QED
      BY <3>2
  <2> HIDE DEF S
  <2> QED
    BY <2>1, <2>2, StepByStep
<1>4. row \in [0..n -> V]
  BY <1>3
<1>5. row[0] = base /\ row[n] = fold[1..n]
  BY <1>1
<1>6. \A i \in 1..n : row[i] = step[i][row[i - 1]]
  BY <1>2, <1>3
<1> QED
  BY <1>4, <1>5, <1>6 DEF Row

=============================================================================
