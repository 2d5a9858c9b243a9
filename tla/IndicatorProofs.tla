-------------------------- MODULE IndicatorProofs --------------------------
(***************************************************************************)
(* The indicators of any list of prices are what their definitions say:    *)
(* what TLC checks of Indicators for short lists.                          *)
(*                                                                         *)
(* Each indicator is a fold, or a sequence of folds over windows.  A fold  *)
(* gives a row of values (LeftFoldSteps), and what holds of the first and  *)
(* passes from each to the next holds of the last (StepByStep).            *)
(***************************************************************************)
EXTENDS Indicators, FoldProofs, SequenceTheorems

----------------------------------------------------------------------------
(* Sums.                                                                   *)

\* The partial sums of a sequence.
Partial(row, seq) ==
  /\ row \in [0..Len(seq) -> Int]
  /\ row[0] = 0
  /\ \A i \in 1..Len(seq) : row[i] = row[i - 1] + seq[i]
  /\ row[Len(seq)] = Sum(seq)

LEMMA PartialSums ==
  ASSUME NEW seq \in Seq(Int)
  PROVE  \E row : Partial(row, seq)
<1> DEFINE n == Len(seq)
           V == Int
           base == 0
           step == [i \in 1..n |-> [v \in Int |-> v + seq[i]]]
           Solves(f) ==
             f = [set \in SUBSET (1..n) |->
                   IF set = {} THEN 0
                   ELSE f[set \ {Max(set)}] + seq[Max(set)]]
<1>1. /\ n \in Nat /\ DOMAIN seq = 1..n /\ base \in V
      /\ \A i \in 1..n : seq[i] \in Int
  OBVIOUS
<1> HIDE DEF n
<1>2. step \in [1..n -> [V -> V]]
  BY <1>1
<1>3. ASSUME NEW i \in 1..n, NEW v \in V PROVE step[i][v] = v + seq[i]
  OBVIOUS
<1> HIDE DEF step, V, base
<1>4. \E f : Solves(f)
  <2>1. PICK f : LeftFold(f, n, V, base, step)
    BY <1>1, <1>2, LeftFoldExists
  <2>2. Solves(f)
    BY <1>3, <2>1 DEF LeftFold, base
  <2> QED
    BY <2>2
<1> DEFINE fold == CHOOSE f : Solves(f)
<1>5. Solves(fold)
  BY <1>4
<1>6. Sum(seq) = fold[1..n]
  BY <1>1 DEF Sum, Add, FoldLeft, MapThenFoldSet
<1> HIDE DEF fold
<1>7. LeftFoldWithin(fold, n, V, base, step)
  <2>1. \A set \in (SUBSET (1..n)) \ {{}} : Max(set) \in 1..n
    BY <1>1, GreatestElement
  <2> QED
    BY <1>3, <1>5, <2>1 DEF LeftFoldWithin, base
<1>8. PICK row : Row(row, n, V, base, step, fold[1..n])
  BY <1>1, <1>2, <1>7, LeftFoldSteps
<1>9. ASSUME NEW i \in 1..n PROVE row[i] = row[i - 1] + seq[i]
  <2>1. i - 1 \in 0..n /\ row[i - 1] \in V
    BY <1>1, <1>8 DEF Row
  <2> QED
    BY <1>3, <1>8, <2>1 DEF Row
<1> QED
  BY <1>6, <1>8, <1>9 DEF Partial, Row, n, V, base

LEMMA PartialStep ==
  ASSUME NEW seq \in Seq(Int), NEW row, Partial(row, seq),
         NEW i \in 1..Len(seq)
  PROVE  /\ row[i - 1] \in Int /\ row[i] \in Int /\ seq[i] \in Int
         /\ row[i] = row[i - 1] + seq[i]
<1>1. i - 1 \in 0..Len(seq) /\ i \in 0..Len(seq) /\ seq[i] \in Int
  OBVIOUS
<1>2. row \in [0..Len(seq) -> Int]
  BY DEF Partial
<1>3. row[i] = row[i - 1] + seq[i]
  BY DEF Partial
<1> QED
  BY <1>1, <1>2, <1>3

LEMMA PartialEnds ==
  ASSUME NEW seq \in Seq(Int), NEW row, Partial(row, seq)
  PROVE  /\ Len(seq) \in Nat /\ row[0] = 0
         /\ row[Len(seq)] = Sum(seq) /\ Sum(seq) \in Int
<1>1. Len(seq) \in Nat /\ Len(seq) \in 0..Len(seq)
  OBVIOUS
<1> QED
  BY <1>1 DEF Partial

LEMMA SumOfNothing == Sum(<<>>) = 0
<1>1. <<>> \in Seq(Int) /\ Len(<<>>) = 0
  OBVIOUS
<1>2. PICK row : Partial(row, <<>>)
  BY <1>1, PartialSums
<1> QED
  BY <1>1, <1>2 DEF Partial

LEMMA SumOfLonger ==
  ASSUME NEW seq \in Seq(Int), NEW x \in Int
  PROVE  Sum(seq) \in Int /\ Sum(Append(seq, x)) = Sum(seq) + x
<1> DEFINE n == Len(seq)
           long == Append(seq, x)
<1>1. /\ n \in Nat /\ long \in Seq(Int) /\ Len(long) = n + 1
      /\ long[n + 1] = x /\ \A i \in 1..n : long[i] = seq[i]
  OBVIOUS
<1> HIDE DEF long
<1>2. PICK a : Partial(a, seq)
  BY PartialSums
<1>3. PICK b : Partial(b, long)
  BY <1>1, PartialSums
<1> DEFINE S == {i \in 0..n : a[i] = b[i]}
<1> HIDE DEF n
<1>4. 0..n \subseteq S
  <2>1. 0 \in S
    BY <1>1, <1>2, <1>3 DEF Partial, n
  <2>2. ASSUME NEW i \in 1..n, i - 1 \in S PROVE i \in S
    <3>1. a[i] = a[i - 1] + seq[i]
      BY <1>2 DEF Partial, n
    <3>2. i \in 1..(n + 1) /\ b[i] = b[i - 1] + long[i]
      BY <1>1, <1>3 DEF Partial
    <3> QED
      BY <1>1, <2>2, <3>1, <3>2
  <2> HIDE DEF S
  <2> QED
    BY <1>1, <2>1, <2>2, StepByStep
<1>5. n \in S /\ n + 1 \in 1..(n + 1) /\ (n + 1) - 1 = n
  BY <1>1, <1>4
<1>6. b[n + 1] = b[n] + x /\ b[n + 1] = Sum(long)
  BY <1>1, <1>3, <1>5 DEF Partial
<1>7. a[n] = Sum(seq) /\ a[n] \in Int
  BY <1>1, <1>2 DEF Partial, n
<1> QED
  BY <1>5, <1>6, <1>7 DEF long

\* A sum lies between as many times the least and the greatest element.
LEMMA SumBetween ==
  ASSUME NEW seq \in Seq(Int), NEW low \in Int, NEW high \in Int,
         \A i \in 1..Len(seq) : low <= seq[i] /\ seq[i] <= high
  PROVE  /\ Sum(seq) \in Int
         /\ low * Len(seq) <= Sum(seq)
         /\ Sum(seq) <= high * Len(seq)
<1> DEFINE n == Len(seq)
<1>1. n \in Nat /\ \A i \in 1..n : seq[i] \in Int
  OBVIOUS
<1>2. PICK a : Partial(a, seq)
  BY PartialSums
<1> HIDE DEF n
<1> DEFINE S == {i \in 0..n : low * i <= a[i] /\ a[i] <= high * i}
<1>3. 0..n \subseteq S
  <2>1. 0 \in S
    BY <1>1, <1>2 DEF Partial
  <2>2. ASSUME NEW i \in 1..n, i - 1 \in S PROVE i \in S
    <3>1. a[i] = a[i - 1] + seq[i] /\ a[i - 1] \in Int
      BY <1>2, PartialStep DEF n
    <3>2. low <= seq[i] /\ seq[i] <= high
      BY DEF n
    <3>3. low * i = low * (i - 1) + low /\ high * i = high * (i - 1) + high
      BY <1>1
    <3> QED
      BY <1>1, <2>2, <3>1, <3>2, <3>3
  <2> HIDE DEF S
  <2> QED
    BY <1>1, <2>1, <2>2, StepByStep
<1>4. n \in S /\ a[n] = Sum(seq) /\ Sum(seq) \in Int
  <2> HIDE DEF S
  <2> QED
    BY <1>1, <1>2, <1>3, PartialEnds DEF n
<1> QED
  BY <1>4 DEF n

LEMMA SumNatural ==
  ASSUME NEW seq \in Seq(Nat)
  PROVE  Sum(seq) \in Nat
<1>1. seq \in Seq(Int) /\ Len(seq) \in Nat /\ \A i \in 1..Len(seq) : 0 <= seq[i]
  OBVIOUS
<1>2. PICK a : Partial(a, seq)
  BY <1>1, PartialSums
<1> DEFINE S == {i \in 0..Len(seq) : a[i] \in Nat}
<1>3. 0..Len(seq) \subseteq S
  <2>1. 0 \in S
    BY <1>1, <1>2 DEF Partial
  <2>2. ASSUME NEW i \in 1..Len(seq), i - 1 \in S PROVE i \in S
    BY <1>1, <1>2, <2>2, PartialStep
  <2> HIDE DEF S
  <2> QED
    BY <1>1, <2>1, <2>2, StepByStep
<1> QED
  BY <1>1, <1>2, <1>3, PartialEnds

\* The squares of the elements, and of their distances from m, taken k times
\* as wide.
Squares(k, m, p, q, d) ==
  /\ k \in Int /\ m \in Int
  /\ p \in Seq(Int) /\ q \in Seq(Int) /\ d \in Seq(Int)
  /\ Len(q) = Len(p) /\ Len(d) = Len(p)
  /\ \A i \in 1..Len(p) : /\ q[i] = p[i] * p[i]
                          /\ d[i] = (k * p[i] - m) * (k * p[i] - m)

LEMMA SumOfDistances ==
  ASSUME NEW k, NEW m, NEW p, NEW q, NEW d, Squares(k, m, p, q, d)
  PROVE  Sum(d) = k * k * Sum(q) - 2 * k * m * Sum(p) + Len(p) * m * m
<1> DEFINE n == Len(p)
           Whole(squares, sum, i) == k * k * squares - 2 * k * m * sum + i * m * m
<1>1. /\ k \in Int /\ m \in Int
      /\ p \in Seq(Int) /\ q \in Seq(Int) /\ d \in Seq(Int)
      /\ Len(q) = n /\ Len(d) = n
      /\ \A i \in 1..n : /\ q[i] = p[i] * p[i]
                         /\ d[i] = (k * p[i] - m) * (k * p[i] - m)
  BY DEF Squares
<1>2. PICK a : Partial(a, p)
  BY <1>1, PartialSums
<1>3. PICK b : Partial(b, q)
  BY <1>1, PartialSums
<1>4. PICK c : Partial(c, d)
  BY <1>1, PartialSums
<1>5. /\ n \in Nat /\ a[0] = 0 /\ a[n] = Sum(p)
      /\ b[0] = 0 /\ b[n] = Sum(q) /\ c[0] = 0 /\ c[n] = Sum(d)
  BY <1>1, <1>2, <1>3, <1>4, PartialEnds
<1> HIDE DEF n
<1> DEFINE S == {i \in 0..n : c[i] = Whole(b[i], a[i], i)}
<1>6. 0..n \subseteq S
  <2>1. 0 \in S
    BY <1>1, <1>5
  <2>2. ASSUME NEW i \in 1..n, i - 1 \in S PROVE i \in S
    <3>1. /\ a[i - 1] \in Int /\ a[i] \in Int /\ p[i] \in Int
          /\ a[i] = a[i - 1] + p[i]
      BY <1>1, <1>2, PartialStep DEF n
    <3>2. b[i - 1] \in Int /\ b[i] = b[i - 1] + p[i] * p[i]
      BY <1>1, <1>3, PartialStep DEF n
    <3>3. /\ c[i - 1] \in Int
          /\ c[i] = c[i - 1] + (k * p[i] - m) * (k * p[i] - m)
      BY <1>1, <1>4, PartialStep DEF n
    <3>4. c[i - 1] = Whole(b[i - 1], a[i - 1], i - 1)
      BY <2>2
    <3>5. ASSUME NEW x \in Int, NEW sum \in Int, NEW squares \in Int
          PROVE  Whole(squares, sum, i - 1) + (k * x - m) * (k * x - m)
                   = Whole(squares + x * x, sum + x, i)
      BY <1>1, <1>5
    <3>6. c[i] = Whole(b[i], a[i], i)
      <4> HIDE DEF Whole
      <4>1. Whole(b[i - 1], a[i - 1], i - 1) + (k * p[i] - m) * (k * p[i] - m)
              = Whole(b[i - 1] + p[i] * p[i], a[i - 1] + p[i], i)
        BY <3>1, <3>2, <3>5
      <4> QED
        BY <3>1, <3>2, <3>3, <3>4, <4>1
    <3> QED
      BY <3>6
  <2> HIDE DEF S
  <2> QED
    BY <1>5, <2>1, <2>2, StepByStep
<1>7. c[n] = Whole(b[n], a[n], n)
  BY <1>5, <1>6
<1> QED
  BY <1>5, <1>7 DEF n

\* The distances of the elements from m, taken k times as wide, and what exceeds.
Excesses(k, m, p, d, e) ==
  /\ k \in Int /\ m \in Int
  /\ p \in Seq(Int) /\ d \in Seq(Int) /\ e \in Seq(Int)
  /\ Len(d) = Len(p) /\ Len(e) = Len(p)
  /\ \A i \in 1..Len(p) :
       /\ d[i] = Abs(k * p[i] - m)
       /\ e[i] = IF k * p[i] > m THEN k * p[i] - m ELSE 0

LEMMA SumOfExcess ==
  ASSUME NEW k, NEW m, NEW p, NEW d, NEW e, Excesses(k, m, p, d, e)
  PROVE  Sum(d) = 2 * Sum(e) - (k * Sum(p) - Len(p) * m)
<1> DEFINE n == Len(p)
<1>1. /\ k \in Int /\ m \in Int
      /\ p \in Seq(Int) /\ d \in Seq(Int) /\ e \in Seq(Int)
      /\ Len(d) = n /\ Len(e) = n
      /\ \A i \in 1..n : /\ d[i] = Abs(k * p[i] - m)
                         /\ e[i] = IF k * p[i] > m THEN k * p[i] - m ELSE 0
  BY DEF Excesses
<1>2. PICK a : Partial(a, p)
  BY <1>1, PartialSums
<1>3. PICK b : Partial(b, d)
  BY <1>1, PartialSums
<1>4. PICK c : Partial(c, e)
  BY <1>1, PartialSums
<1>5. /\ n \in Nat /\ a[0] = 0 /\ a[n] = Sum(p)
      /\ b[0] = 0 /\ b[n] = Sum(d) /\ c[0] = 0 /\ c[n] = Sum(e)
  BY <1>1, <1>2, <1>3, <1>4, PartialEnds
<1> HIDE DEF n
<1> DEFINE S == {i \in 0..n : b[i] = 2 * c[i] - (k * a[i] - i * m)}
<1>6. 0..n \subseteq S
  <2>1. 0 \in S
    BY <1>1, <1>5
  <2>2. ASSUME NEW i \in 1..n, i - 1 \in S PROVE i \in S
    <3> DEFINE far == k * p[i] - m
    <3>1. /\ a[i - 1] \in Int /\ p[i] \in Int
          /\ a[i] = a[i - 1] + p[i]
      BY <1>1, <1>2, PartialStep DEF n
    <3>2. /\ b[i - 1] \in Int
          /\ b[i] = b[i - 1] + Abs(far)
      BY <1>1, <1>3, PartialStep DEF n
    <3>3. /\ c[i - 1] \in Int
          /\ c[i] = c[i - 1] + (IF k * p[i] > m THEN far ELSE 0)
      BY <1>1, <1>4, PartialStep DEF n
    <3>4. b[i - 1] = 2 * c[i - 1] - (k * a[i - 1] - (i - 1) * m)
      BY <2>2
    <3>5. /\ far \in Int
          /\ Abs(far) = 2 * (IF k * p[i] > m THEN far ELSE 0) - far
      <4> DEFINE whole == k * p[i]
      <4>1. whole \in Int
        BY <1>1, <3>1
      <4> HIDE DEF whole
      <4>2. /\ whole - m \in Int
            /\ Abs(whole - m)
                 = 2 * (IF whole > m THEN whole - m ELSE 0) - (whole - m)
        <5>1. CASE whole > m
          <6>1. whole - m \in Int /\ ~(whole - m < 0)
            BY <1>1, <4>1, <5>1
          <6>2. Abs(whole - m) = whole - m
            BY <6>1 DEF Abs
          <6> QED
            BY <1>1, <4>1, <5>1, <6>2
        <5>2. CASE ~(whole > m)
          <6>1. whole - m \in Int /\ (whole - m < 0 \/ whole - m = 0)
            BY <1>1, <4>1, <5>2
          <6>2. Abs(whole - m) = -(whole - m)
            BY <6>1 DEF Abs
          <6> QED
            BY <1>1, <4>1, <5>2, <6>2
        <5> QED
          BY <5>1, <5>2
      <4> QED
        BY <4>2 DEF whole
    <3>6. /\ k * a[i] = k * a[i - 1] + k * p[i]
          /\ i * m = (i - 1) * m + m
          /\ k * a[i - 1] \in Int /\ k * p[i] \in Int /\ (i - 1) * m \in Int
      <4>1. ASSUME NEW x \in Int, NEW y \in Int
            PROVE  k * (x + y) = k * x + k * y /\ k * x \in Int
        BY <1>1
      <4>2. /\ i - 1 \in Int /\ i = (i - 1) + 1
            /\ \A x \in Int : (x + 1) * m = x * m + m /\ x * m \in Int
        BY <1>1, <1>5
      <4> QED
        BY <3>1, <4>1, <4>2
    <3>7. b[i] = 2 * c[i] - (k * a[i] - i * m)
      <4> DEFINE over == IF k * p[i] > m THEN far ELSE 0
                 A == k * a[i - 1]
                 X == k * p[i]
                 M == (i - 1) * m
      <4>1. /\ over \in Int /\ Abs(far) = 2 * over - far /\ far = X - m
            /\ c[i] = c[i - 1] + over /\ b[i] = b[i - 1] + Abs(far)
            /\ A \in Int /\ X \in Int /\ M \in Int /\ m \in Int
            /\ k * a[i] = A + X /\ i * m = M + m
            /\ b[i - 1] = 2 * c[i - 1] - (A - M)
            /\ c[i - 1] \in Int
        BY <1>1, <3>2, <3>3, <3>4, <3>5, <3>6
      <4> HIDE DEF over, A, X, M, far
      <4>2. 2 * c[i - 1] - (A - M) + (2 * over - (X - m))
              = 2 * (c[i - 1] + over) - ((A + X) - (M + m))
        BY <4>1
      <4> QED
        BY <4>1, <4>2
    <3> QED
      BY <3>7
  <2> HIDE DEF S
  <2> QED
    BY <1>5, <2>1, <2>2, StepByStep
<1>7. b[n] = 2 * c[n] - (k * a[n] - n * m)
  BY <1>5, <1>6
<1> QED
  BY <1>5, <1>7 DEF n

\* A positive factor does not change a sign.
LEMMA SignOfProduct ==
  ASSUME NEW k \in Nat \ {0}, NEW x \in Int
  PROVE  (k * x >= 0 => x >= 0) /\ (x >= 0 => k * x >= 0)
<1>1. CASE x >= 0
  BY <1>1
<1>2. CASE x <= -1
  <2>1. k * x <= k * (-1)
    BY <1>2
  <2> QED
    BY <1>2, <2>1
<1> QED
  BY <1>1, <1>2

LEMMA SquareOfLongerSum ==
  ASSUME NEW i \in Nat, NEW sum \in Int, NEW squares \in Nat, NEW x \in Int,
         sum * sum <= i * squares
  PROVE  (sum + x) * (sum + x) <= (i + 1) * (squares + x * x)
<1> DEFINE rest == squares - 2 * sum * x + i * x * x
<1>1. rest >= 0
  <2>1. CASE i = 0
    <3>1. sum * sum <= 0
      BY <2>1
    <3>2. sum = 0
      BY <3>1
    <3> QED
      BY <2>1, <3>2
  <2>2. CASE i # 0
    <3>1. (sum - i * x) * (sum - i * x) >= 0
      <4>1. \A y \in Int : y * y >= 0
        OBVIOUS
      <4>2. sum - i * x \in Int
        OBVIOUS
      <4> QED
        BY <4>1, <4>2
    <3>2. (sum - i * x) * (sum - i * x)
            = sum * sum - 2 * i * sum * x + i * i * x * x
      OBVIOUS
    <3>3. i * rest = i * squares - 2 * i * sum * x + i * i * x * x
      OBVIOUS
    <3>4. i * rest >= 0
      BY <3>1, <3>2, <3>3
    <3>5. rest \in Int /\ i \in Nat \ {0}
      BY <2>2
    <3> HIDE DEF rest
    <3> QED
      BY <3>4, <3>5, SignOfProduct
  <2> QED
    BY <2>1, <2>2
<1>2. (i + 1) * (squares + x * x) - (sum + x) * (sum + x)
        = (i * squares - sum * sum) + rest
  OBVIOUS
<1> QED
  BY <1>1, <1>2

\* The square of a sum is at most as many times the sum of the squares.
LEMMA SquareOfSum ==
  ASSUME NEW p \in Seq(Int), NEW q \in Seq(Int), Len(q) = Len(p),
         \A i \in 1..Len(p) : q[i] = p[i] * p[i]
  PROVE  Sum(p) * Sum(p) <= Len(p) * Sum(q)
<1> DEFINE n == Len(p)
<1>1. PICK a : Partial(a, p)
  BY PartialSums
<1>2. PICK b : Partial(b, q)
  BY PartialSums
<1>3. /\ n \in Nat /\ a[0] = 0 /\ a[n] = Sum(p)
      /\ b[0] = 0 /\ b[n] = Sum(q)
  BY <1>1, <1>2, PartialEnds
<1> HIDE DEF n
<1> DEFINE S == {i \in 0..n : b[i] \in Nat /\ a[i] * a[i] <= i * b[i]}
<1>4. 0..n \subseteq S
  <2>1. 0 \in S
    BY <1>3
  <2>2. ASSUME NEW i \in 1..n, i - 1 \in S PROVE i \in S
    <3>1. /\ a[i - 1] \in Int /\ p[i] \in Int
          /\ a[i] = a[i - 1] + p[i]
      BY <1>1, PartialStep DEF n
    <3>2. q[i] = p[i] * p[i] /\ i \in 1..Len(q)
      BY DEF n
    <3>3. /\ b[i - 1] \in Nat /\ b[i] = b[i - 1] + p[i] * p[i]
          /\ a[i - 1] * a[i - 1] <= (i - 1) * b[i - 1]
      BY <1>2, <2>2, <3>2, PartialStep
    <3>4. i - 1 \in Nat /\ (i - 1) + 1 = i
      BY <1>3
    <3>5. (a[i - 1] + p[i]) * (a[i - 1] + p[i])
            <= ((i - 1) + 1) * (b[i - 1] + p[i] * p[i])
      BY <3>1, <3>3, <3>4, SquareOfLongerSum
    <3>6. b[i] \in Nat
      <4>1. \A x \in Int : x * x \in Nat
        OBVIOUS
      <4>2. p[i] * p[i] \in Nat
        BY <3>1, <4>1
      <4> QED
        BY <3>3, <4>2
    <3>7. a[i] * a[i] <= i * b[i]
      <4>1. a[i] * a[i] <= ((i - 1) + 1) * b[i]
        BY <3>1, <3>3, <3>5
      <4> QED
        BY <3>4, <4>1
    <3> QED
      BY <3>6, <3>7
  <2> HIDE DEF S
  <2> QED
    BY <1>3, <2>1, <2>2, StepByStep
<1>5. a[n] * a[n] <= n * b[n]
  <2>1. n \in S
    BY <1>3, <1>4
  <2> QED
    BY <2>1
<1> QED
  BY <1>3, <1>5 DEF n

----------------------------------------------------------------------------
(* The largest and the smallest price of a window.                         *)

Positive == Nat \ {0}

Elements(seq) == {seq[i] : i \in 1..Len(seq)}

LEMMA MaxIs ==
  ASSUME NEW S \in SUBSET Int, NEW m \in S, \A x \in S : x <= m
  PROVE  Max(S) = m
<1>1. \A k \in S : (\A x \in S : k >= x) => k = m
  OBVIOUS
<1>2. \A x \in S : m >= x
  OBVIOUS
<1> QED
  BY <1>1, <1>2 DEF Max

LEMMA MinIs ==
  ASSUME NEW S \in SUBSET Int, NEW m \in S, \A x \in S : m <= x
  PROVE  Min(S) = m
<1>1. \A k \in S : (\A x \in S : k <= x) => k = m
  OBVIOUS
<1> QED
  BY <1>1 DEF Min

LEMMA LargestIsMax ==
  ASSUME NEW w \in Seq(Positive), Len(w) > 0
  PROVE  /\ Largest(w) \in Positive /\ Largest(w) = Max(Elements(w))
         /\ Largest(w) \in Elements(w)
         /\ \A i \in 1..Len(w) : w[i] <= Largest(w)
<1> DEFINE n == Len(w)
           V == Nat
           base == 0
           step == [i \in 1..n |-> [v \in V |-> IF w[i] > v THEN w[i] ELSE v]]
           Solves(f) ==
             f = [set \in SUBSET (1..n) |->
                   IF set = {} THEN 0
                   ELSE IF w[Max(set)] > f[set \ {Max(set)}]
                     THEN w[Max(set)] ELSE f[set \ {Max(set)}]]
<1>1. /\ n \in Nat /\ DOMAIN w = 1..n /\ base \in V /\ n > 0
      /\ \A i \in 1..n : w[i] \in Positive
  OBVIOUS
<1> HIDE DEF n
<1>2. step \in [1..n -> [V -> V]]
  BY <1>1 DEF Positive
<1>3. ASSUME NEW i \in 1..n, NEW v \in V
      PROVE  step[i][v] = IF w[i] > v THEN w[i] ELSE v
  OBVIOUS
<1> HIDE DEF step, V, base
<1>4. \E f : Solves(f)
  <2>1. PICK f : LeftFold(f, n, V, base, step)
    BY <1>1, <1>2, LeftFoldExists
  <2>2. ASSUME NEW set \in (SUBSET (1..n)) \ {{}}
        PROVE  f[set] = IF w[Max(set)] > f[set \ {Max(set)}]
                          THEN w[Max(set)] ELSE f[set \ {Max(set)}]
    <3>1. Max(set) \in 1..n /\ f[set \ {Max(set)}] \in V
      BY <2>1 DEF LeftFold
    <3> QED
      BY <1>3, <2>1, <3>1 DEF LeftFold
  <2>3. f[{}] = 0 /\ f = [set \in SUBSET (1..n) |-> f[set]]
    BY <2>1 DEF LeftFold, base
  <2>4. Solves(f)
    <3> DEFINE Value(set) ==
                 IF set = {} THEN 0
                 ELSE IF w[Max(set)] > f[set \ {Max(set)}]
                   THEN w[Max(set)] ELSE f[set \ {Max(set)}]
    <3>1. \A set \in SUBSET (1..n) : f[set] = Value(set)
      BY <2>2, <2>3
    <3> HIDE DEF Value
    <3>2. f = [set \in SUBSET (1..n) |-> Value(set)]
      BY <2>3, <3>1
    <3> QED
      BY <3>2 DEF Value
  <2> QED
    BY <2>4
<1> DEFINE fold == CHOOSE f : Solves(f)
<1>5. Solves(fold)
  BY <1>4
<1>6. Largest(w) = fold[1..n]
  BY <1>1 DEF Largest, FoldLeft, MapThenFoldSet
<1> HIDE DEF fold
<1>7. LeftFoldWithin(fold, n, V, base, step)
  <2>1. \A set \in (SUBSET (1..n)) \ {{}} : Max(set) \in 1..n
    BY <1>1, GreatestElement
  <2> QED
    BY <1>3, <1>5, <2>1 DEF LeftFoldWithin, base
<1>8. PICK row : Row(row, n, V, base, step, fold[1..n])
  BY <1>1, <1>2, <1>7, LeftFoldSteps
<1> DEFINE S == {i \in 0..n : /\ \A k \in 1..i : w[k] <= row[i]
                              /\ i > 0 => \E k \in 1..i : row[i] = w[k]}
<1>9. 0..n \subseteq S
  <2>1. 0 \in S
    BY <1>1
  <2>2. ASSUME NEW i \in 1..n, i - 1 \in S PROVE i \in S
    <3>1. i - 1 \in 0..n /\ row[i - 1] \in Nat /\ w[i] \in Positive
      BY <1>1, <1>8 DEF Row, V
    <3>2. row[i] = IF w[i] > row[i - 1] THEN w[i] ELSE row[i - 1]
      BY <1>3, <1>8, <3>1 DEF Row, V
    <3>3. ASSUME NEW k \in 1..i PROVE w[k] <= row[i]
      <4>1. w[k] \in Positive /\ (k = i \/ k \in 1..(i - 1))
        BY <1>1
      <4>2. k \in 1..(i - 1) => w[k] <= row[i - 1]
        BY <2>2
      <4> QED
        BY <3>1, <3>2, <4>1, <4>2 DEF Positive
    <3>4. \E k \in 1..i : row[i] = w[k]
      <4>1. CASE w[i] > row[i - 1]
        BY <3>2, <4>1
      <4>2. CASE ~(w[i] > row[i - 1])
        <5>1. i - 1 > 0
          <6>1. i = 1 => row[0] = 0
            BY <1>8 DEF Row, base
          <6> QED
            BY <3>1, <4>2, <6>1 DEF Positive
        <5>2. PICK k \in 1..(i - 1) : row[i - 1] = w[k]
          BY <2>2, <5>1
        <5> QED
          BY <3>2, <4>2, <5>2
      <4> QED
        BY <4>1, <4>2
    <3> QED
      BY <3>3, <3>4
  <2> HIDE DEF S
  <2> QED
    BY <1>1, <2>1, <2>2, StepByStep
<1>10. n \in S /\ row[n] = Largest(w)
  <2>1. row[n] = Largest(w)
    BY <1>6, <1>8 DEF Row
  <2>2. n \in S
    <3> HIDE DEF S
    <3> QED
      BY <1>1, <1>9
  <2> QED
    BY <2>1, <2>2
<1>11. /\ \A k \in 1..n : w[k] <= Largest(w)
       /\ \E k \in 1..n : Largest(w) = w[k]
  BY <1>1, <1>10
<1>12. /\ Largest(w) \in Elements(w) /\ Largest(w) \in Positive
       /\ \A x \in Elements(w) : x \in Int /\ x <= Largest(w)
  BY <1>1, <1>11 DEF Elements, Positive, n
<1>13. Max(Elements(w)) = Largest(w)
  BY <1>12, MaxIs
<1> QED
  BY <1>11, <1>12, <1>13 DEF n

LEMMA SmallestIsMin ==
  ASSUME NEW w \in Seq(Positive), Len(w) > 0
  PROVE  /\ Smallest(w) \in Positive /\ Smallest(w) = Min(Elements(w))
         /\ Smallest(w) \in Elements(w)
         /\ \A i \in 1..Len(w) : Smallest(w) <= w[i]
<1> DEFINE n == Len(w)
           V == Positive
           base == Head(w)
           step == [i \in 1..n |-> [v \in V |-> IF w[i] < v THEN w[i] ELSE v]]
           Solves(f) ==
             f = [set \in SUBSET (1..n) |->
                   IF set = {} THEN Head(w)
                   ELSE IF w[Max(set)] < f[set \ {Max(set)}]
                     THEN w[Max(set)] ELSE f[set \ {Max(set)}]]
<1>1. /\ n \in Nat /\ DOMAIN w = 1..n /\ base \in V /\ n > 0 /\ Head(w) = w[1]
      /\ \A i \in 1..n : w[i] \in Positive
  OBVIOUS
<1> HIDE DEF n
<1>2. step \in [1..n -> [V -> V]]
  BY <1>1 DEF Positive
<1>3. ASSUME NEW i \in 1..n, NEW v \in V
      PROVE  step[i][v] = IF w[i] < v THEN w[i] ELSE v
  OBVIOUS
<1> HIDE DEF step, V, base
<1>4. \E f : Solves(f)
  <2>1. PICK f : LeftFold(f, n, V, base, step)
    BY <1>1, <1>2, LeftFoldExists
  <2>2. ASSUME NEW set \in (SUBSET (1..n)) \ {{}}
        PROVE  f[set] = IF w[Max(set)] < f[set \ {Max(set)}]
                          THEN w[Max(set)] ELSE f[set \ {Max(set)}]
    <3>1. Max(set) \in 1..n /\ f[set \ {Max(set)}] \in V
      BY <2>1 DEF LeftFold
    <3> QED
      BY <1>3, <2>1, <3>1 DEF LeftFold
  <2>3. f[{}] = Head(w) /\ f = [set \in SUBSET (1..n) |-> f[set]]
    BY <2>1 DEF LeftFold, base
  <2>4. Solves(f)
    <3> DEFINE Value(set) ==
                 IF set = {} THEN Head(w)
                 ELSE IF w[Max(set)] < f[set \ {Max(set)}]
                   THEN w[Max(set)] ELSE f[set \ {Max(set)}]
    <3>1. \A set \in SUBSET (1..n) : f[set] = Value(set)
      BY <2>2, <2>3
    <3> HIDE DEF Value
    <3>2. f = [set \in SUBSET (1..n) |-> Value(set)]
      BY <2>3, <3>1
    <3> QED
      BY <3>2 DEF Value
  <2> QED
    BY <2>4
<1> DEFINE fold == CHOOSE f : Solves(f)
<1>5. Solves(fold)
  BY <1>4
<1>6. Smallest(w) = fold[1..n]
  BY <1>1 DEF Smallest, FoldLeft, MapThenFoldSet
<1> HIDE DEF fold
<1>7. LeftFoldWithin(fold, n, V, base, step)
  <2>1. \A set \in (SUBSET (1..n)) \ {{}} : Max(set) \in 1..n
    BY <1>1, GreatestElement
  <2> QED
    BY <1>3, <1>5, <2>1 DEF LeftFoldWithin, base
<1>8. PICK row : Row(row, n, V, base, step, fold[1..n])
  BY <1>1, <1>2, <1>7, LeftFoldSteps
<1> DEFINE S == {i \in 0..n : /\ \A k \in 1..i : row[i] <= w[k]
                              /\ \E k \in 1..n : row[i] = w[k]}
<1>9. 0..n \subseteq S
  <2>1. 0 \in S
    BY <1>1, <1>8 DEF Row, base
  <2>2. ASSUME NEW i \in 1..n, i - 1 \in S PROVE i \in S
    <3>1. i - 1 \in 0..n /\ row[i - 1] \in Positive /\ w[i] \in Positive
      BY <1>1, <1>8 DEF Row, V
    <3>2. row[i] = IF w[i] < row[i - 1] THEN w[i] ELSE row[i - 1]
      BY <1>3, <1>8, <3>1 DEF Row, V
    <3>3. ASSUME NEW k \in 1..i PROVE row[i] <= w[k]
      <4>1. w[k] \in Positive /\ (k = i \/ k \in 1..(i - 1))
        BY <1>1
      <4>2. k \in 1..(i - 1) => row[i - 1] <= w[k]
        BY <2>2
      <4> QED
        BY <3>1, <3>2, <4>1, <4>2 DEF Positive
    <3>4. \E k \in 1..n : row[i] = w[k]
      BY <2>2, <3>2
    <3> QED
      BY <3>3, <3>4
  <2> HIDE DEF S
  <2> QED
    BY <1>1, <2>1, <2>2, StepByStep
<1>10. n \in S /\ row[n] = Smallest(w)
  <2>1. row[n] = Smallest(w)
    BY <1>6, <1>8 DEF Row
  <2>2. n \in S
    <3> HIDE DEF S
    <3> QED
      BY <1>1, <1>9
  <2> QED
    BY <2>1, <2>2
<1>11. /\ \A k \in 1..n : Smallest(w) <= w[k]
       /\ \E k \in 1..n : Smallest(w) = w[k]
  BY <1>1, <1>10
<1>12. /\ Smallest(w) \in Elements(w) /\ Smallest(w) \in Positive
       /\ \A x \in Elements(w) : x \in Int /\ Smallest(w) <= x
  BY <1>1, <1>11 DEF Elements, Positive, n
<1>13. Min(Elements(w)) = Smallest(w)
  BY <1>12, MinIs
<1> QED
  BY <1>11, <1>12, <1>13 DEF n

----------------------------------------------------------------------------
(* Averages and distances of one window.                                   *)

\* The sequences the variance and the deviation add up.
LEMMA Distances ==
  ASSUME NEW w \in Seq(Positive), Len(w) > 0
  PROVE  LET n == Len(w)
             s == Sum(w)
             p == [i \in 1..n |-> Abs(n * w[i] - s)]
             d == [i \in 1..n |-> (n * w[i] - s) * (n * w[i] - s)]
             q == [i \in 1..n |-> w[i] * w[i]]
         IN  /\ n \in Positive /\ s \in Int /\ w \in Seq(Int)
             /\ p \in Seq(Int) /\ Len(p) = n
             /\ d \in Seq(Int) /\ Len(d) = n
             /\ q \in Seq(Int) /\ Len(q) = n
             /\ \A i \in 1..n : d[i] = p[i] * p[i]
             /\ Variance(w) = Ratio(Sum(d), n * n * n)
             /\ Deviation(w) = Ratio(Sum(p), n * n)
             /\ Sum(Each(Square, w)) = Sum(q)
<1> DEFINE n == Len(w)
           s == Sum(w)
           p == [i \in 1..n |-> Abs(n * w[i] - s)]
           d == [i \in 1..n |-> (n * w[i] - s) * (n * w[i] - s)]
           q == [i \in 1..n |-> w[i] * w[i]]
<1>1. /\ n \in Positive /\ w \in Seq(Int) /\ DOMAIN w = 1..n
      /\ \A i \in 1..n : w[i] \in Int
  BY DEF Positive
<1>2. s \in Int
  <2>1. PICK a : Partial(a, w)
    BY <1>1, PartialSums
  <2> QED
    BY <1>1, <2>1, PartialEnds
<1>3. /\ Variance(w) = Ratio(Sum(d), n * n * n)
      /\ Deviation(w) = Ratio(Sum(p), n * n)
      /\ Sum(Each(Square, w)) = Sum(q)
  BY <1>1 DEF Variance, Deviation, Each, Square
<1> HIDE DEF n, s
<1>4. \A i \in 1..n : n * w[i] - s \in Int
  BY <1>1, <1>2 DEF Positive
<1>5. \A x \in Int : Abs(x) \in Int /\ x * x = Abs(x) * Abs(x) /\ x * x \in Int
  BY DEF Abs
<1>6. /\ \A i \in 1..n : p[i] \in Int /\ d[i] \in Int /\ q[i] \in Int
      /\ \A i \in 1..n : d[i] = p[i] * p[i]
  BY <1>1, <1>4, <1>5
<1>7. p \in [1..n -> Int] /\ d \in [1..n -> Int] /\ q \in [1..n -> Int]
  BY <1>6
<1>8. /\ p \in Seq(Int) /\ Len(p) = n
      /\ d \in Seq(Int) /\ Len(d) = n
      /\ q \in Seq(Int) /\ Len(q) = n
  <2> HIDE DEF p, d, q
  <2>1. n \in Nat
    BY <1>1 DEF Positive
  <2> QED
    BY <1>7, <2>1
<1> QED
  BY <1>1, <1>2, <1>3, <1>6, <1>8 DEF n, s

\* The variance is the mean of the squares less the square of the mean.
LEMMA VarianceIs ==
  ASSUME NEW w \in Seq(Positive), Len(w) > 0
  PROVE  Equal(Variance(w),
               Ratio(Len(w) * Sum(Each(Square, w)) - Square(Sum(w)),
                     Square(Len(w))))
<1> DEFINE n == Len(w)
           s == Sum(w)
           d == [i \in 1..n |-> (n * w[i] - s) * (n * w[i] - s)]
           q == [i \in 1..n |-> w[i] * w[i]]
           D == Sum(d)
           Q == Sum(q)
<1>1. /\ n \in Positive /\ s \in Int /\ w \in Seq(Int)
      /\ d \in Seq(Int) /\ Len(d) = n /\ q \in Seq(Int) /\ Len(q) = n
      /\ Variance(w) = Ratio(D, n * n * n) /\ Sum(Each(Square, w)) = Q
  BY Distances
<1>2. D = n * n * Q - 2 * n * s * s + n * s * s
  <2>1. n \in Int /\ n = Len(w) /\ s = Sum(w)
    BY <1>1 DEF Positive
  <2>2. \A i \in 1..Len(w) : /\ q[i] = w[i] * w[i]
                             /\ d[i] = (n * w[i] - s) * (n * w[i] - s)
    OBVIOUS
  <2>3. Len(q) = Len(w) /\ Len(d) = Len(w)
    BY <1>1
  <2> HIDE DEF d, q, s, n
  <2>4. Squares(n, s, w, q, d)
    BY <1>1, <2>1, <2>2, <2>3 DEF Squares
  <2>5. Sum(d) = n * n * Sum(q) - 2 * n * s * Sum(w) + Len(w) * s * s
    BY <2>4, SumOfDistances
  <2> QED
    BY <2>1, <2>5
<1>3. Q \in Int
  <2> HIDE DEF q
  <2>1. PICK b : Partial(b, q)
    BY <1>1, PartialSums
  <2> QED
    BY <1>1, <2>1, PartialEnds
<1> HIDE DEF n, s, D, Q
<1>4. D * (n * n) = (n * Q - s * s) * (n * n * n)
  BY <1>1, <1>2, <1>3 DEF Positive
<1>5. Equal(Ratio(D, n * n * n), Ratio(n * Q - Square(s), Square(n)))
  <2> DEFINE x == D * (n * n)
             y == (n * Q - s * s) * (n * n * n)
  <2>1. x \in Int /\ y \in Int
    BY <1>1, <1>2, <1>3 DEF Positive
  <2>2. ~(x > y) /\ ~(y > x)
    <3> HIDE DEF x, y
    <3> QED
      BY <1>4, <2>1 DEF x, y
  <2> QED
    BY <2>2 DEF Equal, Above, Ratio, Square
<1> QED
  BY <1>1, <1>5 DEF n, s

\* The mean distance from the average is twice the mean of what exceeds it.
LEMMA DeviationIs ==
  ASSUME NEW w \in Seq(Positive), Len(w) > 0
  PROVE  LET n == Len(w)
             s == Sum(w)
             e == [i \in 1..n |-> IF n * w[i] > s THEN n * w[i] - s ELSE 0]
         IN  Deviation(w) = Ratio(2 * Sum(e), n * n) /\ Sum(e) \in Int
<1> DEFINE n == Len(w)
           s == Sum(w)
           p == [i \in 1..n |-> Abs(n * w[i] - s)]
           e == [i \in 1..n |-> IF n * w[i] > s THEN n * w[i] - s ELSE 0]
<1>1. /\ n \in Positive /\ s \in Int /\ w \in Seq(Int)
      /\ p \in Seq(Int) /\ Len(p) = n
      /\ Deviation(w) = Ratio(Sum(p), n * n)
  BY Distances
<1>2. e \in Seq(Int) /\ Len(e) = n
  <2> HIDE DEF n, s
  <2>1. n \in Nat /\ \A i \in 1..n : n * w[i] - s \in Int
    BY <1>1 DEF Positive, n
  <2>2. e \in [1..n -> Int]
    BY <2>1
  <2> HIDE DEF e
  <2> QED
    BY <2>1, <2>2
<1>3. Excesses(n, s, w, p, e)
  <2>1. n \in Int /\ Len(w) = n
    BY <1>1 DEF Positive
  <2>2. \A i \in 1..Len(w) :
          /\ p[i] = Abs(n * w[i] - s)
          /\ e[i] = IF n * w[i] > s THEN n * w[i] - s ELSE 0
    OBVIOUS
  <2> HIDE DEF n, s, p, e
  <2> QED
    BY <1>1, <1>2, <2>1, <2>2 DEF Excesses
<1>4. Sum(e) \in Int
  <2> HIDE DEF e
  <2>1. PICK a : Partial(a, e)
    BY <1>2, PartialSums
  <2> QED
    BY <1>2, <2>1, PartialEnds
<1>5. Sum(p) = 2 * Sum(e)
  <2> HIDE DEF p, e
  <2>1. Sum(p) = 2 * Sum(e) - (n * Sum(w) - Len(w) * s)
    BY <1>3, SumOfExcess
  <2>2. n * Sum(w) = Len(w) * s /\ Len(w) * s \in Int
    BY <1>1 DEF Positive
  <2> QED
    BY <1>4, <2>1, <2>2
<1> QED
  BY <1>1, <1>4, <1>5

\* The bands are the average and a multiple of the standard deviation.
LEMMA BandsAre ==
  ASSUME NEW w \in Seq(Positive), Len(w) > 0, NEW k \in Nat
  PROVE  /\ Bands(w, k).middle = Mean(w)
         /\ Equal(Bands(w, k).spread,
                  Ratio(Square(k) * (Len(w) * Sum(Each(Square, w)) - Square(Sum(w))),
                        Square(Len(w))))
<1> DEFINE n == Len(w)
           v == Variance(w)
           r == n * Sum(Each(Square, w)) - Square(Sum(w))
           d == [i \in 1..n |-> (n * w[i] - Sum(w)) * (n * w[i] - Sum(w))]
           q == [i \in 1..n |-> w[i] * w[i]]
<1>1. /\ n \in Positive /\ Sum(w) \in Int
      /\ d \in Seq(Int) /\ q \in Seq(Int)
      /\ v = Ratio(Sum(d), n * n * n) /\ Sum(Each(Square, w)) = Sum(q)
  BY Distances
<1>2. Sum(d) \in Int /\ Sum(q) \in Int
  <2> HIDE DEF d, q
  <2>1. PICK a : Partial(a, d)
    BY <1>1, PartialSums
  <2>2. PICK b : Partial(b, q)
    BY <1>1, PartialSums
  <2> QED
    BY <1>1, <2>1, <2>2, PartialEnds
<1>3. Equal(v, Ratio(r, Square(n)))
  BY VarianceIs
<1>4. Bands(w, k) = [middle |-> Mean(w),
                     spread |-> Ratio(Square(k) * v.num, v.den)]
  BY DEF Bands
<1> HIDE DEF n, d, q
<1>5. v.num \in Int /\ v.den \in Int /\ r \in Int /\ Square(n) \in Int
  <2> HIDE DEF v
  <2>1. n \in Int /\ n * n * n \in Int /\ Square(n) \in Int
    <3>1. \A x \in Int : x * x \in Int /\ x * x * x \in Int
      OBVIOUS
    <3>2. n \in Int
      BY <1>1 DEF Positive
    <3> QED
      BY <3>1, <3>2 DEF Square
  <2>2. v.num = Sum(d) /\ v.den = n * n * n
    BY <1>1 DEF Ratio
  <2>3. r \in Int
    <3>1. n * Sum(q) \in Int /\ Square(Sum(w)) \in Int
      <4>1. \A x, y \in Int : x * y \in Int
        OBVIOUS
      <4> HIDE DEF r
      <4> QED
        BY <1>1, <1>2, <2>1, <4>1 DEF Square
    <3> QED
      BY <1>1, <3>1
  <2> QED
    BY <1>2, <2>1, <2>2, <2>3
<1> HIDE DEF v, r
<1>6. v.num * Square(n) = r * v.den
  <2>1. ASSUME NEW x \in Int, NEW y \in Int, ~(x > y), ~(y > x) PROVE x = y
    BY <2>1
  <2>2. v.num * Square(n) \in Int /\ r * v.den \in Int
    BY <1>5
  <2> QED
    BY <1>3, <2>1, <2>2 DEF Equal, Above, Ratio
<1>7. (Square(k) * v.num) * Square(n) = (Square(k) * r) * v.den
  <2>1. Square(k) \in Int
    BY DEF Square
  <2>2. /\ (Square(k) * v.num) * Square(n) = Square(k) * (v.num * Square(n))
        /\ (Square(k) * r) * v.den = Square(k) * (r * v.den)
    <3>1. ASSUME NEW x \in Int, NEW y \in Int, NEW z \in Int
          PROVE  (x * y) * z = x * (y * z)
      OBVIOUS
    <3> QED
      BY <1>5, <2>1, <3>1
  <2> QED
    BY <1>6, <2>2
<1>8. Equal(Ratio(Square(k) * v.num, v.den), Ratio(Square(k) * r, Square(n)))
  <2> DEFINE x == (Square(k) * v.num) * Square(n)
  <2>1. x \in Int
    <3>1. Square(k) \in Int
      BY DEF Square
    <3> QED
      BY <1>5, <3>1
  <2>2. ~(x > x)
    <3> HIDE DEF x
    <3> QED
      BY <2>1
  <2> QED
    BY <1>7, <2>2 DEF Equal, Above, Ratio
<1>9. /\ Bands(w, k).middle = Mean(w)
      /\ Bands(w, k).spread = Ratio(Square(k) * v.num, v.den)
  BY <1>4
<1>10. Equal(Bands(w, k).spread, Ratio(Square(k) * r, Square(n)))
  BY <1>8, <1>9
<1> QED
  BY <1>9, <1>10 DEF r, n

\* The average deviation is at most the standard one.
LEMMA DeviationWithin ==
  ASSUME NEW w \in Seq(Positive), Len(w) > 0
  PROVE  ~Above(Ratio(Square(Deviation(w).num), Square(Deviation(w).den)),
                Variance(w))
<1> DEFINE n == Len(w)
           s == Sum(w)
           p == [i \in 1..n |-> Abs(n * w[i] - s)]
           d == [i \in 1..n |-> (n * w[i] - s) * (n * w[i] - s)]
           D == Sum(d)
           P == Sum(p)
<1>1. /\ n \in Positive
      /\ p \in Seq(Int) /\ Len(p) = n /\ d \in Seq(Int) /\ Len(d) = n
      /\ \A i \in 1..n : d[i] = p[i] * p[i]
      /\ Variance(w) = Ratio(D, n * n * n) /\ Deviation(w) = Ratio(P, n * n)
  BY Distances
<1>2. P * P <= n * D /\ P \in Int /\ D \in Int
  <2> HIDE DEF p, d
  <2>1. Sum(p) * Sum(p) <= Len(p) * Sum(d)
    BY <1>1, SquareOfSum
  <2>2. PICK a : Partial(a, p)
    BY <1>1, PartialSums
  <2>3. PICK b : Partial(b, d)
    BY <1>1, PartialSums
  <2>4. Sum(p) \in Int /\ Sum(d) \in Int
    BY <1>1, <2>2, <2>3, PartialEnds
  <2> QED
    BY <1>1, <2>1, <2>4
<1> HIDE DEF n, P, D
<1>3. P * P * (n * n * n) <= D * ((n * n) * (n * n))
  <2> DEFINE m == n * n * n
             x == n * D - P * P
  <2>1. m \in Nat \ {0}
    BY <1>1 DEF Positive
  <2>2. x \in Int /\ x >= 0
    BY <1>1, <1>2 DEF Positive
  <2>3. m * x >= 0
    <3> HIDE DEF m, x
    <3> QED
      BY <2>1, <2>2, SignOfProduct
  <2>4. m * x = D * ((n * n) * (n * n)) - P * P * (n * n * n)
    BY <1>1, <1>2 DEF Positive
  <2>5. P * P * (n * n * n) \in Int /\ D * ((n * n) * (n * n)) \in Int
    BY <1>1, <1>2 DEF Positive
  <2> QED
    BY <2>3, <2>4, <2>5
<1>4. ~Above(Ratio(Square(P), Square(n * n)), Ratio(D, n * n * n))
  <2>1. P * P * (n * n * n) \in Int /\ D * ((n * n) * (n * n)) \in Int
    BY <1>1, <1>2 DEF Positive
  <2>2. ~(P * P * (n * n * n) > D * ((n * n) * (n * n)))
    BY <1>3, <2>1
  <2> QED
    BY <2>2 DEF Above, Ratio, Square
<1> QED
  BY <1>1, <1>4 DEF Ratio

----------------------------------------------------------------------------
(* Windows.                                                                *)

Count(prices, n) == IF Len(prices) >= n THEN Len(prices) - n + 1 ELSE 0

\* There is a window for every price but the first n - 1.
LEMMA WindowsType ==
  ASSUME NEW P, NEW p \in Seq(P), NEW n \in Nat \ {0}
  PROVE  /\ Count(p, n) \in Nat
         /\ Windows(p, n) = [i \in 1..Count(p, n) |-> SubSeq(p, i, i + n - 1)]
<1>1. Len(p) \in Nat
  OBVIOUS
<1>2. Count(p, n) \in Nat
  BY <1>1 DEF Count
<1>3. 1..(Len(p) - n + 1) = 1..Count(p, n)
  BY <1>1 DEF Count
<1> QED
  BY <1>2, <1>3 DEF Windows

\* The length of a sequence written as a function.
LEMMA LenOfFunction ==
  ASSUME NEW f, NEW k \in Nat, f = [i \in 1..k |-> f[i]]
  PROVE  Len(f) = k
<1> DEFINE S == {f[i] : i \in 1..k}
<1>1. \A i \in 1..k : f[i] \in S
  OBVIOUS
<1>2. f \in [1..k -> S]
  BY <1>1
<1>3. f \in Seq(S) /\ DOMAIN f = 1..k
  BY <1>2
<1> QED
  BY <1>3

LEMMA SmaType ==
  ASSUME NEW P, NEW p \in Seq(P), NEW n \in Nat \ {0}
  PROVE  /\ Len(calculate_sma(p, n)) = Count(p, n)
         /\ \A i \in 1..Count(p, n) :
              calculate_sma(p, n)[i] = Mean(SubSeq(p, i, i + n - 1))
<1> DEFINE w == Windows(p, n)
<1>1. calculate_sma(p, n) = [i \in DOMAIN w |-> Mean(w[i])]
  BY DEF calculate_sma, Each
<1>2. /\ Count(p, n) \in Nat /\ DOMAIN w = 1..Count(p, n)
      /\ \A i \in 1..Count(p, n) : w[i] = SubSeq(p, i, i + n - 1)
  BY WindowsType
<1> HIDE DEF w
<1>3. calculate_sma(p, n) = [i \in 1..Count(p, n) |-> calculate_sma(p, n)[i]]
  BY <1>1, <1>2
<1> QED
  BY <1>1, <1>2, <1>3, LenOfFunction

LEMMA RsiType ==
  ASSUME NEW P, NEW p \in Seq(P), NEW n \in Nat \ {0}
  PROVE  /\ Len(calculate_rsi(p, n)) = Count(p, n + 1)
         /\ \A i \in 1..Count(p, n + 1) :
              calculate_rsi(p, n)[i] = Strength(SubSeq(p, i, i + (n + 1) - 1))
<1> DEFINE w == Windows(p, n + 1)
<1>1. calculate_rsi(p, n) = [i \in DOMAIN w |-> Strength(w[i])]
  BY DEF calculate_rsi, Each
<1>2. n + 1 \in Nat \ {0}
  OBVIOUS
<1>3. /\ Count(p, n + 1) \in Nat /\ DOMAIN w = 1..Count(p, n + 1)
      /\ \A i \in 1..Count(p, n + 1) : w[i] = SubSeq(p, i, i + (n + 1) - 1)
  BY <1>2, WindowsType
<1> HIDE DEF w
<1>4. calculate_rsi(p, n) = [i \in 1..Count(p, n + 1) |-> calculate_rsi(p, n)[i]]
  BY <1>1, <1>3
<1> QED
  BY <1>1, <1>3, <1>4, LenOfFunction

LEMMA RocType ==
  ASSUME NEW P, NEW p \in Seq(P), NEW n \in Nat \ {0}
  PROVE  /\ Len(calculate_roc(p, n)) = Count(p, n + 1)
         /\ \A i \in 1..Count(p, n + 1) :
              calculate_roc(p, n)[i] = Change(SubSeq(p, i, i + (n + 1) - 1))
<1> DEFINE w == Windows(p, n + 1)
<1>1. calculate_roc(p, n) = [i \in DOMAIN w |-> Change(w[i])]
  BY DEF calculate_roc, Each
<1>2. n + 1 \in Nat \ {0}
  OBVIOUS
<1>3. /\ Count(p, n + 1) \in Nat /\ DOMAIN w = 1..Count(p, n + 1)
      /\ \A i \in 1..Count(p, n + 1) : w[i] = SubSeq(p, i, i + (n + 1) - 1)
  BY <1>2, WindowsType
<1> HIDE DEF w
<1>4. calculate_roc(p, n) = [i \in 1..Count(p, n + 1) |-> calculate_roc(p, n)[i]]
  BY <1>1, <1>3
<1> QED
  BY <1>1, <1>3, <1>4, LenOfFunction

LEMMA BandsType ==
  ASSUME NEW P, NEW p \in Seq(P), NEW n \in Nat \ {0}, NEW k \in Nat
  PROVE  /\ Len(calculate_bollinger_bands(p, n, k)) = Count(p, n)
         /\ \A i \in 1..Count(p, n) :
              calculate_bollinger_bands(p, n, k)[i]
                = Bands(SubSeq(p, i, i + n - 1), k)
<1> DEFINE w == Windows(p, n)
<1>1. calculate_bollinger_bands(p, n, k) = [i \in DOMAIN w |-> Bands(w[i], k)]
  BY DEF calculate_bollinger_bands, Each
<1>2. /\ Count(p, n) \in Nat /\ DOMAIN w = 1..Count(p, n)
      /\ \A i \in 1..Count(p, n) : w[i] = SubSeq(p, i, i + n - 1)
  BY WindowsType
<1> HIDE DEF w
<1>3. calculate_bollinger_bands(p, n, k) = [i \in 1..Count(p, n) |-> calculate_bollinger_bands(p, n, k)[i]]
  BY <1>1, <1>2
<1> QED
  BY <1>1, <1>2, <1>3, LenOfFunction

\* What a window holds.
LEMMA WindowAt ==
  ASSUME NEW P, NEW p \in Seq(P), NEW n \in Nat \ {0}, NEW i \in 1..Count(p, n)
  PROVE  LET w == SubSeq(p, i, i + n - 1)
         IN  /\ w \in Seq(P) /\ Len(w) = n
             /\ i \in 1..Len(p) /\ i + n - 1 \in 1..Len(p)
             /\ \A j \in 1..n : w[j] = p[i + j - 1] /\ i + j - 1 \in 1..Len(p)
             /\ Elements(w) = {p[j] : j \in i..(i + n - 1)}
<1> DEFINE w == SubSeq(p, i, i + n - 1)
<1>1. /\ Len(p) \in Nat /\ i \in 1..Len(p) /\ i + n - 1 \in 1..Len(p)
      /\ i <= i + n - 1 /\ (i + n - 1) - i + 1 = n
  BY DEF Count
<1>2. /\ w \in Seq(P) /\ Len(w) = n
      /\ \A j \in 1..n : w[j] = p[i + j - 1]
  <2>1. \A j \in i..(i + n - 1) : p[j] \in P
    BY <1>1
  <2> QED
    BY <1>1, <2>1, SubSeqProperties
<1> HIDE DEF w
<1>3. \A j \in 1..n : i + j - 1 \in i..(i + n - 1) /\ i + j - 1 \in 1..Len(p)
  BY <1>1
<1>4. Elements(w) = {p[j] : j \in i..(i + n - 1)}
  <2>1. \A j \in 1..n : w[j] \in {p[k] : k \in i..(i + n - 1)}
    BY <1>2, <1>3
  <2>2. ASSUME NEW k \in i..(i + n - 1) PROVE \E j \in 1..n : p[k] = w[j]
    <3>1. k - i + 1 \in 1..n /\ i + (k - i + 1) - 1 = k
      BY <1>1
    <3> QED
      BY <1>2, <3>1
  <2> DEFINE held == {p[k] : k \in i..(i + n - 1)}
  <2>3. Elements(w) = {w[j] : j \in 1..n}
    BY <1>2 DEF Elements
  <2>4. Elements(w) \subseteq held
    BY <2>1, <2>3
  <2>5. held \subseteq Elements(w)
    BY <2>2, <2>3
  <2> QED
    BY <2>4, <2>5
<1> QED
  BY <1>1, <1>2, <1>3, <1>4 DEF w

LEMMA RollingType ==
  ASSUME NEW P, NEW p \in Seq(P), NEW n \in Nat \ {0}, NEW i \in 1..Count(p, n)
  PROVE  LET w == SubSeq(p, i, i + n - 1)
         IN  /\ calculate_minimum(p, n)[i] = Smallest(w)
             /\ calculate_maximum(p, n)[i] = Largest(w)
             /\ calculate_std_dev(p, n)[i] = Variance(w)
             /\ calculate_mad(p, n)[i] = Deviation(w)
<1> DEFINE w == Windows(p, n)
<1>1. DOMAIN w = 1..Count(p, n) /\ w[i] = SubSeq(p, i, i + n - 1)
  BY WindowsType
<1> HIDE DEF w
<1> QED
  BY <1>1 DEF w, calculate_minimum, calculate_maximum, calculate_std_dev,
              calculate_mad, Each

\* Every rolling value is what the definition says of its window.
LEMMA RollingAgrees ==
  ASSUME NEW p \in Seq(Positive), NEW n \in 1..Len(p), NEW k \in Nat
  PROVE  RollingOK(p, n, k)
<1> DEFINE Excess(x, sum) == IF n * x > sum THEN n * x - sum ELSE 0
<1>1. n \in Nat \ {0} /\ 1..(Len(p) - n + 1) = 1..Count(p, n)
  BY DEF Count
<1>2. SUFFICES
        ASSUME NEW i \in 1..Count(p, n)
        PROVE  LET low   == calculate_minimum(p, n)[i]
                   high  == calculate_maximum(p, n)[i]
                   sma   == calculate_sma(p, n)[i]
                   mad   == calculate_mad(p, n)[i]
                   var   == calculate_std_dev(p, n)[i]
                   bands == calculate_bollinger_bands(p, n, k)[i]
                   w     == SubSeq(p, i, i + n - 1)
                   prices == {p[j] : j \in i..(i + n - 1)}
                   spread == n * Sum(Each(Square, w)) - Square(Sum(w))
                   E(x)   == Excess(x, Sum(w))
               IN  /\ low = Min(prices) /\ high = Max(prices)
                   /\ Equal(sma, Ratio(Sum(w), n))
                   /\ Equal(var, Ratio(spread, Square(n)))
                   /\ Equal(mad, Ratio(2 * Sum(Each(E, w)), Square(n)))
                   /\ Equal(bands.middle, Ratio(Sum(w), n))
                   /\ Equal(bands.spread, Ratio(Square(k) * spread, Square(n)))
                   /\ ~Above(Ratio(Square(mad.num), Square(mad.den)), var)
  BY <1>1 DEF RollingOK
<1> HIDE DEF Excess
<1> DEFINE w == SubSeq(p, i, i + n - 1)
<1>3. /\ w \in Seq(Positive) /\ Len(w) = n
      /\ Elements(w) = {p[j] : j \in i..(i + n - 1)}
  <2>1. p \in Seq(Positive) /\ n \in Nat \ {0} /\ i \in 1..Count(p, n)
    BY <1>1
  <2> QED
    BY ONLY <2>1, WindowAt
<1>4. /\ calculate_minimum(p, n)[i] = Smallest(w)
      /\ calculate_maximum(p, n)[i] = Largest(w)
      /\ calculate_std_dev(p, n)[i] = Variance(w)
      /\ calculate_mad(p, n)[i] = Deviation(w)
      /\ calculate_sma(p, n)[i] = Mean(w)
      /\ calculate_bollinger_bands(p, n, k)[i] = Bands(w, k)
  BY <1>1, RollingType, SmaType, BandsType
<1> HIDE DEF w
<1> USE DEF Excess
<1> DEFINE E(x) == Excess(x, Sum(w))
           spread == n * Sum(Each(Square, w)) - Square(Sum(w))
<1>5. Len(w) > 0
  BY <1>1, <1>3
<1>6. Smallest(w) = Min(Elements(w)) /\ Largest(w) = Max(Elements(w))
  BY <1>3, <1>5, SmallestIsMin, LargestIsMax
<1>7. Sum(w) \in Int /\ n \in Int
  <2>1. w \in Seq(Int)
    BY <1>3 DEF Positive
  <2>2. PICK a : Partial(a, w)
    BY <2>1, PartialSums
  <2> QED
    BY <2>1, <2>2, PartialEnds
<1>8. /\ Mean(w) = Ratio(Sum(w), n)
      /\ Equal(Ratio(Sum(w), n), Ratio(Sum(w), n))
  <2>1. Equal(Ratio(Sum(w), n), Ratio(Sum(w), n))
    BY <1>7 DEF Equal, Above, Ratio
  <2> QED
    BY <1>3, <2>1 DEF Mean
<1>9. Equal(Variance(w), Ratio(spread, Square(n)))
  BY <1>3, <1>5, VarianceIs
<1>10. Equal(Deviation(w), Ratio(2 * Sum(Each(E, w)), Square(n)))
  <2> DEFINE e == [j \in 1..n |-> IF n * w[j] > Sum(w) THEN n * w[j] - Sum(w)
                                                       ELSE 0]
  <2>1. Deviation(w) = Ratio(2 * Sum(e), n * n) /\ Sum(e) \in Int
    BY <1>3, <1>5, DeviationIs
  <2>2. Each(E, w) = e
    <3>1. DOMAIN w = 1..n
      BY <1>1, <1>3
    <3> QED
      BY <3>1 DEF Each
  <2> HIDE DEF e, E
  <2>3. Equal(Ratio(2 * Sum(e), n * n), Ratio(2 * Sum(e), n * n))
    <3> DEFINE x == 2 * Sum(e) * (n * n)
    <3>1. x \in Int
      BY <1>7, <2>1
    <3>2. ~(x > x)
      <4> HIDE DEF x
      <4> QED
        BY <3>1
    <3> QED
      BY <3>2 DEF Equal, Above, Ratio
  <2> QED
    BY <2>1, <2>2, <2>3 DEF Square
<1>11. /\ Bands(w, k).middle = Mean(w)
       /\ Equal(Bands(w, k).spread, Ratio(Square(k) * spread, Square(n)))
  BY <1>3, <1>5, BandsAre
<1>12. ~Above(Ratio(Square(Deviation(w).num), Square(Deviation(w).den)),
              Variance(w))
  BY <1>3, <1>5, DeviationWithin
<1> QED
  BY <1>3, <1>4, <1>6, <1>8, <1>9, <1>10, <1>11, <1>12 DEF w

----------------------------------------------------------------------------
(* The moves of a window.                                                  *)

LEMMA MovesType ==
  ASSUME NEW w \in Seq(Positive), NEW m \in Nat \ {0}, Len(w) = m + 1
  PROVE  /\ Gains(w) \in Seq(Nat) /\ Len(Gains(w)) = m
         /\ Losses(w) \in Seq(Nat) /\ Len(Losses(w)) = m
         /\ \A i \in 1..m :
              /\ w[i] \in Positive /\ w[i + 1] \in Positive
              /\ Gains(w)[i] = IF w[i + 1] > w[i] THEN w[i + 1] - w[i] ELSE 0
              /\ Losses(w)[i] = IF w[i + 1] > w[i] THEN 0 ELSE w[i] - w[i + 1]
<1>1. /\ m \in Nat /\ 1..(Len(w) - 1) = 1..m
      /\ \A i \in 1..m : w[i] \in Positive /\ w[i + 1] \in Positive
  OBVIOUS
<1>2. /\ Gains(w) = [i \in 1..m |-> IF w[i + 1] > w[i] THEN w[i + 1] - w[i] ELSE 0]
      /\ Losses(w) = [i \in 1..m |-> IF w[i + 1] > w[i] THEN 0 ELSE w[i] - w[i + 1]]
  BY <1>1 DEF Gains, Losses
<1>3. Gains(w) \in [1..m -> Nat] /\ Losses(w) \in [1..m -> Nat]
  <2>1. ASSUME NEW i \in 1..m
        PROVE  /\ (IF w[i + 1] > w[i] THEN w[i + 1] - w[i] ELSE 0) \in Nat
               /\ (IF w[i + 1] > w[i] THEN 0 ELSE w[i] - w[i + 1]) \in Nat
    <3>1. w[i] \in Nat /\ w[i + 1] \in Nat
      BY <1>1 DEF Positive
    <3> QED
      BY <3>1
  <2> QED
    BY <1>2, <2>1
<1>4. ASSUME NEW f \in [1..m -> Nat] PROVE f \in Seq(Nat) /\ Len(f) = m
  BY <1>1
<1> QED
  BY <1>1, <1>2, <1>3, <1>4

\* The rises less the falls are what the price has come forward, and with the
\* falls they are the way it has gone.
LEMMA WayOfMoves ==
  ASSUME NEW w \in Seq(Positive), NEW m \in Nat \ {0}, Len(w) = m + 1,
         NEW d \in Seq(Int), Len(d) = m,
         \A i \in 1..m : d[i] = Abs(w[i + 1] - w[i])
  PROVE  LET gain == Sum(Gains(w))
             loss == Sum(Losses(w))
         IN  /\ gain \in Nat /\ loss \in Nat
             /\ Sum(d) = gain + loss
             /\ w[m + 1] - w[1] = gain - loss
<1>1. /\ Gains(w) \in Seq(Nat) /\ Len(Gains(w)) = m /\ Gains(w) \in Seq(Int)
      /\ Losses(w) \in Seq(Nat) /\ Len(Losses(w)) = m /\ Losses(w) \in Seq(Int)
  <2>1. \A s \in Seq(Nat) : s \in Seq(Int)
    OBVIOUS
  <2> QED
    BY <2>1, MovesType
<1>2. PICK a : Partial(a, Gains(w))
  BY <1>1, PartialSums
<1>3. PICK b : Partial(b, Losses(w))
  BY <1>1, PartialSums
<1>4. PICK c : Partial(c, d)
  BY PartialSums
<1>5. /\ a[0] = 0 /\ a[m] = Sum(Gains(w))
      /\ b[0] = 0 /\ b[m] = Sum(Losses(w)) /\ c[0] = 0 /\ c[m] = Sum(d)
  BY <1>1, <1>2, <1>3, <1>4, PartialEnds
<1> DEFINE S == {i \in 0..m : /\ c[i] = a[i] + b[i]
                              /\ w[i + 1] - w[1] = a[i] - b[i]}
<1>6. 0..m \subseteq S
  <2>1. 0 \in S
    <3>1. w[1] \in Int
      BY DEF Positive
    <3> QED
      BY <1>5, <3>1
  <2>2. ASSUME NEW i \in 1..m, i - 1 \in S PROVE i \in S
    <3>1. /\ a[i - 1] \in Int /\ a[i] = a[i - 1] + Gains(w)[i]
          /\ b[i - 1] \in Int /\ b[i] = b[i - 1] + Losses(w)[i]
          /\ c[i - 1] \in Int /\ c[i] = c[i - 1] + d[i]
      <4>1. a[i - 1] \in Int /\ a[i] = a[i - 1] + Gains(w)[i]
        <5>1. Gains(w) \in Seq(Int) /\ i \in 1..Len(Gains(w))
          BY <1>1
        <5> QED
          BY ONLY <1>2, <5>1, PartialStep
      <4>2. b[i - 1] \in Int /\ b[i] = b[i - 1] + Losses(w)[i]
        <5>1. Losses(w) \in Seq(Int) /\ i \in 1..Len(Losses(w))
          BY <1>1
        <5> QED
          BY ONLY <1>3, <5>1, PartialStep
      <4>3. c[i - 1] \in Int /\ c[i] = c[i - 1] + d[i]
        BY <1>4, PartialStep
      <4> QED
        BY <4>1, <4>2, <4>3
    <3>2. /\ Gains(w)[i] = IF w[i + 1] > w[i] THEN w[i + 1] - w[i] ELSE 0
          /\ Losses(w)[i] = IF w[i + 1] > w[i] THEN 0 ELSE w[i] - w[i + 1]
          /\ w[i] \in Positive /\ w[i + 1] \in Positive
      BY MovesType
    <3>3. w[i] \in Int /\ w[i + 1] \in Int /\ w[1] \in Int
      <4>1. 1 \in 1..Len(w)
        OBVIOUS
      <4>2. w[1] \in Positive
        BY <4>1
      <4> QED
        BY <3>2, <4>2 DEF Positive
    <3>4. /\ d[i] = Gains(w)[i] + Losses(w)[i]
          /\ w[i + 1] - w[i] = Gains(w)[i] - Losses(w)[i]
          /\ Gains(w)[i] \in Int /\ Losses(w)[i] \in Int
      <4>1. d[i] = Abs(w[i + 1] - w[i])
        OBVIOUS
      <4>2. Abs(w[i + 1] - w[i]) = IF w[i + 1] - w[i] < 0
                                     THEN -(w[i + 1] - w[i]) ELSE w[i + 1] - w[i]
        BY DEF Abs
      <4> DEFINE from == w[i]
                 to == w[i + 1]
      <4>3. from \in Int /\ to \in Int
        BY <3>3
      <4> HIDE DEF from, to
      <4>4. /\ (IF to - from < 0 THEN -(to - from) ELSE to - from)
                 = (IF to > from THEN to - from ELSE 0)
                     + (IF to > from THEN 0 ELSE from - to)
            /\ to - from = (IF to > from THEN to - from ELSE 0)
                             - (IF to > from THEN 0 ELSE from - to)
            /\ (IF to > from THEN to - from ELSE 0) \in Int
            /\ (IF to > from THEN 0 ELSE from - to) \in Int
        BY ONLY <4>3
      <4> QED
        BY <3>2, <4>1, <4>2, <4>4 DEF from, to
    <3>5. c[i - 1] = a[i - 1] + b[i - 1] /\ w[i] - w[1] = a[i - 1] - b[i - 1]
      <4>1. (i - 1) + 1 = i
        OBVIOUS
      <4> QED
        BY <2>2, <4>1
    <3> DEFINE g == Gains(w)[i]
               l == Losses(w)[i]
               x == a[i - 1]
               y == b[i - 1]
    <3>6. /\ g \in Int /\ l \in Int /\ x \in Int /\ y \in Int
          /\ a[i] = x + g /\ b[i] = y + l /\ c[i] = (x + y) + (g + l)
          /\ w[i] - w[1] = x - y /\ w[i + 1] - w[i] = g - l
      BY <3>1, <3>4, <3>5
    <3> HIDE DEF g, l, x, y
    <3>7. c[i] = a[i] + b[i]
      BY ONLY <3>6
    <3>8. w[i + 1] - w[1] = a[i] - b[i]
      <4> DEFINE first == w[1]
                 last == w[i]
                 next == w[i + 1]
      <4>1. /\ first \in Int /\ last \in Int /\ next \in Int
            /\ last - first = x - y /\ next - last = g - l
        BY <3>3, <3>6
      <4> HIDE DEF first, last, next
      <4>2. next - first = (x + g) - (y + l)
        BY ONLY <3>6, <4>1
      <4> QED
        BY <3>6, <4>2 DEF first, next
    <3> QED
      BY <3>7, <3>8
  <2> HIDE DEF S
  <2> QED
    BY <2>1, <2>2, StepByStep
<1>7. Sum(Gains(w)) \in Nat /\ Sum(Losses(w)) \in Nat
  BY <1>1, SumNatural
<1>8. c[m] = a[m] + b[m] /\ w[m + 1] - w[1] = a[m] - b[m]
  BY <1>6
<1> QED
  BY <1>5, <1>7, <1>8

\* The strength of a window, by the way its price has gone.
LEMMA StrengthIs ==
  ASSUME NEW w \in Seq(Positive), NEW m \in Nat \ {0}, Len(w) = m + 1,
         NEW d \in Seq(Int), Len(d) = m,
         \A i \in 1..m : d[i] = Abs(w[i + 1] - w[i])
  PROVE  LET way == Sum(d)
             forward == w[m + 1] - w[1]
         IN  Equal(Strength(w), IF way = forward
                                  THEN Ratio(10000, 101)
                                  ELSE Ratio(50 * (way + forward), way))
<1> DEFINE gain == Sum(Gains(w))
           loss == Sum(Losses(w))
           way == Sum(d)
           forward == w[m + 1] - w[1]
<1>1. /\ gain \in Nat /\ loss \in Nat
      /\ way = gain + loss /\ forward = gain - loss
  BY WayOfMoves
<1>2. Strength(w) = IF loss = 0 THEN Ratio(10000, 101)
                                ELSE Ratio(100 * gain, gain + loss)
  BY DEF Strength
<1> HIDE DEF gain, loss, way, forward
<1>3. /\ way = forward <=> loss = 0
      /\ 50 * (way + forward) = 100 * gain
  BY <1>1
<1>4. Strength(w) = IF way = forward
                      THEN Ratio(10000, 101)
                      ELSE Ratio(50 * (way + forward), way)
  BY <1>1, <1>2, <1>3
<1>5. ASSUME NEW x \in Int, NEW y \in Int
      PROVE  Equal(Ratio(x, y), Ratio(x, y))
  <2>1. x * y \in Int
    OBVIOUS
  <2>2. \A z \in Int : ~(z > z)
    OBVIOUS
  <2> QED
    BY <2>1, <2>2 DEF Equal, Above, Ratio
<1>6. /\ Equal(Ratio(10000, 101), Ratio(10000, 101))
      /\ Equal(Ratio(50 * (way + forward), way), Ratio(50 * (way + forward), way))
  <2>1. 50 * (way + forward) \in Int /\ way \in Int /\ 10000 \in Int /\ 101 \in Int
    BY <1>1
  <2> QED
    BY <1>5, <2>1
<1>7. Equal(Strength(w), Strength(w))
  BY <1>4, <1>6
<1> QED
  BY <1>4, <1>7 DEF way, forward

\* Every rate of change and every strength is what the definition says.
LEMMA MovesAgree ==
  ASSUME NEW p \in Seq(Positive), NEW n \in 1..Len(p)
  PROVE  MovesOK(p, n)
<1>1. /\ Len(p) \in Nat /\ n \in Nat \ {0} /\ n + 1 \in Nat \ {0}
      /\ Count(p, n + 1) = Len(p) - n
  BY DEF Count
<1>2. Len(calculate_roc(p, n)) = Len(p) - n /\ Len(calculate_rsi(p, n)) = Len(p) - n
  BY <1>1, RocType, RsiType
<1>3. ASSUME NEW i \in 1..(Len(p) - n)
      PROVE  LET steps == [j \in 1..n |-> p[i + j] - p[i + j - 1]]
                 way == Sum(Each(Abs, steps))
                 forward == p[i + n] - p[i]
             IN  /\ Equal(calculate_roc(p, n)[i], Rise(p, i, i + n))
                 /\ Equal(calculate_rsi(p, n)[i],
                          IF way = forward
                            THEN Ratio(10000, 101)
                            ELSE Ratio(50 * (way + forward), way))
  <2> DEFINE w == SubSeq(p, i, i + (n + 1) - 1)
  <2>1. i \in 1..Count(p, n + 1) /\ i \in Nat
    BY <1>1
  <2>2. /\ calculate_roc(p, n)[i] = Change(w)
        /\ calculate_rsi(p, n)[i] = Strength(w)
    BY <1>1, <2>1, RocType, RsiType
  <2>3. /\ w \in Seq(Positive) /\ Len(w) = n + 1
        /\ \A j \in 1..(n + 1) : w[j] = p[i + j - 1]
    <3> DEFINE long == n + 1
               u == SubSeq(p, i, i + long - 1)
    <3>1. p \in Seq(Positive) /\ long \in Nat \ {0} /\ i \in 1..Count(p, long)
      BY <1>1, <2>1
    <3> HIDE DEF long
    <3>2. u \in Seq(Positive) /\ Len(u) = long
      BY ONLY <3>1, WindowAt
    <3>3. \A j \in 1..long : u[j] = p[i + j - 1]
      BY ONLY <3>1, WindowAt
    <3> QED
      BY <3>2, <3>3 DEF long
  <2> HIDE DEF w
  <2> DEFINE steps == [j \in 1..n |-> p[i + j] - p[i + j - 1]]
             d == Each(Abs, steps)
  <2>4. /\ w[1] = p[i] /\ w[n + 1] = p[i + n]
        /\ w[1] \in Int /\ w[n + 1] \in Int
    <3>1. /\ 1 \in 1..(n + 1) /\ n + 1 \in 1..(n + 1)
          /\ i + 1 - 1 = i /\ i + (n + 1) - 1 = i + n
      BY <1>1, <2>1
    <3>2. w[1] = p[i] /\ w[n + 1] = p[i + n]
      BY <2>3, <3>1
    <3>3. w[1] \in Positive /\ w[n + 1] \in Positive
      BY <1>1, <2>3, <3>1
    <3>4. w[1] \in Int /\ w[n + 1] \in Int
      BY <3>3 DEF Positive
    <3> QED
      BY <3>2, <3>4
  <2>5. ASSUME NEW j \in 1..n
        PROVE  /\ steps[j] = w[j + 1] - w[j] /\ d[j] = Abs(w[j + 1] - w[j])
               /\ Abs(w[j + 1] - w[j]) \in Int
    <3>1. /\ j \in 1..(n + 1) /\ j + 1 \in 1..(n + 1)
          /\ i + (j + 1) - 1 = i + j
      BY <1>1, <2>1
    <3>2. w[j] = p[i + j - 1] /\ w[j + 1] = p[i + j]
      BY <2>3, <3>1
    <3>3. w[j] \in Int /\ w[j + 1] \in Int
      <4> HIDE DEF steps, d
      <4>1. j \in 1..Len(w) /\ j + 1 \in 1..Len(w)
        BY <2>3, <3>1
      <4>2. w[j] \in Positive /\ w[j + 1] \in Positive
        BY <2>3, <4>1
      <4> QED
        BY <4>2 DEF Positive
    <3>4. Abs(w[j + 1] - w[j]) \in Int
      BY <3>3 DEF Abs
    <3>5. steps[j] = w[j + 1] - w[j]
      BY <3>2
    <3> QED
      BY <3>4, <3>5 DEF Each
  <2>6. d \in Seq(Int) /\ Len(d) = n
    <3>1. d = [j \in 1..n |-> d[j]]
      BY DEF Each
    <3>2. \A j \in 1..n : d[j] \in Int
      BY <2>5
    <3> HIDE DEF d
    <3>3. d \in [1..n -> Int]
      BY <3>1, <3>2
    <3> QED
      BY <1>1, <3>3
  <2>7. Equal(calculate_rsi(p, n)[i],
              IF Sum(d) = p[i + n] - p[i]
                THEN Ratio(10000, 101)
                ELSE Ratio(50 * (Sum(d) + (p[i + n] - p[i])), Sum(d)))
    <3>1. \A j \in 1..n : d[j] = Abs(w[j + 1] - w[j])
      BY <2>5
    <3> HIDE DEF d, steps
    <3>2. Equal(Strength(w),
                IF Sum(d) = w[n + 1] - w[1]
                  THEN Ratio(10000, 101)
                  ELSE Ratio(50 * (Sum(d) + (w[n + 1] - w[1])), Sum(d)))
      <4>1. /\ w \in Seq(Positive) /\ n \in Nat \ {0} /\ Len(w) = n + 1
            /\ d \in Seq(Int) /\ Len(d) = n
        BY <1>1, <2>3, <2>6
      <4> QED
        BY ONLY <3>1, <4>1, StrengthIs, SMTT(20)
    <3> QED
      BY <2>2, <2>4, <3>2
  <2>8. Equal(calculate_roc(p, n)[i], Rise(p, i, i + n))
    <3>1. Last(w) = w[n + 1] /\ Head(w) = w[1]
      BY <1>1, <2>3 DEF Last
    <3>2. Change(w) = Rise(p, i, i + n)
      BY <2>4, <3>1 DEF Change, Rise
    <3> DEFINE x == ((p[i + n] - p[i]) * 100) * p[i]
    <3>3. x \in Int
      BY <2>4
    <3>4. ~(x > x)
      <4> HIDE DEF x
      <4> QED
        BY <3>3
    <3> QED
      BY <2>2, <3>2, <3>4 DEF Equal, Above, Ratio, Rise
  <2> QED
    BY <2>7, <2>8
<1> QED
  BY <1>2, <1>3 DEF MovesOK

----------------------------------------------------------------------------
(* The exponential averages.                                               *)

Ratios == [num : Nat, den : Positive]

\* The average that follows one, when a price comes.
Following(n, last, price) ==
  Ratio(2 * price * last.den + (n - 1) * last.num, (n + 1) * last.den)

Averages == Seq(Ratios) \ {<<>>}

LEMMA FollowingType ==
  ASSUME NEW n \in Positive, NEW last \in Ratios, NEW price \in Positive
  PROVE  Following(n, last, price) \in Ratios
<1>1. ASSUME NEW k \in Nat, NEW num \in Nat, NEW den \in Nat, NEW m \in Nat
      PROVE  2 * price * den + k * num \in Nat /\ m * den \in Nat
  BY DEF Positive
<1>2. ASSUME NEW m \in Positive, NEW den \in Positive PROVE m * den \in Positive
  BY DEF Positive
<1>3. /\ last.num \in Nat /\ last.den \in Positive /\ last.den \in Nat
      /\ n - 1 \in Nat /\ n + 1 \in Positive
  BY DEF Ratios, Positive
<1>4. /\ 2 * price * last.den + (n - 1) * last.num \in Nat
      /\ (n + 1) * last.den \in Positive
  BY <1>1, <1>2, <1>3 DEF Positive
<1> QED
  BY <1>4 DEF Following, Ratio, Ratios

LEMMA AveragesType ==
  ASSUME NEW averages \in Averages, NEW r \in Ratios
  PROVE  /\ Last(averages) \in Ratios
         /\ Append(averages, r) \in Averages
         /\ Len(averages) \in Nat \ {0}
         /\ Last(averages) = averages[Len(averages)]
BY DEF Averages, Last

\* The averages after each price.
EmaRow(row, p, n) ==
  /\ row \in [0..(Len(p) - n) -> Averages]
  /\ row[0] = <<Mean(SubSeq(p, 1, n))>>
  /\ \A i \in 1..(Len(p) - n) :
       row[i] = Append(row[i - 1], Following(n, Last(row[i - 1]), p[n + i]))
  /\ row[Len(p) - n] = calculate_ema(p, n)

LEMMA EmaSteps ==
  ASSUME NEW p \in Seq(Positive), NEW n \in 1..Len(p)
  PROVE  \E row : EmaRow(row, p, n)
<1> DEFINE m == Len(p) - n
           rest == SubSeq(p, n + 1, Len(p))
           V == Averages
           base == <<Mean(SubSeq(p, 1, n))>>
           Longer(v, price) == Append(v, Following(n, Last(v), price))
           step == [i \in 1..m |-> [v \in V |-> Longer(v, rest[i])]]
           Value(f, set) == IF set = {} THEN base
                            ELSE Longer(f[set \ {Max(set)}], rest[Max(set)])
           Solves(f) == f = [set \in SUBSET (1..m) |-> Value(f, set)]
<1>1. /\ m \in Nat /\ n \in Nat /\ n \in Positive
      /\ Len(p) \in Nat /\ Len(p) = n + m
  BY DEF Positive
<1>2. /\ Len(rest) = m /\ DOMAIN rest = 1..m
      /\ \A i \in 1..m : rest[i] = p[n + i] /\ rest[i] \in Positive
  <2>1. \A i \in (n + 1)..Len(p) : p[i] \in Positive
    BY <1>1 DEF Positive
  <2>2. n + 1 \in Int /\ Len(p) \in Int
    BY <1>1 DEF Positive
  <2>3. /\ rest \in Seq(Positive)
        /\ Len(rest) = IF n + 1 <= Len(p) THEN Len(p) - (n + 1) + 1 ELSE 0
        /\ \A i \in 1..(Len(p) - (n + 1) + 1) : rest[i] = p[(n + 1) + i - 1]
    BY <2>1, <2>2, SubSeqProperties
  <2>4. Len(p) - (n + 1) + 1 = m /\ \A i \in 1..m : (n + 1) + i - 1 = n + i
    BY <1>1 DEF Positive
  <2>5. Len(rest) = m
    <3> HIDE DEF rest, m
    <3>1. n + 1 <= Len(p) \/ (m = 0 /\ ~ (n + 1 <= Len(p)))
      BY <1>1
    <3> QED
      BY <2>3, <2>4, <3>1
  <2> HIDE DEF rest, m
  <2> QED
    BY <1>1, <2>3, <2>4, <2>5
<1>3. base \in V
  <2>1. SubSeq(p, 1, n) \in Seq(Positive) /\ Len(SubSeq(p, 1, n)) = n
    BY <1>1 DEF Positive
  <2>2. Mean(SubSeq(p, 1, n)) \in Ratios
    <3> DEFINE w == SubSeq(p, 1, n)
    <3> HIDE DEF w
    <3>1. w \in Seq(Nat) /\ w \in Seq(Int) /\ Len(w) = n /\ n \in Nat /\ n \in Positive
      BY <1>1, <2>1 DEF w, Positive
    <3>2. Sum(w) \in Nat
      BY <3>1, SumNatural
    <3> QED
      BY <3>1, <3>2 DEF w, Mean, Ratio, Ratios
  <2> QED
    BY <2>2 DEF Averages
<1> HIDE DEF rest, m
<1>4. ASSUME NEW v \in V, NEW price \in Positive PROVE Longer(v, price) \in V
  <2>1. Last(v) \in Ratios
    BY AveragesType DEF Averages
  <2> QED
    BY <1>1, <2>1, FollowingType, AveragesType
<1> HIDE DEF V, base, Longer
<1>5. step \in [1..m -> [V -> V]]
  BY <1>2, <1>4
<1>6. ASSUME NEW i \in 1..m, NEW v \in V PROVE step[i][v] = Longer(v, rest[i])
  OBVIOUS
<1> HIDE DEF step
<1>7. \E f : Solves(f)
  <2>1. PICK f : LeftFold(f, m, V, base, step)
    BY <1>1, <1>3, <1>5, LeftFoldExists
  <2>2. ASSUME NEW set \in (SUBSET (1..m)) \ {{}} PROVE f[set] = Value(f, set)
    <3>1. Max(set) \in 1..m /\ f[set \ {Max(set)}] \in V
      BY <2>1 DEF LeftFold
    <3> QED
      BY <1>6, <2>1, <3>1 DEF LeftFold
  <2>3. f[{}] = base /\ f = [set \in SUBSET (1..m) |-> f[set]]
    BY <2>1 DEF LeftFold
  <2>4. \A set \in SUBSET (1..m) : f[set] = Value(f, set)
    BY <2>2, <2>3
  <2> HIDE DEF Value
  <2>5. Solves(f)
    BY <2>3, <2>4
  <2> QED
    BY <2>5
<1> DEFINE fold == CHOOSE f : Solves(f)
<1>8. Solves(fold)
  BY <1>7
<1>9. calculate_ema(p, n) = fold[1..m]
  BY <1>1, <1>2 DEF calculate_ema, FoldLeft, MapThenFoldSet, Longer, Following,
                    base, rest, Positive
<1> HIDE DEF fold
<1>10. LeftFoldWithin(fold, m, V, base, step)
  <2>1. \A set \in (SUBSET (1..m)) \ {{}} : Max(set) \in 1..m
    BY <1>1, GreatestElement
  <2> QED
    BY <1>6, <1>8, <2>1 DEF LeftFoldWithin
<1>11. PICK row : Row(row, m, V, base, step, fold[1..m])
  BY <1>1, <1>3, <1>5, <1>10, LeftFoldSteps
<1>12. ASSUME NEW i \in 1..m
       PROVE  row[i] = Append(row[i - 1], Following(n, Last(row[i - 1]), p[n + i]))
  <2>1. i - 1 \in 0..m /\ row[i - 1] \in V
    BY <1>1, <1>11 DEF Row
  <2> QED
    BY <1>2, <1>6, <1>11, <2>1 DEF Row, Longer
<1> QED
  BY <1>9, <1>11, <1>12 DEF EmaRow, Row, m, V, base

\* Between the bounds of the prices so far.
Within(r, low, high) == low * r.den <= r.num /\ r.num <= high * r.den

LEMMA FollowingWithin ==
  ASSUME NEW n \in Positive, NEW last \in Ratios, NEW price \in Positive,
         NEW low \in Nat, NEW high \in Nat, Within(last, low, high),
         low <= price, price <= high
  PROVE  Within(Following(n, last, price), low, high)
<1> DEFINE num == last.num
           den == last.den
<1>1. num \in Nat /\ den \in Nat /\ n \in Nat /\ n - 1 \in Nat
  BY DEF Ratios, Positive
<1>2. low * den <= num /\ num <= high * den
  BY DEF Within
<1>3. ASSUME NEW k \in Nat, NEW x \in Int, NEW y \in Int, x <= y
      PROVE  k * x <= k * y
  BY <1>3
<1> HIDE DEF num, den
<1>4. /\ (n - 1) * (low * den) <= (n - 1) * num
      /\ (n - 1) * num <= (n - 1) * (high * den)
  BY <1>1, <1>2, <1>3
<1>5. den * low <= den * price /\ den * price <= den * high
  BY <1>1, <1>3 DEF Positive
<1>6. /\ low * ((n + 1) * den) = 2 * (den * low) + (n - 1) * (low * den)
      /\ high * ((n + 1) * den) = 2 * (den * high) + (n - 1) * (high * den)
      /\ 2 * price * den = 2 * (den * price)
  BY <1>1 DEF Positive
<1>7. /\ low * ((n + 1) * den) <= 2 * price * den + (n - 1) * num
      /\ 2 * price * den + (n - 1) * num <= high * ((n + 1) * den)
  BY <1>1, <1>4, <1>5, <1>6 DEF Positive
<1> QED
  BY <1>7 DEF Within, Following, Ratio, num, den

\* Every bound of the prices so far is one of their averages.
LEMMA EmaWithin ==
  ASSUME NEW p \in Seq(Positive), NEW n \in 1..Len(p)
  PROVE  /\ Len(calculate_ema(p, n)) = Len(p) - n + 1
         /\ \A k \in 1..(Len(p) - n + 1) :
              /\ calculate_ema(p, n)[k] \in Ratios
              /\ \A low, high \in Nat :
                   (\A j \in 1..(k + n - 1) : low <= p[j] /\ p[j] <= high) =>
                     Within(calculate_ema(p, n)[k], low, high)
<1> DEFINE m == Len(p) - n
           Bounds(k, low, high) ==
             \A j \in 1..(k + n - 1) : low <= p[j] /\ p[j] <= high
           Bounded(a, k) ==
             \A low, high \in Nat :
               Bounds(k, low, high) => Within(a[k], low, high)
<1>1. m \in Nat /\ n \in Positive /\ n \in Nat /\ Len(p) \in Nat /\ Len(p) = n + m
  BY DEF Positive
<1>2. PICK row : EmaRow(row, p, n)
  BY EmaSteps
<1>3. /\ row \in [0..m -> Averages]
      /\ row[0] = <<Mean(SubSeq(p, 1, n))>>
      /\ \A i \in 1..m :
           row[i] = Append(row[i - 1], Following(n, Last(row[i - 1]), p[n + i]))
      /\ row[m] = calculate_ema(p, n)
  BY <1>2 DEF EmaRow
<1> HIDE DEF m
<1> DEFINE S == {i \in 0..m : /\ Len(row[i]) = i + 1
                              /\ \A k \in 1..(i + 1) : Bounded(row[i], k)}
<1>4. 0 \in S
  <2> DEFINE w == SubSeq(p, 1, n)
  <2>1. /\ w \in Seq(Int) /\ Len(w) = n
        /\ \A j \in 1..n : w[j] = p[j]
    BY <1>1 DEF Positive
  <2> HIDE DEF w
  <2>2. Len(row[0]) = 1 /\ row[0][1] = Mean(w)
    BY <1>3 DEF w
  <2>3. ASSUME NEW low \in Nat, NEW high \in Nat, Bounds(1, low, high)
        PROVE  Within(row[0][1], low, high)
    <3>1. \A j \in 1..Len(w) : low <= w[j] /\ w[j] <= high
      BY <1>1, <2>1, <2>3
    <3>2. low \in Int /\ high \in Int
      OBVIOUS
    <3> HIDE DEF Bounds, Bounded, S
    <3>3. low * Len(w) <= Sum(w) /\ Sum(w) <= high * Len(w)
      BY <2>1, <3>1, <3>2, SumBetween
    <3> QED
      BY <2>2, <3>3 DEF Mean, Ratio, Within
  <2> HIDE DEF Bounds
  <2>4. \A k \in 1..(0 + 1) : Bounded(row[0], k)
    BY <2>3
  <2> HIDE DEF Bounded
  <2> QED
    BY <1>1, <2>2, <2>4
<1>5. ASSUME NEW i \in 1..m, i - 1 \in S PROVE i \in S
  <2> DEFINE old == row[i - 1]
             next == Following(n, Last(old), p[n + i])
  <2>1. /\ old \in Averages /\ Len(old) = i /\ p[n + i] \in Positive
        /\ \A k \in 1..i : Bounded(old, k)
    <3>1. i - 1 \in 0..m /\ (i - 1) + 1 = i /\ n + i \in 1..Len(p)
      BY <1>1
    <3>2. p[n + i] \in Positive
      BY <3>1
    <3> HIDE DEF Bounded
    <3>3. old \in Averages
      BY <1>3, <3>1
    <3>4. Len(old) = i /\ \A k \in 1..i : Bounded(old, k)
      BY <1>5, <3>1
    <3> QED
      BY <3>2, <3>3, <3>4
  <2>2. row[i] = Append(old, next)
    BY <1>3
  <2> HIDE DEF old
  <2>3. Last(old) \in Ratios /\ Last(old) = old[i]
    <3>1. 1 \in Nat /\ [num |-> 1, den |-> 1] \in Ratios
      BY DEF Ratios, Positive
    <3> QED
      BY <2>1, <3>1, AveragesType
  <2>4. next \in Ratios
    BY <1>1, <2>1, <2>3, FollowingType
  <2>5. /\ Len(row[i]) = i + 1 /\ row[i][i + 1] = next
        /\ \A k \in 1..i : row[i][k] = old[k]
    <3> HIDE DEF next
    <3> QED
      BY <2>1, <2>2, <2>4 DEF Averages
  <2>6. Bounded(row[i], i + 1)
    <3>1. SUFFICES ASSUME NEW low \in Nat, NEW high \in Nat,
                          Bounds(i + 1, low, high)
                   PROVE  Within(next, low, high)
      BY <2>5
    <3>2. Bounds(i, low, high) /\ low <= p[n + i] /\ p[n + i] <= high
      BY <1>1, <3>1
    <3>3. Within(Last(old), low, high)
      <4> HIDE DEF Bounds
      <4>1. i \in 1..i /\ Bounded(old, i)
        BY <2>1
      <4> QED
        BY <2>3, <3>2, <4>1
    <3> QED
      BY <1>1, <2>1, <2>3, <3>2, <3>3, FollowingWithin
  <2>7. \A k \in 1..i : Bounded(row[i], k)
    <3> HIDE DEF Bounds, next
    <3> QED
      BY <2>1, <2>5
  <2>8. \A k \in 1..(i + 1) : k = i + 1 \/ k \in 1..i
    OBVIOUS
  <2> HIDE DEF Bounded
  <2> QED
    BY <2>5, <2>6, <2>7, <2>8
<1> HIDE DEF S
<1>6. 0..m \subseteq S
  BY <1>1, <1>4, <1>5, StepByStep
<1>7. m \in S /\ m \in 0..m
  BY <1>1, <1>6
<1> DEFINE ema == calculate_ema(p, n)
<1>8. ema \in Averages /\ Len(ema) = m + 1
  BY <1>3, <1>7 DEF S
<1>9. \A k \in 1..(m + 1) : Bounded(ema, k)
  BY <1>3, <1>7 DEF S
<1>10. \A k \in 1..(m + 1) : ema[k] \in Ratios
  <2> HIDE DEF ema
  <2> QED
    BY <1>8 DEF Averages
<1> QED
  BY <1>8, <1>9, <1>10 DEF m

\* The first average is a simple one, and each follows the one before.
LEMMA EmaFollows ==
  ASSUME NEW p \in Seq(Positive), NEW n \in 1..Len(p)
  PROVE  /\ calculate_ema(p, n)[1] = Mean(SubSeq(p, 1, n))
         /\ \A k \in 2..(Len(p) - n + 1) :
              calculate_ema(p, n)[k]
                = Following(n, calculate_ema(p, n)[k - 1], p[k + n - 1])
<1> DEFINE m == Len(p) - n
           Next(a, k) == a[k] = Following(n, a[k - 1], p[k + n - 1])
<1>1. m \in Nat /\ n \in Positive /\ n \in Nat /\ Len(p) = n + m
  BY DEF Positive
<1>2. PICK row : EmaRow(row, p, n)
  BY EmaSteps
<1>3. /\ row \in [0..m -> Averages]
      /\ row[0] = <<Mean(SubSeq(p, 1, n))>>
      /\ \A i \in 1..m :
           row[i] = Append(row[i - 1], Following(n, Last(row[i - 1]), p[n + i]))
      /\ row[m] = calculate_ema(p, n)
  BY <1>2 DEF EmaRow
<1> HIDE DEF m
<1> DEFINE S == {i \in 0..m : /\ Len(row[i]) = i + 1
                              /\ row[i][1] = Mean(SubSeq(p, 1, n))
                              /\ \A k \in 2..(i + 1) : Next(row[i], k)}
<1>4. 0 \in S
  <2>1. Len(row[0]) = 1 /\ row[0][1] = Mean(SubSeq(p, 1, n))
    BY <1>3
  <2>2. 2..(0 + 1) = {}
    OBVIOUS
  <2> HIDE DEF Next
  <2> QED
    BY <1>1, <2>1, <2>2
<1>5. ASSUME NEW i \in 1..m, i - 1 \in S PROVE i \in S
  <2> DEFINE old == row[i - 1]
             next == Following(n, Last(old), p[n + i])
  <2>1. /\ old \in Averages /\ Len(old) = i
        /\ old[1] = Mean(SubSeq(p, 1, n))
        /\ \A k \in 2..i : Next(old, k)
        /\ n + i = (i + 1) + n - 1 /\ p[n + i] \in Positive
    <3>1. /\ i - 1 \in 0..m /\ (i - 1) + 1 = i
          /\ n + i = (i + 1) + n - 1 /\ n + i \in 1..Len(p)
      BY <1>1
    <3> HIDE DEF Next
    <3> QED
      BY <1>3, <1>5, <3>1
  <2>2. row[i] = Append(old, next)
    BY <1>3
  <2> HIDE DEF old
  <2>3. Last(old) \in Ratios /\ Last(old) = old[i]
    <3>1. [num |-> 1, den |-> 1] \in Ratios
      BY DEF Ratios, Positive
    <3> QED
      BY <2>1, <3>1, AveragesType
  <2>4. next \in Ratios
    BY <1>1, <2>1, <2>3, FollowingType
  <2>5. /\ Len(row[i]) = i + 1 /\ row[i][i + 1] = next
        /\ \A k \in 1..i : row[i][k] = old[k]
    <3> HIDE DEF next
    <3> QED
      BY <2>1, <2>2, <2>4 DEF Averages
  <2>6. row[i][1] = Mean(SubSeq(p, 1, n))
    BY <2>1, <2>5
  <2>7. ASSUME NEW k \in 2..(i + 1) PROVE Next(row[i], k)
    <3>1. CASE k = i + 1
      <4>1. row[i][(i + 1) - 1] = old[i] /\ (i + 1) - 1 = i
        BY <2>5
      <4> QED
        BY <2>1, <2>3, <2>5, <3>1, <4>1
    <3>2. CASE k # i + 1
      <4>1. k \in 2..i /\ k \in 1..i /\ k - 1 \in 1..i
        BY <3>2
      <4>2. row[i][k] = old[k] /\ row[i][k - 1] = old[k - 1] /\ Next(old, k)
        <5> HIDE DEF Next
        <5> QED
          BY <2>1, <2>5, <4>1
      <4> QED
        BY <4>2
    <3> QED
      BY <3>1, <3>2
  <2> HIDE DEF Next
  <2> QED
    BY <2>5, <2>6, <2>7
<1> HIDE DEF S
<1>6. 0..m \subseteq S
  BY <1>1, <1>4, <1>5, StepByStep
<1>7. m \in S /\ m \in 0..m
  BY <1>1, <1>6
<1>8. /\ row[m][1] = Mean(SubSeq(p, 1, n))
      /\ \A k \in 2..(m + 1) : Next(row[m], k)
  <2> HIDE DEF Next
  <2> QED
    BY <1>7 DEF S
<1> QED
  BY <1>3, <1>8 DEF m

\* The exponential averages are what the definition says, within the prices so
\* far, and there is one for each simple one.
LEMMA AveragesAgree ==
  ASSUME NEW p \in Seq(Positive), NEW n \in 1..Len(p)
  PROVE  AveragesOK(p, n)
<1> DEFINE ema == calculate_ema(p, n)
<1>1. Len(p) \in Nat /\ n \in Nat \ {0} /\ Count(p, n) = Len(p) - n + 1
  BY DEF Count
<1>2. Len(ema) = Len(calculate_sma(p, n))
  BY <1>1, EmaWithin, SmaType
<1>3. DOMAIN ema = 1..(Len(p) - n + 1)
  BY EmaWithin
<1>4. ASSUME NEW i \in 1..(Len(p) - n + 1)
      PROVE  LET seen == {p[j] : j \in 1..(i + n - 1)}
             IN  /\ ~Above(Ratio(Min(seen), 1), ema[i])
                 /\ ~Above(ema[i], Ratio(Max(seen), 1))
  <2> DEFINE k == i + n - 1
             w == SubSeq(p, 1, 1 + k - 1)
             seen == {p[j] : j \in 1..k}
  <2>1. k \in Nat \ {0} /\ 1 \in 1..Count(p, k) /\ 1 + k - 1 = k
    BY <1>1 DEF Count
  <2> HIDE DEF k
  <2>2. /\ w \in Seq(Positive) /\ Len(w) = k
        /\ \A j \in 1..k : w[j] = p[1 + j - 1]
        /\ Elements(w) = {p[j] : j \in 1..(1 + k - 1)}
    BY <2>1, WindowAt
  <2>3. Elements(w) = seen /\ Len(w) > 0 /\ \A j \in 1..k : w[j] = p[j]
    BY <2>1, <2>2
  <2> HIDE DEF w, seen
  <2>4. /\ Min(seen) \in Nat /\ Max(seen) \in Nat
        /\ \A j \in 1..k : Min(seen) <= p[j] /\ p[j] <= Max(seen)
    BY <2>2, <2>3, SmallestIsMin, LargestIsMax DEF Positive
  <2>5. ema[i] \in Ratios /\ Within(ema[i], Min(seen), Max(seen))
    BY <2>4, EmaWithin DEF k
  <2>6. ~Above(Ratio(Min(seen), 1), ema[i]) /\ ~Above(ema[i], Ratio(Max(seen), 1))
    <3> HIDE DEF ema
    <3>1. ema[i].num \in Int /\ ema[i].den \in Int
      BY <2>5 DEF Ratios, Positive
    <3> QED
      BY <2>4, <2>5, <3>1 DEF Above, Ratio, Within
  <2> QED
    BY <2>6 DEF seen, k
<1>5. /\ 1 \in 1..(Len(p) - n + 1)
      /\ \A i \in 1..(Len(p) - n + 1) : ema[i] \in Ratios
  BY <1>1, EmaWithin
<1>6. ASSUME NEW r \in Ratios PROVE Equal(r, r)
  <2>1. r.num \in Int /\ r.den \in Int
    BY DEF Ratios, Positive
  <2>2. r.num * r.den \in Int /\ \A x \in Int : ~(x > x)
    BY <2>1
  <2> QED
    BY <2>2 DEF Equal, Above
<1>7. Equal(ema[1], Ratio(Sum(SubSeq(p, 1, n)), n))
  <2>1. ema[1] = Mean(SubSeq(p, 1, n)) /\ Equal(ema[1], ema[1])
    BY <1>5, <1>6, EmaFollows
  <2>2. Len(SubSeq(p, 1, n)) = n
    BY <1>1
  <2> QED
    BY <2>1, <2>2 DEF Mean
<1>8. ASSUME NEW i \in 2..(Len(p) - n + 1)
      PROVE  Equal(ema[i], Following(n, ema[i - 1], p[i + n - 1]))
  <2>1. i \in 1..(Len(p) - n + 1)
    OBVIOUS
  <2>2. ema[i] = Following(n, ema[i - 1], p[i + n - 1]) /\ Equal(ema[i], ema[i])
    BY <1>5, <1>6, <2>1, EmaFollows
  <2> QED
    BY <2>2
<1>9. Len(ema) = Len(p) - n + 1
  BY EmaWithin
<1> HIDE DEF ema
<1> QED
  BY <1>2, <1>3, <1>4, <1>7, <1>8, <1>9 DEF AveragesOK, ema, Following

----------------------------------------------------------------------------
(* The extremes: the order of ratios, and the best of all pairs.           *)

Fractions == [num : Int, den : Positive]

LEMMA AboveIsOrder ==
  ASSUME NEW a \in Fractions, NEW b \in Fractions
  PROVE  ~Above(a, a) /\ (Above(a, b) => ~Above(b, a))
<1>1. /\ a.num \in Int /\ a.den \in Int /\ b.num \in Int /\ b.den \in Int
  BY DEF Fractions, Positive
<1>2. a.num * b.den \in Int /\ b.num * a.den \in Int /\ a.num * a.den \in Int
  BY <1>1
<1> QED
  BY <1>2 DEF Above

LEMMA NotAboveTransitive ==
  ASSUME NEW a \in Fractions, NEW b \in Fractions, NEW c \in Fractions,
         ~Above(a, b), ~Above(b, c)
  PROVE  ~Above(a, c)
<1> DEFINE an == a.num
           ad == a.den
           bn == b.num
           bd == b.den
           cn == c.num
           cd == c.den
<1>1. /\ an \in Int /\ bn \in Int /\ cn \in Int
      /\ ad \in Nat \ {0} /\ bd \in Nat \ {0} /\ cd \in Nat \ {0}
  BY DEF Fractions, Positive
<1>2. bn * ad - an * bd >= 0 /\ cn * bd - bn * cd >= 0
  <2>1. /\ an * bd \in Int /\ bn * ad \in Int
        /\ bn * cd \in Int /\ cn * bd \in Int
    BY <1>1
  <2> QED
    BY <2>1 DEF Above
<1> HIDE DEF an, ad, bn, bd, cn, cd
<1>3. cd * (bn * ad - an * bd) >= 0 /\ ad * (cn * bd - bn * cd) >= 0
  <2>1. bn * ad - an * bd \in Int /\ cn * bd - bn * cd \in Int
    BY <1>1
  <2> QED
    BY <1>1, <1>2, <2>1, SignOfProduct
<1>4. bd * (cn * ad - an * cd)
        = cd * (bn * ad - an * bd) + ad * (cn * bd - bn * cd)
  BY <1>1
<1>5. bd * (cn * ad - an * cd) >= 0
  <2>1. /\ cd * (bn * ad - an * bd) \in Int
        /\ ad * (cn * bd - bn * cd) \in Int
    BY <1>1
  <2> QED
    BY <1>3, <1>4, <2>1
<1>6. cn * ad - an * cd >= 0
  <2>1. cn * ad - an * cd \in Int
    BY <1>1
  <2> QED
    BY <1>1, <1>5, <2>1, SignOfProduct
<1>7. ~(an * cd > cn * ad)
  <2>1. an * cd \in Int /\ cn * ad \in Int
    BY <1>1
  <2> QED
    BY <1>6, <2>1
<1> QED
  BY <1>7 DEF Above, an, ad, cn, cd

\* The best so far, over pairs of positions of which the second one moves on, is
\* the best of all, when each time the best pair with that second position is
\* looked at.
LEMMA BestOfPairs ==
  ASSUME NEW n \in Nat \ {0},
         NEW g \in [(1..n) \X (1..n) -> Fractions],
         NEW best \in [0..n -> Fractions],
         Equal(g[<<1, 1>>], best[0]),
         \A i \in 1..n : \E k \in 1..i :
           /\ \A a \in 1..i : ~Above(g[<<a, i>>], g[<<k, i>>])
           /\ best[i] = IF Above(g[<<k, i>>], best[i - 1])
                          THEN g[<<k, i>>] ELSE best[i - 1]
  PROVE  /\ \A b \in 1..n : \A a \in 1..b : ~Above(g[<<a, b>>], best[n])
         /\ \E b \in 1..n : \E a \in 1..b : Equal(g[<<a, b>>], best[n])
<1> DEFINE Great(i) == \A b \in 1..i : \A a \in 1..b : ~Above(g[<<a, b>>], best[i])
           Met(i) == \E b \in 1..n : \E a \in 1..b : Equal(g[<<a, b>>], best[i])
           S == {i \in 0..n : Great(i) /\ Met(i)}
<1>1. ASSUME NEW b \in 1..n, NEW a \in 1..b PROVE g[<<a, b>>] \in Fractions
  OBVIOUS
<1>2. 0 \in S
  <2>1. 1 \in 1..n /\ 1 \in 1..1 /\ 0 \in 0..n
    OBVIOUS
  <2>2. Met(0)
    BY <2>1, Zenon
  <2>3. Great(0)
    OBVIOUS
  <2> HIDE DEF Met, Great
  <2> QED
    BY <2>1, <2>2, <2>3
<1>3. ASSUME NEW i \in 1..n, i - 1 \in S PROVE i \in S
  <2>1. PICK k \in 1..i :
          /\ \A a \in 1..i : ~Above(g[<<a, i>>], g[<<k, i>>])
          /\ best[i] = IF Above(g[<<k, i>>], best[i - 1])
                         THEN g[<<k, i>>] ELSE best[i - 1]
    OBVIOUS
  <2> DEFINE new == g[<<k, i>>]
             old == best[i - 1]
             now == best[i]
  <2>2. /\ new \in Fractions /\ old \in Fractions /\ now \in Fractions
        /\ i - 1 \in 0..n /\ i \in 0..n
    <3>1. i - 1 \in 0..n /\ i \in 0..n
      OBVIOUS
    <3> QED
      BY <1>1, <3>1
  <2>3. now = IF Above(new, old) THEN new ELSE old
    BY <2>1
  <2>4. ~Above(new, now) /\ ~Above(old, now)
    <3> HIDE DEF new, old, now
    <3>1. ~Above(new, new) /\ ~Above(old, old) /\ (Above(new, old) => ~Above(old, new))
      BY <2>2, AboveIsOrder
    <3> QED
      BY <2>3, <3>1
  <2>5. ASSUME NEW b \in 1..i, NEW a \in 1..b PROVE ~Above(g[<<a, b>>], now)
    <3>1. g[<<a, b>>] \in Fractions /\ a \in 1..i /\ (b = i \/ b \in 1..(i - 1))
      BY <1>1
    <3>2. CASE b = i
      <4>1. ~Above(g[<<a, b>>], new)
        BY <2>1, <3>1, <3>2
      <4> HIDE DEF new, now
      <4> QED
        BY <2>2, <2>4, <3>1, <4>1, NotAboveTransitive
    <3>3. CASE b \in 1..(i - 1)
      <4>1. ~Above(g[<<a, b>>], old)
        BY <1>3, <3>3
      <4> HIDE DEF old, now
      <4> QED
        BY <2>2, <2>4, <3>1, <4>1, NotAboveTransitive
    <3> QED
      BY <3>1, <3>2, <3>3
  <2>6. Met(i)
    <3>1. CASE now = new
      <4>1. Equal(g[<<k, i>>], best[i])
        BY <2>2, <3>1, AboveIsOrder DEF Equal
      <4> QED
        BY <4>1
    <3>2. CASE now = old
      <4>1. Met(i - 1)
        BY <1>3
      <4> QED
        BY <3>2, <4>1
    <3> QED
      BY <2>3, <3>1, <3>2
  <2>7. Great(i)
    BY <2>5
  <2> HIDE DEF Great, Met
  <2> QED
    BY <2>2, <2>6, <2>7
<1> HIDE DEF S
<1>4. n \in S
  <2>1. 0..n \subseteq S
    BY <1>2, <1>3, StepByStep
  <2> QED
    BY <2>1
<1> QED
  BY <1>4 DEF S

\* From one price to another, in percent.
RiseTo(x, z) == Ratio((z - x) * 100, x)
FallTo(x, z) == Ratio((x - z) * 100, x)

\* The greatest fall to a price is the one from the highest price before it, the
\* greatest rise the one from the lowest.
LEMMA FromTheHighest ==
  ASSUME NEW x \in Positive, NEW y \in Positive, NEW z \in Positive, x <= y
  PROVE  ~Above(FallTo(x, z), FallTo(y, z))
<1>1. x \in Int /\ y \in Int /\ z \in Nat /\ y - x \in Nat
  BY DEF Positive
<1>2. z * (y - x) \in Nat
  BY <1>1
<1>3. ((y - z) * 100) * x - ((x - z) * 100) * y = 100 * (z * (y - x))
  BY <1>1
<1>4. ((y - z) * 100) * x \in Int /\ ((x - z) * 100) * y \in Int
  BY <1>1
<1>5. ~(((x - z) * 100) * y > ((y - z) * 100) * x)
  BY <1>2, <1>3, <1>4
<1> QED
  BY <1>5 DEF Above, FallTo, Ratio

LEMMA FromTheLowest ==
  ASSUME NEW x \in Positive, NEW y \in Positive, NEW z \in Positive, y <= x
  PROVE  ~Above(RiseTo(x, z), RiseTo(y, z))
<1>1. x \in Int /\ y \in Int /\ z \in Nat /\ x - y \in Nat
  BY DEF Positive
<1>2. z * (x - y) \in Nat
  BY <1>1
<1>3. ((z - y) * 100) * x - ((z - x) * 100) * y = 100 * (z * (x - y))
  BY <1>1
<1>4. ((z - y) * 100) * x \in Int /\ ((z - x) * 100) * y \in Int
  BY <1>1
<1>5. ~(((z - x) * 100) * y > ((z - y) * 100) * x)
  BY <1>2, <1>3, <1>4
<1> QED
  BY <1>5 DEF Above, RiseTo, Ratio

LEMMA MoveType ==
  ASSUME NEW x \in Positive, NEW z \in Positive
  PROVE  RiseTo(x, z) \in Fractions /\ FallTo(x, z) \in Fractions
<1>1. (z - x) * 100 \in Int /\ (x - z) * 100 \in Int
  BY DEF Positive
<1> QED
  BY <1>1 DEF RiseTo, FallTo, Ratio, Fractions

----------------------------------------------------------------------------
(* The deepest fall.                                                       *)

Falling == [peak : Positive, worst : Fractions]

Highest(at, price) == IF price > at.peak THEN price ELSE at.peak

FallStep(at, price) ==
  [peak |-> Highest(at, price),
   worst |-> IF Above(FallTo(Highest(at, price), price), at.worst)
               THEN FallTo(Highest(at, price), price) ELSE at.worst]

FallRow(row, p) ==
  /\ row \in [0..Len(p) -> Falling]
  /\ row[0] = [peak |-> p[1], worst |-> Ratio(0, 1)]
  /\ \A i \in 1..Len(p) : row[i] = FallStep(row[i - 1], p[i])
  /\ row[Len(p)].worst = calculate_max_drawdown(p)[1]

LEMMA FallStepType ==
  ASSUME NEW at \in Falling, NEW price \in Positive
  PROVE  FallStep(at, price) \in Falling
<1>1. Highest(at, price) \in Positive
  BY DEF Highest, Falling
<1>2. FallTo(Highest(at, price), price) \in Fractions
  BY <1>1, MoveType
<1> QED
  BY <1>1, <1>2 DEF FallStep, Falling

LEMMA FallSteps ==
  ASSUME NEW p \in Seq(Positive), Len(p) > 0
  PROVE  \E row : FallRow(row, p)
<1> DEFINE n == Len(p)
           V == Falling
           base == [peak |-> p[1], worst |-> Ratio(0, 1)]
           step == [i \in 1..n |-> [v \in V |-> FallStep(v, p[i])]]
           Value(f, set) == IF set = {} THEN base
                            ELSE FallStep(f[set \ {Max(set)}], p[Max(set)])
           Solves(f) == f = [set \in SUBSET (1..n) |-> Value(f, set)]
<1>1. /\ n \in Nat /\ DOMAIN p = 1..n /\ n > 0
      /\ \A i \in 1..n : p[i] \in Positive
  OBVIOUS
<1> HIDE DEF n
<1>2. base \in V
  BY <1>1 DEF Falling, Fractions, Ratio, Positive
<1> HIDE DEF base
<1>3. step \in [1..n -> [V -> V]]
  BY <1>1, FallStepType
<1>4. ASSUME NEW i \in 1..n, NEW v \in V PROVE step[i][v] = FallStep(v, p[i])
  OBVIOUS
<1> HIDE DEF step, V
<1>5. \E f : Solves(f)
  <2>1. PICK f : LeftFold(f, n, V, base, step)
    BY <1>1, <1>2, <1>3, LeftFoldExists
  <2>2. ASSUME NEW set \in (SUBSET (1..n)) \ {{}} PROVE f[set] = Value(f, set)
    <3>1. Max(set) \in 1..n /\ f[set \ {Max(set)}] \in V
      BY <2>1 DEF LeftFold
    <3> QED
      BY <1>4, <2>1, <3>1 DEF LeftFold
  <2>3. f[{}] = base /\ f = [set \in SUBSET (1..n) |-> f[set]]
    BY <2>1 DEF LeftFold
  <2>4. \A set \in SUBSET (1..n) : f[set] = Value(f, set)
    BY <2>2, <2>3
  <2> HIDE DEF Value
  <2>5. Solves(f)
    BY <2>3, <2>4
  <2> QED
    BY <2>5
<1> DEFINE fold == CHOOSE f : Solves(f)
<1>6. Solves(fold)
  BY <1>5
<1>7. calculate_max_drawdown(p)[1] = fold[1..n].worst
  BY <1>1 DEF calculate_max_drawdown, FoldLeft, MapThenFoldSet, FallStep,
              Highest, FallTo, base
<1> HIDE DEF fold
<1>8. LeftFoldWithin(fold, n, V, base, step)
  <2>1. \A set \in (SUBSET (1..n)) \ {{}} : Max(set) \in 1..n
    BY <1>1, GreatestElement
  <2> QED
    BY <1>4, <1>6, <2>1 DEF LeftFoldWithin
<1>9. PICK row : Row(row, n, V, base, step, fold[1..n])
  BY <1>1, <1>2, <1>3, <1>8, LeftFoldSteps
<1>10. ASSUME NEW i \in 1..n PROVE row[i] = FallStep(row[i - 1], p[i])
  <2>1. i - 1 \in 0..n /\ row[i - 1] \in V
    BY <1>1, <1>9 DEF Row
  <2> QED
    BY <1>4, <1>9, <2>1 DEF Row
<1> QED
  BY <1>7, <1>9, <1>10 DEF FallRow, Row, n, V, base

\* The peak is the highest price so far.
LEMMA PeakIsHighest ==
  ASSUME NEW p \in Seq(Positive), Len(p) > 0, NEW row, FallRow(row, p),
         NEW i \in 1..Len(p)
  PROVE  \E k \in 1..i : row[i].peak = p[k] /\ \A a \in 1..i : p[a] <= p[k]
<1> DEFINE n == Len(p)
           Peak(j, k) == row[j].peak = p[k] /\ \A a \in 1..j : p[a] <= p[k]
           S == {j \in 0..n : \E k \in 1..n : (k <= j \/ j = 0) /\ Peak(j, k)}
<1>1. /\ n \in Nat /\ n > 0 /\ \A j \in 1..n : p[j] \in Positive /\ p[j] \in Nat
  BY DEF Positive
<1>2. /\ row[0].peak = p[1]
      /\ \A j \in 1..n : row[j].peak = Highest(row[j - 1], p[j])
  <2>1. /\ row[0] = [peak |-> p[1], worst |-> Ratio(0, 1)]
        /\ \A j \in 1..n : row[j] = FallStep(row[j - 1], p[j])
    BY DEF FallRow
  <2>2. ASSUME NEW at, NEW price PROVE FallStep(at, price).peak = Highest(at, price)
    BY DEF FallStep
  <2>3. ASSUME NEW j \in 1..n PROVE row[j].peak = Highest(row[j - 1], p[j])
    <3>1. row[j] = FallStep(row[j - 1], p[j])
      BY <2>1
    <3> QED
      BY <2>2, <3>1
  <2> QED
    BY <2>1, <2>3
<1> HIDE DEF n
<1>3. 0 \in S
  <2>1. 1 \in 1..n /\ Peak(0, 1)
    BY <1>1, <1>2
  <2> HIDE DEF Peak
  <2> QED
    BY <1>1, <2>1
<1>4. ASSUME NEW j \in 1..n, j - 1 \in S PROVE j \in S
  <2>1. PICK k \in 1..n : (k <= j - 1 \/ j - 1 = 0) /\ Peak(j - 1, k)
    BY <1>4
  <2>2. row[j].peak = IF p[j] > p[k] THEN p[j] ELSE p[k]
    BY <1>2, <2>1 DEF Highest
  <2>3. \A a \in 1..j : a = j \/ a \in 1..(j - 1)
    OBVIOUS
  <2>4. p[j] \in Nat /\ p[k] \in Nat
    BY <1>1
  <2>5. CASE p[j] > p[k]
    <3>1. \A a \in 1..j : p[a] <= p[j]
      <4>1. ASSUME NEW a \in 1..(j - 1) PROVE p[a] <= p[j]
        <5>1. p[a] <= p[k] /\ p[a] \in Nat
          BY <1>1, <2>1
        <5> QED
          BY <2>4, <2>5, <5>1
      <4> QED
        BY <2>3, <2>4, <4>1
    <3>2. Peak(j, j)
      BY <2>2, <2>5, <3>1
    <3> HIDE DEF Peak
    <3> QED
      BY <1>1, <3>2
  <2>6. CASE ~(p[j] > p[k])
    <3>1. p[j] <= p[k]
      BY <2>4, <2>6
    <3>2. \A a \in 1..j : p[a] <= p[k]
      BY <2>1, <2>3, <3>1
    <3>3. Peak(j, k)
      BY <2>2, <2>6, <3>2
    <3>4. CASE k <= j - 1
      <4>1. k <= j /\ j \in 0..n
        BY <1>1, <3>4
      <4> HIDE DEF Peak
      <4> QED
        BY <3>3, <4>1
    <3>5. CASE j = 1
      <4>1. j - 1 = 0 /\ row[0].peak = p[1] /\ p[k] = p[1] /\ 1 \in 1..n
        BY <1>2, <2>1, <3>5
      <4>2. Peak(j, 1)
        BY <2>2, <2>6, <3>2, <4>1
      <4> HIDE DEF Peak
      <4> QED
        BY <1>1, <3>5, <4>1, <4>2
    <3> QED
      BY <2>1, <3>4, <3>5
  <2> QED
    BY <2>5, <2>6
<1> HIDE DEF S
<1>5. i \in S
  <2>1. 0..n \subseteq S
    BY <1>1, <1>3, <1>4, StepByStep
  <2> QED
    BY <1>1, <2>1 DEF n
<1>6. PICK k \in 1..n : (k <= i \/ i = 0) /\ Peak(i, k)
  BY <1>5 DEF S
<1>7. k \in 1..i
  BY <1>6 DEF n
<1> QED
  BY <1>6, <1>7

LEMMA DrawdownAgrees ==
  ASSUME NEW p \in Seq(Positive), Len(p) > 0
  PROVE  LET worst == calculate_max_drawdown(p)[1]
         IN  /\ \A j \in 1..Len(p) : \A i \in 1..j : ~Above(FallTo(p[i], p[j]), worst)
             /\ \E j \in 1..Len(p) : \E i \in 1..j : Equal(FallTo(p[i], p[j]), worst)
<1> DEFINE n == Len(p)
           g == [x \in (1..n) \X (1..n) |-> FallTo(p[x[1]], p[x[2]])]
<1>1. n \in Nat \ {0} /\ \A i \in 1..n : p[i] \in Positive
  OBVIOUS
<1>2. PICK row : FallRow(row, p)
  BY FallSteps
<1>3. ASSUME NEW i \in 1..n
      PROVE  \E k \in 1..i : row[i].peak = p[k] /\ \A a \in 1..i : p[a] <= p[k]
  BY <1>2, PeakIsHighest
<1>4. /\ row \in [0..n -> Falling]
      /\ row[0] = [peak |-> p[1], worst |-> Ratio(0, 1)]
      /\ \A i \in 1..n : row[i] = FallStep(row[i - 1], p[i])
      /\ row[n].worst = calculate_max_drawdown(p)[1]
  BY <1>2 DEF FallRow
<1> HIDE DEF n
<1>5. /\ g \in [(1..n) \X (1..n) -> Fractions]
      /\ \A a \in 1..n : \A b \in 1..n : g[<<a, b>>] = FallTo(p[a], p[b])
  BY <1>1, MoveType
<1> HIDE DEF g
<1> DEFINE best == [i \in 0..n |-> row[i].worst]
<1>6. best \in [0..n -> Fractions]
  BY <1>4 DEF Falling
<1>7. \A i \in 0..n : best[i] = row[i].worst
  OBVIOUS
<1> HIDE DEF best
<1>8. Equal(g[<<1, 1>>], best[0])
  <2>1. 1 \in 1..n /\ 0 \in 0..n /\ p[1] \in Positive
    BY <1>1
  <2>2. best[0] = Ratio(0, 1) /\ g[<<1, 1>>] = FallTo(p[1], p[1])
    BY <1>4, <1>5, <1>7, <2>1
  <2>3. (p[1] - p[1]) * 100 = 0
    BY <2>1 DEF Positive
  <2> QED
    BY <2>1, <2>2, <2>3 DEF Equal, Above, FallTo, Ratio, Positive
<1>9. ASSUME NEW i \in 1..n
      PROVE  \E k \in 1..i :
               /\ \A a \in 1..i : ~Above(g[<<a, i>>], g[<<k, i>>])
               /\ best[i] = IF Above(g[<<k, i>>], best[i - 1])
                              THEN g[<<k, i>>] ELSE best[i - 1]
  <2>1. PICK k \in 1..i : row[i].peak = p[k] /\ \A a \in 1..i : p[a] <= p[k]
    BY <1>3
  <2>2. k \in 1..n /\ i - 1 \in 0..n /\ i \in 0..n /\ \A a \in 1..i : a \in 1..n
    BY <1>1
  <2>3. g[<<k, i>>] = FallTo(p[k], p[i]) /\ \A a \in 1..i : g[<<a, i>>] = FallTo(p[a], p[i])
    BY <1>5, <2>2
  <2>4. \A a \in 1..i : ~Above(g[<<a, i>>], g[<<k, i>>])
    BY <1>1, <2>1, <2>2, <2>3, FromTheHighest
  <2>5. /\ row[i].worst = IF Above(FallTo(p[k], p[i]), row[i - 1].worst)
                            THEN FallTo(p[k], p[i]) ELSE row[i - 1].worst
    <3>1. row[i] = FallStep(row[i - 1], p[i])
      BY <1>4
    <3>2. Highest(row[i - 1], p[i]) = p[k]
      BY <2>1, <3>1 DEF FallStep
    <3> QED
      BY <3>1, <3>2 DEF FallStep
  <2> QED
    BY <1>7, <2>2, <2>3, <2>4, <2>5
<1>10. /\ \A b \in 1..n : \A a \in 1..b : ~Above(g[<<a, b>>], best[n])
       /\ \E b \in 1..n : \E a \in 1..b : Equal(g[<<a, b>>], best[n])
  BY <1>1, <1>5, <1>6, <1>8, <1>9, BestOfPairs
<1>11. best[n] = calculate_max_drawdown(p)[1]
  BY <1>1, <1>4, <1>7
<1>12. ASSUME NEW b \in 1..n, NEW a \in 1..b
       PROVE  g[<<a, b>>] = FallTo(p[a], p[b])
  <2>1. a \in 1..n
    BY <1>1
  <2> QED
    BY <1>5, <2>1
<1> QED
  BY <1>10, <1>11, <1>12 DEF n

----------------------------------------------------------------------------
(* The steepest rise.                                                      *)

Rising == [low : Positive, best : Fractions]

Lowest(at, price) == IF price < at.low THEN price ELSE at.low

RiseStep(at, price) ==
  [low |-> Lowest(at, price),
   best |-> IF Above(RiseTo(Lowest(at, price), price), at.best)
               THEN RiseTo(Lowest(at, price), price) ELSE at.best]

RiseRow(row, p) ==
  /\ row \in [0..Len(p) -> Rising]
  /\ row[0] = [low |-> p[1], best |-> Ratio(0, 1)]
  /\ \A i \in 1..Len(p) : row[i] = RiseStep(row[i - 1], p[i])
  /\ row[Len(p)].best = calculate_max_drawup(p)[1]

LEMMA RiseStepType ==
  ASSUME NEW at \in Rising, NEW price \in Positive
  PROVE  RiseStep(at, price) \in Rising
<1>1. Lowest(at, price) \in Positive
  BY DEF Lowest, Rising
<1>2. RiseTo(Lowest(at, price), price) \in Fractions
  BY <1>1, MoveType
<1> QED
  BY <1>1, <1>2 DEF RiseStep, Rising

LEMMA RiseSteps ==
  ASSUME NEW p \in Seq(Positive), Len(p) > 0
  PROVE  \E row : RiseRow(row, p)
<1> DEFINE n == Len(p)
           V == Rising
           base == [low |-> p[1], best |-> Ratio(0, 1)]
           step == [i \in 1..n |-> [v \in V |-> RiseStep(v, p[i])]]
           Value(f, set) == IF set = {} THEN base
                            ELSE RiseStep(f[set \ {Max(set)}], p[Max(set)])
           Solves(f) == f = [set \in SUBSET (1..n) |-> Value(f, set)]
<1>1. /\ n \in Nat /\ DOMAIN p = 1..n /\ n > 0
      /\ \A i \in 1..n : p[i] \in Positive
  OBVIOUS
<1> HIDE DEF n
<1>2. base \in V
  BY <1>1 DEF Rising, Fractions, Ratio, Positive
<1> HIDE DEF base
<1>3. step \in [1..n -> [V -> V]]
  BY <1>1, RiseStepType
<1>4. ASSUME NEW i \in 1..n, NEW v \in V PROVE step[i][v] = RiseStep(v, p[i])
  OBVIOUS
<1> HIDE DEF step, V
<1>5. \E f : Solves(f)
  <2>1. PICK f : LeftFold(f, n, V, base, step)
    BY <1>1, <1>2, <1>3, LeftFoldExists
  <2>2. ASSUME NEW set \in (SUBSET (1..n)) \ {{}} PROVE f[set] = Value(f, set)
    <3>1. Max(set) \in 1..n /\ f[set \ {Max(set)}] \in V
      BY <2>1 DEF LeftFold
    <3> QED
      BY <1>4, <2>1, <3>1 DEF LeftFold
  <2>3. f[{}] = base /\ f = [set \in SUBSET (1..n) |-> f[set]]
    BY <2>1 DEF LeftFold
  <2>4. \A set \in SUBSET (1..n) : f[set] = Value(f, set)
    BY <2>2, <2>3
  <2> HIDE DEF Value
  <2>5. Solves(f)
    BY <2>3, <2>4
  <2> QED
    BY <2>5
<1> DEFINE fold == CHOOSE f : Solves(f)
<1>6. Solves(fold)
  BY <1>5
<1>7. calculate_max_drawup(p)[1] = fold[1..n].best
  BY <1>1 DEF calculate_max_drawup, FoldLeft, MapThenFoldSet, RiseStep,
              Lowest, RiseTo, base
<1> HIDE DEF fold
<1>8. LeftFoldWithin(fold, n, V, base, step)
  <2>1. \A set \in (SUBSET (1..n)) \ {{}} : Max(set) \in 1..n
    BY <1>1, GreatestElement
  <2> QED
    BY <1>4, <1>6, <2>1 DEF LeftFoldWithin
<1>9. PICK row : Row(row, n, V, base, step, fold[1..n])
  BY <1>1, <1>2, <1>3, <1>8, LeftFoldSteps
<1>10. ASSUME NEW i \in 1..n PROVE row[i] = RiseStep(row[i - 1], p[i])
  <2>1. i - 1 \in 0..n /\ row[i - 1] \in V
    BY <1>1, <1>9 DEF Row
  <2> QED
    BY <1>4, <1>9, <2>1 DEF Row
<1> QED
  BY <1>7, <1>9, <1>10 DEF RiseRow, Row, n, V, base

\* The low is the lowest price so far.
LEMMA LowIsLowest ==
  ASSUME NEW p \in Seq(Positive), Len(p) > 0, NEW row, RiseRow(row, p),
         NEW i \in 1..Len(p)
  PROVE  \E k \in 1..i : row[i].low = p[k] /\ \A a \in 1..i : p[k] <= p[a]
<1> DEFINE n == Len(p)
           Low(j, k) == row[j].low = p[k] /\ \A a \in 1..j : p[k] <= p[a]
           S == {j \in 0..n : \E k \in 1..n : (k <= j \/ j = 0) /\ Low(j, k)}
<1>1. /\ n \in Nat /\ n > 0 /\ \A j \in 1..n : p[j] \in Positive /\ p[j] \in Nat
  BY DEF Positive
<1>2. /\ row[0].low = p[1]
      /\ \A j \in 1..n : row[j].low = Lowest(row[j - 1], p[j])
  <2>1. /\ row[0] = [low |-> p[1], best |-> Ratio(0, 1)]
        /\ \A j \in 1..n : row[j] = RiseStep(row[j - 1], p[j])
    BY DEF RiseRow
  <2>2. ASSUME NEW at, NEW price PROVE RiseStep(at, price).low = Lowest(at, price)
    BY DEF RiseStep
  <2>3. ASSUME NEW j \in 1..n PROVE row[j].low = Lowest(row[j - 1], p[j])
    <3>1. row[j] = RiseStep(row[j - 1], p[j])
      BY <2>1
    <3> QED
      BY <2>2, <3>1
  <2> QED
    BY <2>1, <2>3
<1> HIDE DEF n
<1>3. 0 \in S
  <2>1. 1 \in 1..n /\ Low(0, 1)
    BY <1>1, <1>2
  <2> HIDE DEF Low
  <2> QED
    BY <1>1, <2>1
<1>4. ASSUME NEW j \in 1..n, j - 1 \in S PROVE j \in S
  <2>1. PICK k \in 1..n : (k <= j - 1 \/ j - 1 = 0) /\ Low(j - 1, k)
    BY <1>4
  <2>2. row[j].low = IF p[j] < p[k] THEN p[j] ELSE p[k]
    BY <1>2, <2>1 DEF Lowest
  <2>3. \A a \in 1..j : a = j \/ a \in 1..(j - 1)
    OBVIOUS
  <2>4. p[j] \in Nat /\ p[k] \in Nat
    BY <1>1
  <2>5. CASE p[j] < p[k]
    <3>1. \A a \in 1..j : p[j] <= p[a]
      <4>1. ASSUME NEW a \in 1..(j - 1) PROVE p[j] <= p[a]
        <5>1. p[k] <= p[a] /\ p[a] \in Nat
          BY <1>1, <2>1
        <5> QED
          BY <2>4, <2>5, <5>1
      <4> QED
        BY <2>3, <2>4, <4>1
    <3>2. Low(j, j)
      BY <2>2, <2>5, <3>1
    <3> HIDE DEF Low
    <3> QED
      BY <1>1, <3>2
  <2>6. CASE ~(p[j] < p[k])
    <3>1. p[k] <= p[j]
      BY <2>4, <2>6
    <3>2. \A a \in 1..j : p[k] <= p[a]
      BY <2>1, <2>3, <3>1
    <3>3. Low(j, k)
      BY <2>2, <2>6, <3>2
    <3>4. CASE k <= j - 1
      <4>1. k <= j /\ j \in 0..n
        BY <1>1, <3>4
      <4> HIDE DEF Low
      <4> QED
        BY <3>3, <4>1
    <3>5. CASE j = 1
      <4>1. j - 1 = 0 /\ row[0].low = p[1] /\ p[k] = p[1] /\ 1 \in 1..n
        BY <1>2, <2>1, <3>5
      <4>2. Low(j, 1)
        BY <2>2, <2>6, <3>2, <4>1
      <4> HIDE DEF Low
      <4> QED
        BY <1>1, <3>5, <4>1, <4>2
    <3> QED
      BY <2>1, <3>4, <3>5
  <2> QED
    BY <2>5, <2>6
<1> HIDE DEF S
<1>5. i \in S
  <2>1. 0..n \subseteq S
    BY <1>1, <1>3, <1>4, StepByStep
  <2> QED
    BY <1>1, <2>1 DEF n
<1>6. PICK k \in 1..n : (k <= i \/ i = 0) /\ Low(i, k)
  BY <1>5 DEF S
<1>7. k \in 1..i
  BY <1>6 DEF n
<1> QED
  BY <1>6, <1>7

LEMMA DrawupAgrees ==
  ASSUME NEW p \in Seq(Positive), Len(p) > 0
  PROVE  LET best == calculate_max_drawup(p)[1]
         IN  /\ \A j \in 1..Len(p) : \A i \in 1..j : ~Above(RiseTo(p[i], p[j]), best)
             /\ \E j \in 1..Len(p) : \E i \in 1..j : Equal(RiseTo(p[i], p[j]), best)
<1> DEFINE n == Len(p)
           g == [x \in (1..n) \X (1..n) |-> RiseTo(p[x[1]], p[x[2]])]
<1>1. n \in Nat \ {0} /\ \A i \in 1..n : p[i] \in Positive
  OBVIOUS
<1>2. PICK row : RiseRow(row, p)
  BY RiseSteps
<1>3. ASSUME NEW i \in 1..n
      PROVE  \E k \in 1..i : row[i].low = p[k] /\ \A a \in 1..i : p[k] <= p[a]
  BY <1>2, LowIsLowest
<1>4. /\ row \in [0..n -> Rising]
      /\ row[0] = [low |-> p[1], best |-> Ratio(0, 1)]
      /\ \A i \in 1..n : row[i] = RiseStep(row[i - 1], p[i])
      /\ row[n].best = calculate_max_drawup(p)[1]
  BY <1>2 DEF RiseRow
<1> HIDE DEF n
<1>5. /\ g \in [(1..n) \X (1..n) -> Fractions]
      /\ \A a \in 1..n : \A b \in 1..n : g[<<a, b>>] = RiseTo(p[a], p[b])
  BY <1>1, MoveType
<1> HIDE DEF g
<1> DEFINE highest == [i \in 0..n |-> row[i].best]
<1>6. highest \in [0..n -> Fractions]
  BY <1>4 DEF Rising
<1>7. \A i \in 0..n : highest[i] = row[i].best
  OBVIOUS
<1> HIDE DEF highest
<1>8. Equal(g[<<1, 1>>], highest[0])
  <2>1. 1 \in 1..n /\ 0 \in 0..n /\ p[1] \in Positive
    BY <1>1
  <2>2. highest[0] = Ratio(0, 1) /\ g[<<1, 1>>] = RiseTo(p[1], p[1])
    BY <1>4, <1>5, <1>7, <2>1
  <2>3. (p[1] - p[1]) * 100 = 0
    BY <2>1 DEF Positive
  <2> QED
    BY <2>1, <2>2, <2>3 DEF Equal, Above, RiseTo, Ratio, Positive
<1>9. ASSUME NEW i \in 1..n
      PROVE  \E k \in 1..i :
               /\ \A a \in 1..i : ~Above(g[<<a, i>>], g[<<k, i>>])
               /\ highest[i] = IF Above(g[<<k, i>>], highest[i - 1])
                              THEN g[<<k, i>>] ELSE highest[i - 1]
  <2>1. PICK k \in 1..i : row[i].low = p[k] /\ \A a \in 1..i : p[k] <= p[a]
    BY <1>3
  <2>2. k \in 1..n /\ i - 1 \in 0..n /\ i \in 0..n /\ \A a \in 1..i : a \in 1..n
    BY <1>1
  <2>3. g[<<k, i>>] = RiseTo(p[k], p[i]) /\ \A a \in 1..i : g[<<a, i>>] = RiseTo(p[a], p[i])
    BY <1>5, <2>2
  <2>4. \A a \in 1..i : ~Above(g[<<a, i>>], g[<<k, i>>])
    BY <1>1, <2>1, <2>2, <2>3, FromTheLowest
  <2>5. /\ row[i].best = IF Above(RiseTo(p[k], p[i]), row[i - 1].best)
                            THEN RiseTo(p[k], p[i]) ELSE row[i - 1].best
    <3>1. row[i] = RiseStep(row[i - 1], p[i])
      BY <1>4
    <3>2. Lowest(row[i - 1], p[i]) = p[k]
      BY <2>1, <3>1 DEF RiseStep
    <3> QED
      BY <3>1, <3>2 DEF RiseStep
  <2> QED
    BY <1>7, <2>2, <2>3, <2>4, <2>5
<1>10. /\ \A b \in 1..n : \A a \in 1..b : ~Above(g[<<a, b>>], highest[n])
       /\ \E b \in 1..n : \E a \in 1..b : Equal(g[<<a, b>>], highest[n])
  BY <1>1, <1>5, <1>6, <1>8, <1>9, BestOfPairs
<1>11. highest[n] = calculate_max_drawup(p)[1]
  BY <1>1, <1>4, <1>7
<1>12. ASSUME NEW b \in 1..n, NEW a \in 1..b
       PROVE  g[<<a, b>>] = RiseTo(p[a], p[b])
  <2>1. a \in 1..n
    BY <1>1
  <2> QED
    BY <1>5, <2>1
<1> QED
  BY <1>10, <1>11, <1>12 DEF n

\* The two extremes are what the definition says.
LEMMA ExtremesAgree ==
  ASSUME NEW p \in Seq(Positive), Len(p) > 0
  PROVE  ExtremesOK(p)
<1> DEFINE n == Len(p)
           pairs == {x \in (DOMAIN p) \X (DOMAIN p) : x[1] <= x[2]}
           worst == calculate_max_drawdown(p)[1]
           best == calculate_max_drawup(p)[1]
<1>1. n \in Nat /\ DOMAIN p = 1..n /\ \A i \in 1..n : p[i] \in Positive
  OBVIOUS
<1>2. /\ \A j \in 1..n : \A i \in 1..j : ~Above(FallTo(p[i], p[j]), worst)
      /\ \E j \in 1..n : \E i \in 1..j : Equal(FallTo(p[i], p[j]), worst)
  BY DrawdownAgrees
<1>3. /\ \A j \in 1..n : \A i \in 1..j : ~Above(RiseTo(p[i], p[j]), best)
      /\ \E j \in 1..n : \E i \in 1..j : Equal(RiseTo(p[i], p[j]), best)
  BY DrawupAgrees
<1> HIDE DEF n, worst, best
<1>4. ASSUME NEW i \in 1..n, NEW j \in 1..n
      PROVE  /\ Rise(p, i, j) = RiseTo(p[i], p[j])
             /\ Negative(Rise(p, i, j)) = FallTo(p[i], p[j])
  <2>1. p[i] \in Int /\ p[j] \in Int
    BY <1>1 DEF Positive
  <2>2. -((p[j] - p[i]) * 100) = (p[i] - p[j]) * 100
    BY <2>1
  <2> QED
    BY <2>2 DEF Rise, RiseTo, FallTo, Negative, Ratio
<1>5. ASSUME NEW x \in pairs
      PROVE  x[2] \in 1..n /\ x[1] \in 1..n /\ x[1] \in 1..x[2]
  BY <1>1
<1>6. ASSUME NEW j \in 1..n, NEW i \in 1..j
      PROVE  i \in 1..n /\ <<i, j>> \in pairs /\ <<i, j>>[1] = i /\ <<i, j>>[2] = j
  BY <1>1
<1> HIDE DEF pairs
<1>7. ASSUME NEW x \in pairs
      PROVE  /\ ~Above(Negative(Rise(p, x[1], x[2])), worst)
             /\ ~Above(Rise(p, x[1], x[2]), best)
  BY <1>2, <1>3, <1>4, <1>5
<1>8. \E x \in pairs : Equal(Negative(Rise(p, x[1], x[2])), worst)
  <2>1. PICK j \in 1..n : \E i \in 1..j : Equal(FallTo(p[i], p[j]), worst)
    BY <1>2
  <2>2. PICK i \in 1..j : Equal(FallTo(p[i], p[j]), worst)
    BY <2>1
  <2>3. /\ i \in 1..n /\ <<i, j>> \in pairs
        /\ <<i, j>>[1] = i /\ <<i, j>>[2] = j
    BY <1>6
  <2>4. Equal(Negative(Rise(p, i, j)), worst)
    BY <1>4, <2>2, <2>3
  <2>5. Equal(Negative(Rise(p, <<i, j>>[1], <<i, j>>[2])), worst)
    BY <2>3, <2>4
  <2> QED
    BY ONLY <2>3, <2>5
<1>9. \E x \in pairs : Equal(Rise(p, x[1], x[2]), best)
  <2>1. PICK j \in 1..n : \E i \in 1..j : Equal(RiseTo(p[i], p[j]), best)
    BY <1>3
  <2>2. PICK i \in 1..j : Equal(RiseTo(p[i], p[j]), best)
    BY <2>1
  <2>3. /\ i \in 1..n /\ <<i, j>> \in pairs
        /\ <<i, j>>[1] = i /\ <<i, j>>[2] = j
    BY <1>6
  <2>4. Equal(Rise(p, i, j), best)
    BY <1>4, <2>2, <2>3
  <2>5. Equal(Rise(p, <<i, j>>[1], <<i, j>>[2]), best)
    BY <2>3, <2>4
  <2> QED
    BY ONLY <2>3, <2>5
<1> QED
  BY <1>7, <1>8, <1>9 DEF ExtremesOK, pairs, worst, best

\* The eleven indicators of any prices, over every period there are prices for
\* and for every width of the bands, are what their definitions say
\* (indicator_server.rs:83-292).
THEOREM EveryListAgrees ==
  ASSUME NEW p \in Seq(Positive), Len(p) > 0, NEW multiplier \in Nat
  PROVE  AgreeOn(p, multiplier)
BY ExtremesAgree, RollingAgrees, AveragesAgree, MovesAgree DEF AgreeOn

=============================================================================
