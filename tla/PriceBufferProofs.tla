------------------------- MODULE PriceBufferProofs -------------------------
(***************************************************************************)
(* What a bounded buffer keeps of a history, for any history and any size. *)
(***************************************************************************)
EXTENDS PriceBuffer, TLAPS

\* The latest elements are elements, as many as there are up to the bound.
LEMMA LatestType ==
  ASSUME NEW S, NEW h \in Seq(S), NEW n \in Nat
  PROVE  /\ Latest(h, n) \in Seq(S)
         /\ Len(Latest(h, n)) = IF Len(h) <= n THEN Len(h) ELSE n
         /\ \A i \in 1..Len(Latest(h, n)) :
              Latest(h, n)[i] = h[i + (Len(h) - Len(Latest(h, n)))]
<1>1. CASE Len(h) <= n
  BY <1>1 DEF Latest
<1>2. CASE Len(h) > n
  <2>1. /\ Len(h) \in Nat
        /\ Latest(h, n) = SubSeq(h, Len(h) - n + 1, Len(h))
    BY <1>2 DEF Latest
  <2>2. /\ Len(Latest(h, n)) = n
        /\ \A i \in 1..n : Latest(h, n)[i] = h[i + (Len(h) - n)]
    BY <1>2, <2>1
  <2>3. Latest(h, n) \in Seq(S)
    BY <1>2, <2>1
  <2> QED
    BY <1>2, <2>1, <2>2, <2>3
<1> QED
  BY <1>1, <1>2

\* Two sequences are equal when they have the same elements in the same places.
LEMMA SameElements ==
  ASSUME NEW S, NEW s \in Seq(S), NEW t \in Seq(S), Len(s) = Len(t),
         \A i \in 1..Len(s) : s[i] = t[i]
  PROVE  s = t
OBVIOUS

\* Adding a price to the latest prices gives the latest prices: a bounded buffer
\* never differs from the end of the whole history.
THEOREM AddKeepsLatest ==
  ASSUME NEW S, NEW h \in Seq(S), NEW x \in S, NEW n \in Nat
  PROVE  AddPrice(Latest(h, n), x, n) = Latest(Append(h, x), n)
<1> DEFINE old == Latest(h, n)
           longer == Append(old, x)
           new == AddPrice(old, x, n)
           all == Append(h, x)
<1>1. /\ old \in Seq(S)
      /\ Len(old) = IF Len(h) <= n THEN Len(h) ELSE n
      /\ \A i \in 1..Len(old) : old[i] = h[i + (Len(h) - Len(old))]
  BY LatestType
<1>2. /\ all \in Seq(S) /\ Len(all) = Len(h) + 1 /\ Len(h) \in Nat
      /\ all[Len(h) + 1] = x
      /\ \A i \in 1..Len(h) : all[i] = h[i]
  OBVIOUS
<1>3. /\ Latest(all, n) \in Seq(S)
      /\ Len(Latest(all, n)) = IF Len(all) <= n THEN Len(all) ELSE n
      /\ \A i \in 1..Len(Latest(all, n)) :
           Latest(all, n)[i] = all[i + (Len(all) - Len(Latest(all, n)))]
  BY <1>2, LatestType
<1> HIDE DEF old, all
<1>4. /\ longer \in Seq(S) /\ Len(longer) = Len(old) + 1 /\ Len(old) \in Nat
      /\ longer[Len(old) + 1] = x
      /\ \A i \in 1..Len(old) : longer[i] = old[i]
  BY <1>1
<1> HIDE DEF longer
<1>5. new = IF Len(longer) > n THEN Tail(longer) ELSE longer
  BY DEF AddPrice, longer
<1>6. CASE Len(h) < n
  <2>1. new = longer /\ Len(old) = Len(h)
    BY <1>1, <1>2, <1>4, <1>5, <1>6
  <2>2. Len(Latest(all, n)) = Len(h) + 1
    BY <1>2, <1>3, <1>6
  <2>3. ASSUME NEW i \in 1..Len(longer) PROVE longer[i] = Latest(all, n)[i]
    <3>1. Latest(all, n)[i] = all[i + (Len(all) - Len(Latest(all, n)))]
      BY <1>3, <1>4, <2>1, <2>2
    <3>2. i + (Len(all) - Len(Latest(all, n))) = i /\ i \in Nat
      BY <1>2, <1>4, <2>1, <2>2
    <3>3. CASE i = Len(h) + 1
      BY <1>2, <1>4, <2>1, <3>1, <3>2, <3>3
    <3>4. CASE i \in 1..Len(h)
      <4>1. longer[i] = old[i] /\ old[i] = h[i + (Len(h) - Len(old))]
        BY <1>1, <1>4, <2>1, <3>4
      <4>2. i + (Len(h) - Len(old)) = i
        BY <1>2, <2>1, <3>2
      <4> QED
        BY <1>2, <3>1, <3>2, <3>4, <4>1, <4>2
    <3> QED
      BY <1>2, <1>4, <2>1, <3>3, <3>4
  <2> QED
    BY <1>2, <1>3, <1>4, <2>1, <2>2, <2>3, SameElements DEF all, old
<1>7. CASE Len(h) >= n
  <2>1. Len(old) = n /\ new = Tail(longer)
    BY <1>1, <1>2, <1>4, <1>5, <1>7
  <2>2. /\ new \in Seq(S) /\ Len(new) = n
        /\ \A i \in 1..n : new[i] = longer[i + 1]
    BY <1>4, <2>1
  <2>3. Len(Latest(all, n)) = n
    BY <1>2, <1>3, <1>7
  <2>4. ASSUME NEW i \in 1..n PROVE longer[i + 1] = Latest(all, n)[i]
    <3> DEFINE place == i + 1 + (Len(h) - n)
    <3>1. place \in 1..(Len(h) + 1) /\ i \in Nat /\ i + 1 \in Nat
      BY <1>2, <1>7
    <3>2. Latest(all, n)[i] = all[place]
      <4>1. Latest(all, n)[i] = all[i + (Len(all) - Len(Latest(all, n)))]
        BY <1>3, <2>3
      <4>2. i + (Len(all) - Len(Latest(all, n))) = place
        BY <1>2, <2>3, <3>1
      <4> QED
        BY <4>1, <4>2
    <3>3. CASE i = n
      <4>1. place = Len(h) + 1
        BY <1>2, <3>3
      <4> QED
        BY <1>2, <1>4, <2>1, <3>2, <3>3, <4>1
    <3>4. CASE i + 1 \in 1..n
      <4>1. longer[i + 1] = old[i + 1]
        BY <1>4, <2>1, <3>4
      <4>2. old[i + 1] = h[(i + 1) + (Len(h) - n)]
        BY <1>1, <2>1, <3>4
      <4>3. (i + 1) + (Len(h) - n) = place /\ place \in 1..Len(h)
        BY <1>2, <1>7, <3>4
      <4> QED
        BY <1>2, <3>2, <4>1, <4>2, <4>3
    <3> QED
      BY <3>3, <3>4
  <2>5. new = Latest(all, n)
    BY <1>3, <2>2, <2>3, <2>4, SameElements
  <2> QED
    BY <2>5 DEF all, old
<1> QED
  BY <1>2, <1>6, <1>7

\* What is latest in the buffer is latest in the history.
LEMMA LatestOfLatest ==
  ASSUME NEW S, NEW h \in Seq(S), NEW m \in Nat, NEW n \in Nat, n <= m
  PROVE  Latest(Latest(h, m), n) = Latest(h, n)
<1> DEFINE some == Latest(h, m)
<1>1. /\ some \in Seq(S)
      /\ Len(some) = IF Len(h) <= m THEN Len(h) ELSE m
      /\ \A i \in 1..Len(some) : some[i] = h[i + (Len(h) - Len(some))]
  BY LatestType
<1>2. /\ Latest(h, n) \in Seq(S)
      /\ Len(Latest(h, n)) = IF Len(h) <= n THEN Len(h) ELSE n
      /\ \A i \in 1..Len(Latest(h, n)) :
           Latest(h, n)[i] = h[i + (Len(h) - Len(Latest(h, n)))]
  BY LatestType
<1> HIDE DEF some
<1>3. /\ Latest(some, n) \in Seq(S)
      /\ Len(Latest(some, n)) = IF Len(some) <= n THEN Len(some) ELSE n
      /\ \A i \in 1..Len(Latest(some, n)) :
           Latest(some, n)[i] = some[i + (Len(some) - Len(Latest(some, n)))]
  BY <1>1, LatestType
<1>4. Len(h) \in Nat /\ Len(some) \in Nat
  BY <1>1
<1>5. Len(Latest(some, n)) = Len(Latest(h, n)) /\ Len(Latest(h, n)) <= Len(some)
  BY <1>1, <1>2, <1>3, <1>4
<1>6. ASSUME NEW i \in 1..Len(Latest(h, n))
      PROVE  Latest(some, n)[i] = Latest(h, n)[i]
  <2> DEFINE len == Len(Latest(h, n))
             place == i + (Len(some) - len)
  <2>1. len \in Nat
    BY <1>2
  <2>2. place \in 1..Len(some)
    BY <1>4, <1>5, <2>1
  <2>3. Latest(some, n)[i] = some[place]
    BY <1>3, <1>5
  <2>4. some[place] = h[place + (Len(h) - Len(some))]
    BY <1>1, <2>2
  <2>5. place + (Len(h) - Len(some)) = i + (Len(h) - len)
    BY <1>4, <2>1
  <2> QED
    BY <1>2, <2>3, <2>4, <2>5
<1>7. Latest(some, n) = Latest(h, n)
  BY <1>2, <1>3, <1>5, <1>6, SameElements
<1> QED
  BY <1>7 DEF some

\* What comes last is the last of the latest.
LEMMA LatestOfAppend ==
  ASSUME NEW S, NEW h \in Seq(S), NEW x \in S, NEW k \in Nat
  PROVE  Latest(Append(h, x), k + 1) = Append(Latest(h, k), x)
<1> DEFINE all == Append(h, x)
           old == Latest(h, k)
           longer == Append(old, x)
           new == Latest(all, k + 1)
<1>1. /\ old \in Seq(S)
      /\ Len(old) = IF Len(h) <= k THEN Len(h) ELSE k
      /\ \A i \in 1..Len(old) : old[i] = h[i + (Len(h) - Len(old))]
  BY LatestType
<1>2. /\ all \in Seq(S) /\ Len(all) = Len(h) + 1 /\ Len(h) \in Nat
      /\ all[Len(h) + 1] = x
      /\ \A i \in 1..Len(h) : all[i] = h[i]
  OBVIOUS
<1>3. /\ new \in Seq(S)
      /\ Len(new) = IF Len(all) <= k + 1 THEN Len(all) ELSE k + 1
      /\ \A i \in 1..Len(new) : new[i] = all[i + (Len(all) - Len(new))]
  <2>1. k + 1 \in Nat
    OBVIOUS
  <2> QED
    BY <1>2, <2>1, LatestType
<1> HIDE DEF old, all, new
<1>4. /\ longer \in Seq(S) /\ Len(longer) = Len(old) + 1 /\ Len(old) \in Nat
      /\ longer[Len(old) + 1] = x
      /\ \A i \in 1..Len(old) : longer[i] = old[i]
  BY <1>1
<1> HIDE DEF longer
<1>5. Len(new) = Len(longer) /\ Len(longer) = Len(old) + 1
  BY <1>1, <1>2, <1>3, <1>4
<1>6. ASSUME NEW i \in 1..Len(longer) PROVE longer[i] = new[i]
  <2> DEFINE place == i + (Len(h) - Len(old))
  <2>1. new[i] = all[place]
    <3>1. i + (Len(all) - Len(new)) = place
      BY <1>2, <1>4, <1>5
    <3> QED
      BY <1>3, <1>5, <3>1
  <2>2. CASE i = Len(old) + 1
    <3>1. place = Len(h) + 1
      BY <1>2, <1>4, <2>2
    <3> QED
      BY <1>2, <1>4, <2>1, <2>2, <3>1
  <2>3. CASE i \in 1..Len(old)
    <3>1. place \in 1..Len(h)
      BY <1>1, <1>2, <1>4, <2>3
    <3>2. longer[i] = h[place]
      BY <1>1, <1>4, <2>3
    <3> QED
      BY <1>2, <2>1, <3>1, <3>2
  <2> QED
    BY <1>4, <2>2, <2>3
<1>7. longer = new
  BY <1>3, <1>4, <1>5, <1>6, SameElements
<1> QED
  BY <1>7 DEF longer, new, old, all

\* A buffer within its size stays there.
LEMMA AddIsLatest ==
  ASSUME NEW S, NEW b \in Seq(S), NEW x \in S, NEW n \in Nat, Len(b) <= n
  PROVE  /\ AddPrice(b, x, n) = Latest(Append(b, x), n)
         /\ AddPrice(b, x, n) \in Seq(S)
         /\ Len(AddPrice(b, x, n)) <= n
<1>1. Latest(b, n) = b
  BY DEF Latest
<1>2. AddPrice(b, x, n) = Latest(Append(b, x), n)
  BY <1>1, AddKeepsLatest
<1>3. Append(b, x) \in Seq(S) /\ Len(Append(b, x)) \in Nat
  OBVIOUS
<1>4. /\ Latest(Append(b, x), n) \in Seq(S)
      /\ Len(Latest(Append(b, x), n))
           = IF Len(Append(b, x)) <= n THEN Len(Append(b, x)) ELSE n
  BY <1>3, LatestType
<1> QED
  BY <1>2, <1>3, <1>4

Shorter(h, n) == IF Len(h) <= n THEN Len(h) ELSE n

\* A buffer that ends like a history, as far as both reach, goes on to do so.
LEMMA AddKeepsEnd ==
  ASSUME NEW S, NEW b \in Seq(S), NEW h \in Seq(S), NEW x \in S, NEW n \in Nat,
         Len(b) <= n,
         Latest(b, Shorter(h, n)) = Latest(h, Shorter(h, n))
  PROVE  Latest(AddPrice(b, x, n), Shorter(Append(h, x), n))
           = Latest(Append(h, x), Shorter(Append(h, x), n))
<1>1. /\ Append(b, x) \in Seq(S) /\ Append(h, x) \in Seq(S)
      /\ Len(h) \in Nat /\ Len(Append(h, x)) = Len(h) + 1
  OBVIOUS
<1>2. ASSUME NEW k \in Nat, k <= Shorter(h, n) PROVE Latest(b, k) = Latest(h, k)
  <2>1. Shorter(h, n) \in Nat
    BY <1>1 DEF Shorter
  <2> QED
    BY <1>2, <2>1, LatestOfLatest
<1>3. ASSUME NEW k \in Nat, k <= n
      PROVE  Latest(AddPrice(b, x, n), k) = Latest(Append(b, x), k)
  <2>1. AddPrice(b, x, n) = Latest(Append(b, x), n)
    BY AddIsLatest
  <2>2. Latest(Latest(Append(b, x), n), k) = Latest(Append(b, x), k)
    BY <1>1, <1>3, LatestOfLatest
  <2> QED
    BY <2>1, <2>2
<1>4. CASE Shorter(Append(h, x), n) = 0
  <2>1. n = 0
    BY <1>1, <1>4 DEF Shorter
  <2>2. \A s \in Seq(S) : Latest(s, 0) \in Seq(S) /\ Len(Latest(s, 0)) = 0
    <3> TAKE s \in Seq(S)
    <3>1. Len(s) \in Nat /\ 0 \in Nat
      OBVIOUS
    <3>2. /\ Latest(s, 0) \in Seq(S)
          /\ Len(Latest(s, 0)) = IF Len(s) <= 0 THEN Len(s) ELSE 0
      BY <3>1, LatestType
    <3> QED
      BY <3>1, <3>2
  <2>3. AddPrice(b, x, n) \in Seq(S)
    BY AddIsLatest
  <2>4. ASSUME NEW s \in Seq(S), NEW t \in Seq(S)
        PROVE  Latest(s, 0) = Latest(t, 0)
    <3>1. /\ Latest(s, 0) \in Seq(S) /\ Latest(t, 0) \in Seq(S)
          /\ Len(Latest(s, 0)) = 0 /\ Len(Latest(t, 0)) = 0
      BY <2>2
    <3> QED
      BY <3>1, SameElements
  <2> QED
    BY <1>1, <1>4, <2>3, <2>4
<1>5. CASE Shorter(Append(h, x), n) # 0
  <2>1. PICK k \in Nat : Shorter(Append(h, x), n) = k + 1
    <3>1. Shorter(Append(h, x), n) \in Nat \ {0}
      BY <1>1, <1>5 DEF Shorter
    <3>2. Shorter(Append(h, x), n) - 1 \in Nat
      BY <3>1
    <3> QED
      BY <3>1, <3>2
  <2>2. k <= Shorter(h, n) /\ k + 1 <= n /\ k + 1 \in Nat
    BY <1>1, <2>1 DEF Shorter
  <2>3. Latest(AddPrice(b, x, n), k + 1) = Latest(Append(b, x), k + 1)
    BY <1>3, <2>2
  <2>4. Latest(Append(b, x), k + 1) = Append(Latest(b, k), x)
    BY LatestOfAppend
  <2>5. Latest(Append(h, x), k + 1) = Append(Latest(h, k), x)
    BY LatestOfAppend
  <2> QED
    BY <1>2, <2>1, <2>2, <2>3, <2>4, <2>5
<1> QED
  BY <1>4, <1>5

============================================================================
