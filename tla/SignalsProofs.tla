--------------------------- MODULE SignalsProofs ---------------------------
(***************************************************************************)
(* Every signal is the one the whole history calls for, whatever the       *)
(* strategies, their periods, the prices and the size of the buffer.       *)
(*                                                                         *)
(* What a mean, a strength or a band is worth plays no part: a strategy    *)
(* and the history ask for it of the same prices.  The two last parts are  *)
(* about what is made of the signals, whose weights are sums, and about    *)
(* the indicators of everything the market has sent, which are those of a  *)
(* list of positive prices: IndicatorProofs.                               *)
(***************************************************************************)
EXTENDS Signals, PriceBufferProofs, IndicatorProofs

----------------------------------------------------------------------------
(* Windows.                                                                *)

\* The last window holds the latest prices.
LEMMA LastWindow ==
  ASSUME NEW p \in Seq(Prices), NEW n \in Nat \ {0}, n <= Len(p)
  PROVE  SubSeq(p, Count(p, n), Count(p, n) + n - 1) = Latest(p, n)
<1>1. Len(p) \in Nat /\ Count(p, n) = Len(p) - n + 1
  BY DEF Count
<1>2. Count(p, n) + n - 1 = Len(p)
  BY <1>1
<1>3. CASE n = Len(p)
  <2>1. SubSeq(p, 1, Len(p)) = p
    OBVIOUS
  <2> QED
    BY <1>1, <1>2, <1>3, <2>1 DEF Latest
<1>4. CASE n < Len(p)
  BY <1>1, <1>2, <1>4 DEF Latest
<1> QED
  BY <1>1, <1>3, <1>4

\* The front of a history.
LEMMA FrontType ==
  ASSUME NEW h \in Seq(Prices), Len(h) > 0
  PROVE  /\ Front(h) \in Seq(Prices)
         /\ Len(Front(h)) = Len(h) - 1
         /\ \A i \in 1..(Len(h) - 1) : Front(h)[i] = h[i]
<1>1. Len(h) \in Nat /\ Len(h) - 1 \in 0..Len(h)
  OBVIOUS
<1>2. Front(h) = SubSeq(h, 1, Len(h) - 1)
  BY DEF Front
<1>3. /\ SubSeq(h, 1, Len(h) - 1) \in Seq(Prices)
      /\ Len(SubSeq(h, 1, Len(h) - 1)) = Len(h) - 1
  <2>1. \A i \in 1..(Len(h) - 1) : h[i] \in Prices
    BY <1>1
  <2> DEFINE n == Len(h) - 1
  <2>2. 1 \in Int /\ n \in Int /\ n >= 0
    BY <1>1
  <2>3. /\ SubSeq(h, 1, n) \in Seq(Prices)
        /\ Len(SubSeq(h, 1, n)) = IF 1 <= n THEN n - 1 + 1 ELSE 0
    BY ONLY <2>1, <2>2, SubSeqProperties
  <2> HIDE DEF n
  <2>4. Len(SubSeq(h, 1, n)) = n
    BY <2>2, <2>3
  <2> QED
    BY <2>3, <2>4 DEF n
<1>4. \A i \in 1..(Len(h) - 1) : SubSeq(h, 1, Len(h) - 1)[i] = h[i]
  BY <1>1
<1> QED
  BY <1>2, <1>3, <1>4

\* The last window but one holds the latest prices but one.
LEMMA LastWindowButOne ==
  ASSUME NEW p \in Seq(Prices), NEW n \in Nat \ {0}, n < Len(p)
  PROVE  SubSeq(p, Count(p, n) - 1, Count(p, n) + n - 2) = Latest(Front(p), n)
<1> DEFINE window == SubSeq(p, Count(p, n) - 1, Count(p, n) + n - 2)
           front == Front(p)
<1>1. Len(p) \in Nat /\ Count(p, n) = Len(p) - n + 1
  BY DEF Count
<1>2. /\ front \in Seq(Prices) /\ Len(front) = Len(p) - 1
      /\ \A i \in 1..(Len(p) - 1) : front[i] = p[i]
  BY <1>1, FrontType
<1>3. window = SubSeq(p, Len(p) - n, Len(p) - 1)
  <2>1. Count(p, n) - 1 = Len(p) - n /\ Count(p, n) + n - 2 = Len(p) - 1
    BY <1>1
  <2> QED
    BY <2>1
<1>4. /\ window \in Seq(Prices) /\ Len(window) = n
      /\ \A i \in 1..n : window[i] = p[i + (Len(p) - n) - 1]
  <2>1. Len(p) - n \in 1..Len(p) /\ Len(p) - 1 \in 1..Len(p)
    BY <1>1
  <2>2. \A i \in 1..n : i + (Len(p) - n) - 1 = (Len(p) - n) + i - 1
    BY <1>1
  <2> QED
    BY <1>1, <1>3, <2>1, <2>2
<1> HIDE DEF window, front
<1>5. /\ Latest(front, n) \in Seq(Prices) /\ Len(Latest(front, n)) = n
      /\ \A i \in 1..n : Latest(front, n)[i] = front[i + (Len(front) - n)]
  BY <1>1, <1>2, LatestType
<1>6. ASSUME NEW i \in 1..n PROVE window[i] = Latest(front, n)[i]
  <2> DEFINE place == i + (Len(p) - n) - 1
  <2>1. i + (Len(front) - n) = place /\ place \in 1..(Len(p) - 1)
    BY <1>1, <1>2
  <2> QED
    BY <1>2, <1>4, <1>5, <2>1
<1> QED
  BY <1>4, <1>5, <1>6, SameElements DEF window, front

----------------------------------------------------------------------------
(* The buffer in place of the history.                                     *)

Kept(history) == Latest(history, BufferSize)

LEMMA KeptType ==
  ASSUME NEW h \in Seq(Prices)
  PROVE  /\ Kept(h) \in Seq(Prices)
         /\ Len(h) \in Nat /\ Len(Kept(h)) \in Nat
         /\ Len(Kept(h)) = IF Len(h) <= BufferSize THEN Len(h) ELSE BufferSize
         /\ \A i \in 1..Len(Kept(h)) :
              Kept(h)[i] = h[i + (Len(h) - Len(Kept(h)))]
BY LatestType, SizeAssumption DEF Kept

\* A buffer that holds one price more than asked for has the same prices but
\* the latest as the history.
LEMMA FrontOfKept ==
  ASSUME NEW h \in Seq(Prices), NEW n \in Nat, n < BufferSize, n < Len(h)
  PROVE  Latest(Front(Kept(h)), n) = Latest(Front(h), n)
<1> DEFINE p == Kept(h)
<1>1. /\ p \in Seq(Prices) /\ Len(h) \in Nat /\ Len(p) \in Nat
      /\ n < Len(p)
      /\ \A i \in 1..Len(p) : p[i] = h[i + (Len(h) - Len(p))]
  BY KeptType, SizeAssumption
<1> HIDE DEF p
<1> DEFINE a == Front(p)
           b == Front(h)
<1>2. /\ a \in Seq(Prices) /\ Len(a) = Len(p) - 1
      /\ \A i \in 1..(Len(p) - 1) : a[i] = p[i]
  BY <1>1, FrontType
<1>3. /\ b \in Seq(Prices) /\ Len(b) = Len(h) - 1
      /\ \A i \in 1..(Len(h) - 1) : b[i] = h[i]
  BY <1>1, FrontType
<1> HIDE DEF a, b
<1>4. /\ Latest(a, n) \in Seq(Prices) /\ Len(Latest(a, n)) = n
      /\ \A i \in 1..n : Latest(a, n)[i] = a[i + (Len(a) - n)]
  <2>1. /\ Latest(a, n) \in Seq(Prices)
        /\ Len(Latest(a, n)) = IF Len(a) <= n THEN Len(a) ELSE n
        /\ \A i \in 1..Len(Latest(a, n)) :
             Latest(a, n)[i] = a[i + (Len(a) - Len(Latest(a, n)))]
    BY <1>2, LatestType
  <2>2. Len(Latest(a, n)) = n
    BY <1>1, <1>2, <2>1
  <2> QED
    BY <2>1, <2>2
<1>5. /\ Latest(b, n) \in Seq(Prices) /\ Len(Latest(b, n)) = n
      /\ \A i \in 1..n : Latest(b, n)[i] = b[i + (Len(b) - n)]
  <2>1. /\ Latest(b, n) \in Seq(Prices)
        /\ Len(Latest(b, n)) = IF Len(b) <= n THEN Len(b) ELSE n
        /\ \A i \in 1..Len(Latest(b, n)) :
             Latest(b, n)[i] = b[i + (Len(b) - Len(Latest(b, n)))]
    BY <1>3, LatestType
  <2>2. Len(Latest(b, n)) = n
    BY <1>1, <1>3, <2>1
  <2> QED
    BY <2>1, <2>2
<1>6. ASSUME NEW i \in 1..n PROVE Latest(a, n)[i] = Latest(b, n)[i]
  <2> DEFINE inP == i + (Len(a) - n)
             inH == i + (Len(b) - n)
  <2>1. /\ inP \in 1..(Len(p) - 1) /\ inP \in 1..Len(p)
        /\ inH \in 1..(Len(h) - 1)
    BY <1>1, <1>2, <1>3
  <2>2. inP + (Len(h) - Len(p)) = inH
    BY <1>1, <1>2, <1>3
  <2> HIDE DEF inP, inH
  <2>3. a[inP] = h[inH]
    BY <1>1, <1>2, <2>1, <2>2
  <2>4. b[inH] = h[inH]
    BY <1>3, <2>1
  <2> QED
    BY <1>4, <1>5, <2>3, <2>4 DEF inP, inH
<1>7. Latest(a, n) = Latest(b, n)
  BY <1>4, <1>5, <1>6, SameElements
<1> QED
  BY <1>7 DEF a, b, p

\* The last two averages of the buffer are those of the history.
LEMMA SmaOfKept ==
  ASSUME NEW h \in Seq(Prices), NEW n \in Nat \ {0}, n < BufferSize, n < Len(h)
  PROVE  LET sma == calculate_sma(Kept(h), n)
         IN  /\ Len(sma) \in Nat /\ Len(sma) >= 2
             /\ sma[Len(sma)] = Mean(Latest(h, n))
             /\ sma[Len(sma) - 1] = Mean(Latest(Front(h), n))
<1> DEFINE p == Kept(h)
           sma == calculate_sma(p, n)
           k == Count(p, n)
<1>1. p \in Seq(Prices) /\ Len(p) \in Nat /\ n < Len(p)
  BY KeptType, SizeAssumption
<1>2. k \in Nat /\ k >= 2
  BY <1>1 DEF Count
<1>3. /\ Len(sma) = k
      /\ \A i \in 1..k : sma[i] = Mean(SubSeq(p, i, i + n - 1))
  BY <1>1, SmaType
<1>4. SubSeq(p, k, k + n - 1) = Latest(p, n)
  BY <1>1, LastWindow
<1>5. SubSeq(p, k - 1, k + n - 2) = Latest(Front(p), n)
  BY <1>1, LastWindowButOne
<1>6. Latest(p, n) = Latest(h, n)
  BY LatestOfLatest, SizeAssumption DEF Kept
<1>7. Latest(Front(p), n) = Latest(Front(h), n)
  BY KeptType, FrontOfKept
<1> HIDE DEF p, sma, k
<1>8. k \in 1..k /\ k - 1 \in 1..k /\ (k - 1) + n - 1 = k + n - 2
  BY <1>2
<1>9. sma[k] = Mean(Latest(h, n)) /\ sma[k - 1] = Mean(Latest(Front(h), n))
  BY <1>3, <1>4, <1>5, <1>6, <1>7, <1>8
<1> QED
  BY <1>2, <1>3, <1>9 DEF p, sma

----------------------------------------------------------------------------
(* The three kinds of strategy, each with what it has read.                *)

Crosses == [kind : {"ma_cross"}, short : Nat, long : Nat, weight : Nat]
Strengths == [kind : {"rsi"}, period : Nat, oversold : Nat, overbought : Nat,
              weight : Nat]
Breakouts == [kind : {"bb"}, period : Nat, multiplier : Nat, weight : Nat]

LEMMA CrossSignal ==
  ASSUME NEW s \in Crosses, NEW h \in Seq(Prices), Reach(s) <= BufferSize
  PROVE  detect_ma_cross(calculate_sma(Kept(h), s.short),
                         calculate_sma(Kept(h), s.long)) = CrossOf(s, h)
<1> DEFINE short == calculate_sma(Kept(h), s.short)
           long == calculate_sma(Kept(h), s.long)
<1>1. s.kind = "ma_cross" /\ s.short \in Nat /\ s.long \in Nat
  BY DEF Crosses
<1>2. s.short < BufferSize /\ s.long < BufferSize
  BY <1>1, SizeAssumption DEF Reach
<1>3. /\ Kept(h) \in Seq(Prices) /\ Len(h) \in Nat /\ Len(Kept(h)) \in Nat
      /\ Len(Kept(h)) = IF Len(h) <= BufferSize THEN Len(h) ELSE BufferSize
  BY KeptType
<1>4. ASSUME NEW n \in Nat, n = 0 \/ Len(h) <= n
      PROVE  Len(calculate_sma(Kept(h), n)) < 2
  <2>1. CASE n = 0
    BY <2>1 DEF calculate_sma
  <2>2. CASE n # 0
    <3>1. Len(Kept(h)) <= n
      BY <1>3, <1>4, <2>2, SizeAssumption
    <3>2. Count(Kept(h), n) < 2
      BY <1>3, <3>1 DEF Count
    <3> QED
      BY <1>3, <2>2, <3>2, SmaType
  <2> QED
    BY <2>1, <2>2
<1>5. CASE s.short = 0 \/ s.long = 0 \/ Len(h) <= s.short \/ Len(h) <= s.long
  <2>1. Len(short) < 2 \/ Len(long) < 2
    BY <1>1, <1>4, <1>5
  <2> HIDE DEF short, long
  <2> QED
    BY <1>5, <2>1 DEF detect_ma_cross, CrossOf, short, long
<1>6. CASE ~(s.short = 0 \/ s.long = 0 \/ Len(h) <= s.short \/ Len(h) <= s.long)
  <2>1. /\ s.short \in Nat \ {0} /\ s.short < Len(h)
        /\ s.long \in Nat \ {0} /\ s.long < Len(h)
    BY <1>1, <1>3, <1>6
  <2>2. /\ Len(short) \in Nat /\ Len(short) >= 2
        /\ short[Len(short)] = Mean(Latest(h, s.short))
        /\ short[Len(short) - 1] = Mean(Latest(Front(h), s.short))
    BY <1>2, <2>1, SmaOfKept
  <2>3. /\ Len(long) \in Nat /\ Len(long) >= 2
        /\ long[Len(long)] = Mean(Latest(h, s.long))
        /\ long[Len(long) - 1] = Mean(Latest(Front(h), s.long))
    BY <1>2, <2>1, SmaOfKept
  <2> HIDE DEF short, long
  <2>4. detect_ma_cross(short, long) = CrossOf(s, h)
    BY <1>6, <2>2, <2>3 DEF detect_ma_cross, CrossOf, ShortAbove, LongAbove
  <2> QED
    BY <2>4 DEF short, long
<1> QED
  BY <1>5, <1>6

LEMMA RsiSignal ==
  ASSUME NEW s \in Strengths, NEW h \in Seq(Prices), Reach(s) <= BufferSize,
         Len(Kept(h)) >= Needed(s)
  PROVE  detect_rsi_signal(calculate_rsi(Kept(h), s.period),
                           s.oversold, s.overbought) = RsiOf(s, h)
<1> DEFINE p == Kept(h)
           n == s.period
           rsi == calculate_rsi(p, n)
           k == Count(p, n + 1)
<1>1. /\ s.kind = "rsi" /\ n \in Nat /\ n + 1 \in Nat \ {0}
      /\ n + 1 <= BufferSize /\ Len(p) >= n + 1
  BY DEF Strengths, Reach, Needed
<1>2. /\ p \in Seq(Prices) /\ Len(p) \in Nat /\ Len(h) \in Nat
      /\ Len(p) = IF Len(h) <= BufferSize THEN Len(h) ELSE BufferSize
  BY KeptType
<1>3. CASE n = 0
  BY <1>3 DEF calculate_rsi, detect_rsi_signal, RsiOf
<1>4. CASE n # 0
  <2>1. ~(n = 0 \/ Len(h) <= n)
    BY <1>1, <1>2, <1>4, SizeAssumption
  <2>2. k \in Nat /\ k >= 1
    BY <1>1, <1>2 DEF Count
  <2>3. /\ Len(rsi) = k
        /\ \A i \in 1..k : rsi[i] = Strength(SubSeq(p, i, i + (n + 1) - 1))
    BY <1>1, <1>2, <1>4, RsiType
  <2>4. SubSeq(p, k, k + (n + 1) - 1) = Latest(p, n + 1)
    BY <1>1, <1>2, LastWindow
  <2>5. Latest(p, n + 1) = Latest(h, n + 1)
    BY <1>1, LatestOfLatest, SizeAssumption DEF Kept
  <2> HIDE DEF p, k, rsi
  <2>6. Last(rsi) = Strength(Latest(h, n + 1))
    <3>1. k \in 1..k /\ Last(rsi) = rsi[k]
      BY <2>2, <2>3 DEF Last
    <3>2. rsi[k] = Strength(SubSeq(p, k, k + (n + 1) - 1))
      BY <2>3, <3>1
    <3> QED
      BY <2>4, <2>5, <3>1, <3>2
  <2>7. rsi # <<>>
    BY <2>2, <2>3
  <2>8. detect_rsi_signal(rsi, s.oversold, s.overbought) = RsiOf(s, h)
    BY <2>1, <2>6, <2>7 DEF detect_rsi_signal, RsiOf
  <2> QED
    BY <2>8 DEF p, rsi
<1> QED
  BY <1>3, <1>4

LEMMA BreakoutSignal ==
  ASSUME NEW s \in Breakouts, NEW h \in Seq(Prices), Reach(s) <= BufferSize,
         Len(Kept(h)) >= Needed(s), Kept(h) # <<>>
  PROVE  detect_bb_breakout(Last(Kept(h)),
           calculate_bollinger_bands(Kept(h), s.period, s.multiplier))
             = BreakoutOf(s, h)
<1> DEFINE p == Kept(h)
           n == s.period
           bands == calculate_bollinger_bands(p, n, s.multiplier)
           one == <<Bands(Latest(h, n), s.multiplier)>>
           k == Count(p, n)
<1>1. /\ s.kind = "bb" /\ n \in Nat /\ s.multiplier \in Nat
      /\ n <= BufferSize /\ Len(p) >= n
  BY DEF Breakouts, Reach, Needed
<1>2. /\ p \in Seq(Prices) /\ Len(p) \in Nat /\ Len(h) \in Nat
      /\ Len(p) = IF Len(h) <= BufferSize THEN Len(h) ELSE BufferSize
      /\ \A i \in 1..Len(p) : p[i] = h[i + (Len(h) - Len(p))]
  BY KeptType
<1>3. CASE n = 0
  BY <1>3 DEF calculate_bollinger_bands, detect_bb_breakout, BreakoutOf
<1>4. CASE n # 0
  <2>1. ~(n = 0 \/ Len(h) < n)
    BY <1>1, <1>2, <1>4, SizeAssumption
  <2>2. k \in Nat /\ k >= 1
    BY <1>1, <1>2 DEF Count
  <2>3. /\ Len(bands) = k
        /\ \A i \in 1..k :
             bands[i] = Bands(SubSeq(p, i, i + n - 1), s.multiplier)
    <3>1. n \in Nat \ {0} /\ s.multiplier \in Nat /\ p \in Seq(Prices)
      BY <1>1, <1>2, <1>4
    <3> HIDE DEF p
    <3>2. bands = calculate_bollinger_bands(p, n, s.multiplier) /\ k = Count(p, n)
      OBVIOUS
    <3> HIDE DEF bands, k
    <3> QED
      BY ONLY <3>1, <3>2, BandsType
  <2>4. SubSeq(p, k, k + n - 1) = Latest(p, n)
    BY <1>1, <1>2, <1>4, LastWindow
  <2>5. Latest(p, n) = Latest(h, n)
    BY <1>1, LatestOfLatest, SizeAssumption DEF Kept
  <2>6. Last(p) = Last(h)
    <3>1. Len(p) \in 1..Len(p)
      BY <1>2
    <3>2. Len(p) + (Len(h) - Len(p)) = Len(h)
      BY <1>2
    <3> HIDE DEF p
    <3>3. p[Len(p)] = h[Len(h)]
      BY <1>2, <3>1, <3>2
    <3> QED
      BY <3>3 DEF Last
  <2> HIDE DEF p, k, bands
  <2>7. Last(bands) = Bands(Latest(h, n), s.multiplier) /\ bands # <<>>
    <3>1. k \in 1..k /\ Last(bands) = bands[k] /\ bands # <<>>
      BY <2>2, <2>3 DEF Last
    <3>2. bands[k] = Bands(SubSeq(p, k, k + n - 1), s.multiplier)
      BY <2>3, <3>1
    <3> QED
      BY <2>4, <2>5, <3>1, <3>2
  <2>8. Last(one) = Bands(Latest(h, n), s.multiplier) /\ one # <<>>
    BY DEF Last
  <2> HIDE DEF one
  <2>9. detect_bb_breakout(Last(p), bands) = detect_bb_breakout(Last(h), one)
    BY <2>6, <2>7, <2>8 DEF detect_bb_breakout
  <2> QED
    BY <2>1, <2>9 DEF BreakoutOf, p, bands, one
<1> QED
  BY <1>3, <1>4

----------------------------------------------------------------------------
(* What the service answers.                                               *)

LEMMA ServiceAnswers ==
  ASSUME NEW id, NEW data, NEW n, NEW k,
         gen_liste(id, data, <<[period |-> n, multiplier |-> k]>>).ok
  PROVE  gen_liste(id, data, <<[period |-> n, multiplier |-> k]>>).result
           = calculate(id, data, n, k)
BY DEF gen_liste, Failed

LEMMA Calculations ==
  ASSUME NEW data, NEW n, NEW k
  PROVE  /\ calculate("sma", data, n, k) = calculate_sma(data, n)
         /\ calculate("rsi", data, n, k) = calculate_rsi(data, n)
         /\ calculate("bands", data, n, k)
              = calculate_bollinger_bands(data, n, k)
BY DEF calculate

LEMMA AppendTwo ==
  ASSUME NEW a, NEW b
  PROVE  /\ Len(Append(<<a>>, b)) = 2
         /\ Append(<<a>>, b)[1] = a
         /\ Append(<<a>>, b)[2] = b
<1>1. <<a>> \in Seq({a, b}) /\ b \in {a, b} /\ Len(<<a>>) = 1 /\ <<a>>[1] = a
  OBVIOUS
<1> QED
  BY <1>1, AppendProperties

\* What comes after leaves what was there before.
LEMMA PastStays ==
  ASSUME NEW h \in Seq(Prices), NEW x \in Prices, NEW n \in 0..Len(h)
  PROVE  /\ SubSeq(h, 1, n) \in Seq(Prices)
         /\ SubSeq(Append(h, x), 1, n) = SubSeq(h, 1, n)
<1> DEFINE long == Append(h, x)
<1>1. /\ Len(h) \in Nat /\ long \in Seq(Prices)
      /\ \A i \in 1..n : h[i] \in Prices /\ long[i] = h[i] /\ long[i] \in Prices
  OBVIOUS
<1> HIDE DEF long
<1>2. 1 \in Int /\ n \in Int /\ n - 1 + 1 = n /\ \A i \in 1..n : 1 + i - 1 = i
  BY <1>1
<1>3. /\ SubSeq(h, 1, n) \in Seq(Prices)
      /\ Len(SubSeq(h, 1, n)) = IF 1 <= n THEN n - 1 + 1 ELSE 0
      /\ \A i \in 1..(n - 1 + 1) : SubSeq(h, 1, n)[i] = h[1 + i - 1]
  BY <1>1, <1>2, SubSeqProperties
<1>4. /\ SubSeq(long, 1, n) \in Seq(Prices)
      /\ Len(SubSeq(long, 1, n)) = IF 1 <= n THEN n - 1 + 1 ELSE 0
      /\ \A i \in 1..(n - 1 + 1) : SubSeq(long, 1, n)[i] = long[1 + i - 1]
  BY <1>1, <1>2, SubSeqProperties
<1>5. SubSeq(long, 1, n) = SubSeq(h, 1, n)
  BY <1>1, <1>2, <1>3, <1>4, SameElements
<1> QED
  BY <1>3, <1>5 DEF long

LEMMA WholePast ==
  ASSUME NEW h \in Seq(Prices)
  PROVE  SubSeq(h, 1, Len(h)) = h
OBVIOUS

----------------------------------------------------------------------------
(* The inductive invariant.                                                *)

Votes == [by : Nat, signal : SignalSet, seen : Nat]

\* The strategies that have voted are behind the one whose turn it is.
Typed ==
  /\ TypeOK
  /\ votes \in Seq(Votes)
  /\ asked = [prices |-> asked.prices, seen |-> asked.seen,
              answers |-> asked.answers]
  /\ asked.seen \in Nat
  /\ \A i \in DOMAIN votes : votes[i].by < turn

BufferKept == buffer = Kept(feed)

\* A strategy that waits for an answer holds the prices of the moment it read
\* them, and the average it has been told already.
AskedThen ==
  pc = "ask" =>
    /\ asked.prices = Kept(SubSeq(feed, 1, asked.seen))
    /\ Len(asked.prices) >= Needed(Strategy)
    /\ Strategy.kind = "bb" => asked.prices # <<>>
    /\ \/ asked.answers = <<>>
       \/ /\ Strategy.kind = "ma_cross"
          /\ asked.answers = <<calculate_sma(asked.prices, Strategy.short)>>

IInv == Typed /\ BufferKept /\ AskedThen /\ SignalsMatchHistory

\* What a strategy is.
LEMMA StrategyType ==
  ASSUME Typed, turn <= Len(strategies)
  PROVE  /\ Strategy \in Crosses \union Strengths \union Breakouts
         /\ strategies \in Seq(StrategySet) /\ Len(strategies) \in Nat
         /\ turn \in 1..Len(strategies)
<1>1. strategies \in Seq(StrategySet) /\ turn \in 1..Len(strategies)
  BY ConfigsAssumption DEF Typed, TypeOK
<1>2. Strategy \in StrategySet
  BY <1>1 DEF Strategy
<1> QED
  BY <1>1, <1>2 DEF StrategySet, Crosses, Strengths, Breakouts

LEMMA Initially == Init => IInv
<1> SUFFICES ASSUME Init PROVE IInv
  OBVIOUS
<1>1. strategies \in Seq(StrategySet) /\ Len(strategies) \in Nat
  BY ConfigsAssumption DEF Init
<1>2. Typed
  BY <1>1, SizeAssumption, BoundAssumption
     DEF Init, Typed, TypeOK, NothingAsked, SignalSet, Votes
<1>3. BufferKept
  BY SizeAssumption DEF Init, BufferKept, Kept, Latest
<1>4. AskedThen /\ SignalsMatchHistory
  BY DEF Init, AskedThen, SignalsMatchHistory
<1> QED
  BY <1>2, <1>3, <1>4 DEF IInv

\* A vote that is what the history calls for.
LEMMA VoteKeeps ==
  ASSUME IInv, turn <= Len(strategies),
         NEW signal \in SignalSet, NEW seen \in 0..Len(feed),
         Reach(Strategy) <= BufferSize =>
           signal = SignalOf(Strategy, SubSeq(feed, 1, seen)),
         Vote(signal, seen)
  PROVE  IInv'
<1> DEFINE vote == [by |-> turn, signal |-> signal, seen |-> seen]
<1>1. /\ strategies \in Seq(StrategySet) /\ Len(strategies) \in Nat
      /\ turn \in 1..Len(strategies) /\ votes \in Seq(Votes)
      /\ feed \in Seq(Prices) /\ Len(feed) \in Nat
  BY StrategyType DEF IInv, Typed, TypeOK
<1>2. /\ votes' = Append(votes, vote) /\ pc' = "read" /\ turn' = turn + 1
      /\ asked' = NothingAsked
      /\ UNCHANGED <<strategies, feed, buffer, decision>>
  BY DEF Vote, Proceed
<1>3. vote \in Votes
  BY <1>1 DEF Votes
<1> HIDE DEF vote
<1>4. /\ votes' \in Seq(Votes)
      /\ Len(votes) \in Nat /\ DOMAIN votes = 1..Len(votes)
      /\ DOMAIN votes' = 1..(Len(votes) + 1)
      /\ votes'[Len(votes) + 1] = vote
      /\ \A i \in 1..Len(votes) : votes'[i] = votes[i]
  BY <1>1, <1>2, <1>3
<1>5. vote.by = turn /\ vote.signal = signal /\ vote.seen = seen
  BY DEF vote
<1>6. \A i \in DOMAIN votes : votes[i].by < turn /\ votes[i].by \in Nat
  <2>1. \A i \in DOMAIN votes : votes[i] \in Votes
    BY <1>1, <1>4
  <2>2. \A i \in DOMAIN votes : votes[i].by \in Nat
    BY <2>1 DEF Votes
  <2> QED
    BY <2>2 DEF IInv, Typed
<1>7. \A i \in DOMAIN votes' : votes'[i].by < turn'
  BY <1>1, <1>2, <1>4, <1>5, <1>6
<1>8. \A i \in DOMAIN votes' :
        /\ votes'[i].by \in 1..Len(strategies) /\ votes'[i].seen <= Len(feed)
        /\ votes'[i].signal \in SignalSet
        /\ \A j \in DOMAIN votes' : i < j => votes'[i].by < votes'[j].by
  <2>1. \A i \in DOMAIN votes :
          /\ votes[i].by \in 1..Len(strategies) /\ votes[i].seen <= Len(feed)
          /\ votes[i].signal \in SignalSet
          /\ \A j \in DOMAIN votes : i < j => votes[i].by < votes[j].by
    BY DEF IInv, Typed, TypeOK
  <2>2. \A i \in DOMAIN votes' :
          /\ votes'[i].by \in 1..Len(strategies) /\ votes'[i].seen <= Len(feed)
          /\ votes'[i].signal \in SignalSet
    BY <1>1, <1>4, <1>5, <2>1
  <2>3. ASSUME NEW i \in DOMAIN votes', NEW j \in DOMAIN votes', i < j
        PROVE  votes'[i].by < votes'[j].by
    <3>1. i \in DOMAIN votes /\ votes'[i] = votes[i]
      BY <1>4, <2>3
    <3>2. CASE j = Len(votes) + 1
      BY <1>4, <1>5, <1>6, <3>1, <3>2
    <3>3. CASE j \in DOMAIN votes
      BY <1>4, <2>1, <2>3, <3>1, <3>3
    <3> QED
      BY <1>4, <3>2, <3>3
  <2> QED
    BY <2>2, <2>3
<1>9. TypeOK'
  BY <1>1, <1>2, <1>8 DEF IInv, Typed, TypeOK, NothingAsked
<1>10. SignalsMatchHistory'
  <2>1. \A i \in DOMAIN votes :
          Reach(strategies[votes[i].by]) <= BufferSize =>
            votes[i].signal = SignalOf(strategies[votes[i].by],
                                       SubSeq(feed, 1, votes[i].seen))
    BY DEF IInv, SignalsMatchHistory, History
  <2>2. \A i \in DOMAIN votes' :
          Reach(strategies[votes'[i].by]) <= BufferSize =>
            votes'[i].signal = SignalOf(strategies[votes'[i].by],
                                        SubSeq(feed, 1, votes'[i].seen))
    BY <1>4, <1>5, <2>1 DEF Strategy
  <2> QED
    BY <1>2, <2>2 DEF SignalsMatchHistory, History
<1>11. BufferKept' /\ AskedThen'
  BY <1>2 DEF IInv, BufferKept, AskedThen
<1> QED
  BY <1>2, <1>4, <1>7, <1>9, <1>10, <1>11 DEF IInv, Typed, NothingAsked

\* A step that neither hears a price nor votes leaves the votes as they are.
LEMMA VotesStay ==
  ASSUME SignalsMatchHistory, UNCHANGED <<strategies, feed, votes>>
  PROVE  SignalsMatchHistory'
BY DEF SignalsMatchHistory, History

LEMMA HearKeeps ==
  ASSUME IInv, NEW price \in Prices, Hear(price)
  PROVE  IInv'
<1>1. /\ feed \in Seq(Prices) /\ Len(feed) \in Nat /\ buffer = Kept(feed)
      /\ asked.seen \in Nat /\ asked.seen <= Len(feed)
      /\ votes \in Seq(Votes)
  BY DEF IInv, Typed, TypeOK, BufferKept
<1>2. /\ feed' = Append(feed, price) /\ Len(feed) < MaxFeed
      /\ buffer' = AddPrice(buffer, price, BufferSize)
      /\ UNCHANGED <<strategies, pc, turn, asked, votes, decision>>
  BY DEF Hear, trader
<1>3. feed' \in Seq(Prices) /\ Len(feed') = Len(feed) + 1
  BY <1>1, <1>2
<1>4. BufferKept'
  BY <1>1, <1>2, AddKeepsLatest, SizeAssumption DEF BufferKept, Kept
<1>5. \A n \in 0..Len(feed) : SubSeq(feed', 1, n) = SubSeq(feed, 1, n)
  BY <1>1, <1>2, PastStays
<1>6. \A i \in DOMAIN votes : votes[i].seen \in Nat
  <2>1. \A i \in DOMAIN votes : votes[i] \in Votes
    BY <1>1
  <2> QED
    BY <2>1 DEF Votes
<1>7. TypeOK'
  <2>1. buffer' \in Seq(Prices) /\ Len(buffer') <= BufferSize
    BY <1>3, <1>4, KeptType, SizeAssumption DEF BufferKept
  <2>2. Len(feed') <= MaxFeed /\ \A n \in Nat : n <= Len(feed) => n <= Len(feed')
    BY <1>1, <1>2, <1>3, BoundAssumption
  <2> QED
    BY <1>1, <1>2, <1>3, <1>6, <2>1, <2>2 DEF IInv, Typed, TypeOK, Strategy
<1>8. AskedThen'
  <2>1. asked.seen \in 0..Len(feed)
    BY <1>1
  <2>2. SubSeq(feed', 1, asked'.seen) = SubSeq(feed, 1, asked.seen)
    BY <1>2, <1>5, <2>1
  <2> QED
    BY <1>2, <2>2 DEF IInv, AskedThen, Strategy
<1>9. SignalsMatchHistory'
  <2>1. \A i \in DOMAIN votes : votes[i].seen \in 0..Len(feed)
    BY <1>1, <1>6 DEF IInv, Typed, TypeOK
  <2> QED
    BY <1>2, <1>5, <2>1 DEF IInv, SignalsMatchHistory, History
<1> QED
  BY <1>1, <1>2, <1>4, <1>7, <1>8, <1>9 DEF IInv, Typed

LEMMA EvaluateKeeps ==
  ASSUME IInv, Evaluate
  PROVE  IInv'
<1>1. /\ strategies \in Seq(StrategySet) /\ Len(strategies) \in Nat
  BY ConfigsAssumption DEF IInv, Typed, TypeOK
<1> QED
  BY <1>1 DEF IInv, Typed, TypeOK, BufferKept, AskedThen,
       SignalsMatchHistory, Evaluate, SignalSet, Votes

\* A strategy that has too few prices has no signal in the history either.
LEMMA TooFewPricesKeeps ==
  ASSUME IInv, TooFewPrices
  PROVE  IInv'
<1>1. /\ Strategy \in Crosses \union Strengths \union Breakouts
      /\ turn <= Len(strategies)
      /\ feed \in Seq(Prices) /\ buffer = Kept(feed)
      /\ Len(buffer) < Needed(Strategy) /\ Vote("hold", Len(feed))
  BY StrategyType DEF IInv, Typed, TypeOK, BufferKept, TooFewPrices, MyTurn
<1>2. /\ Len(feed) \in Nat /\ Len(buffer) \in Nat
      /\ Len(buffer) = IF Len(feed) <= BufferSize THEN Len(feed) ELSE BufferSize
  BY <1>1, KeptType
<1> DEFINE s == Strategy
<1> HIDE DEF s
<1>3. ASSUME Reach(s) <= BufferSize, Len(buffer) < Needed(s),
             s \in Crosses \union Strengths \union Breakouts
      PROVE  SignalOf(s, feed) = "hold"
  <2>1. CASE s \in Crosses
    <3>1. s.kind = "ma_cross" /\ s.short \in Nat /\ s.long \in Nat
      BY <2>1 DEF Crosses
    <3>2. s.long < BufferSize /\ Len(buffer) < s.long
      BY <1>3, <3>1, SizeAssumption DEF Reach, Needed
    <3>3. Len(feed) <= s.long
      BY <1>2, <3>1, <3>2, SizeAssumption
    <3> QED
      BY <3>1, <3>3 DEF SignalOf, CrossOf
  <2>2. CASE s \in Strengths
    <3>1. s.kind = "rsi" /\ s.period \in Nat
      BY <2>2 DEF Strengths
    <3>2. s.period + 1 <= BufferSize /\ Len(buffer) < s.period + 1
      BY <1>3, <3>1 DEF Reach, Needed
    <3>3. Len(feed) <= s.period
      BY <1>2, <3>1, <3>2, SizeAssumption
    <3> QED
      BY <3>1, <3>3 DEF SignalOf, RsiOf
  <2>3. CASE s \in Breakouts
    <3>1. s.kind = "bb" /\ s.period \in Nat
      BY <2>3 DEF Breakouts
    <3>2. s.period <= BufferSize /\ Len(buffer) < s.period
      BY <1>3, <3>1 DEF Reach, Needed
    <3>3. Len(feed) < s.period
      BY <1>2, <3>1, <3>2, SizeAssumption
    <3> QED
      BY <3>1, <3>3 DEF SignalOf, BreakoutOf
  <2> QED
    BY <1>3, <2>1, <2>2, <2>3
<1>4. Reach(Strategy) <= BufferSize =>
        "hold" = SignalOf(Strategy, SubSeq(feed, 1, Len(feed)))
  BY <1>1, <1>3, WholePast DEF s
<1> QED
  BY <1>1, <1>2, <1>4, VoteKeeps DEF SignalSet

LEMMA ReadPricesKeeps ==
  ASSUME IInv, ReadPrices
  PROVE  IInv'
<1>1. /\ feed \in Seq(Prices) /\ Len(feed) \in Nat /\ buffer = Kept(feed)
      /\ turn <= Len(strategies)
  BY DEF IInv, Typed, TypeOK, BufferKept, ReadPrices, MyTurn
<1>2. /\ asked' = [prices |-> buffer, seen |-> Len(feed), answers |-> <<>>]
      /\ pc' = "ask" /\ Len(buffer) >= Needed(Strategy)
      /\ Strategy.kind = "bb" => buffer # <<>>
      /\ UNCHANGED <<strategies, feed, buffer, turn, votes, decision>>
  BY DEF ReadPrices
<1>3. AskedThen'
  BY <1>1, <1>2, WholePast DEF AskedThen, Strategy
<1>4. ~Complete(Strategy, <<>>)
  BY DEF Complete
<1>5. Typed'
  BY <1>1, <1>2, <1>4 DEF IInv, Typed, TypeOK, Strategy
<1>6. BufferKept' /\ SignalsMatchHistory'
  BY <1>2, VotesStay DEF IInv, BufferKept
<1> QED
  BY <1>3, <1>5, <1>6 DEF IInv

LEMMA PanicKeeps ==
  ASSUME IInv, Panic
  PROVE  IInv'
<1>1. pc' = "panicked"
      /\ UNCHANGED <<strategies, feed, buffer, turn, asked, votes, decision>>
  BY DEF Panic
<1>2. Typed' /\ BufferKept' /\ AskedThen'
  BY <1>1 DEF IInv, Typed, TypeOK, BufferKept, AskedThen
<1> QED
  BY <1>1, <1>2, VotesStay DEF IInv

LEMMA CallFailsKeeps ==
  ASSUME IInv, CallFails
  PROVE  IInv'
<1>1. /\ pc = "ask" /\ pc' = "read" /\ turn' = turn + 1 /\ asked' = NothingAsked
      /\ UNCHANGED <<strategies, feed, buffer, votes, decision>>
  BY DEF CallFails, Proceed
<1>2. /\ Len(strategies) \in Nat /\ turn \in 1..Len(strategies)
      /\ votes \in Seq(Votes)
  BY <1>1, StrategyType DEF IInv, Typed, TypeOK
<1>3. \A i \in DOMAIN votes : votes[i].by \in Nat
  <2>1. \A i \in DOMAIN votes : votes[i] \in Votes
    BY <1>2
  <2> QED
    BY <2>1 DEF Votes
<1>4. Typed'
  BY <1>1, <1>2, <1>3 DEF IInv, Typed, TypeOK, NothingAsked
<1>5. BufferKept' /\ AskedThen' /\ SignalsMatchHistory'
  BY <1>1, VotesStay DEF IInv, BufferKept, AskedThen
<1> QED
  BY <1>4, <1>5 DEF IInv

LEMMA DecideKeeps ==
  ASSUME IInv, Decide
  PROVE  IInv'
<1>1. /\ pc' = "idle"
      /\ decision' = IF buffer = <<>> THEN "none" ELSE aggregate(votes)
      /\ UNCHANGED <<strategies, feed, buffer, turn, asked, votes>>
  BY DEF Decide
<1>2. aggregate(votes) \in SignalSet
  BY DEF aggregate, SignalSet
<1>3. Typed'
  BY <1>1, <1>2 DEF IInv, Typed, TypeOK
<1>4. BufferKept' /\ AskedThen' /\ SignalsMatchHistory'
  BY <1>1, VotesStay DEF IInv, BufferKept, AskedThen
<1> QED
  BY <1>3, <1>4 DEF IInv

\* The answer completes what the strategy asked for, and its signal is the one
\* the prices call for that it had read; or it is the first of two averages.
LEMMA AnsweredKeeps ==
  ASSUME IInv, Answered
  PROVE  IInv'
<1> DEFINE s == Strategy
           h == SubSeq(feed, 1, asked.seen)
           p == asked.prices
           answers == Append(asked.answers, Reply.result)
           request == Request(s, asked.answers)
<1>1. pc = "ask" /\ Reply.ok /\ pc # "read"
  BY DEF Answered
<1>2. turn <= Len(strategies) /\ ~Complete(s, asked.answers)
  BY <1>1 DEF IInv, Typed, TypeOK
<1>3. s \in Crosses \union Strengths \union Breakouts
  BY <1>2, StrategyType DEF IInv
<1>4. /\ feed \in Seq(Prices) /\ Len(feed) \in Nat
      /\ asked.seen \in 0..Len(feed) /\ h \in Seq(Prices)
  BY PastStays DEF IInv, Typed, TypeOK
<1>5. /\ p = Kept(h) /\ Len(p) >= Needed(s) /\ (s.kind = "bb" => p # <<>>)
      /\ \/ asked.answers = <<>>
         \/ /\ s.kind = "ma_cross"
            /\ asked.answers = <<calculate_sma(p, s.short)>>
  BY <1>1 DEF IInv, AskedThen
<1>6. Reply.result = calculate(request.id, p, request.period, request.multiplier)
  BY <1>1, ServiceAnswers DEF Reply
<1>7. IF Complete(s, answers)
        THEN Vote(Detect(s, p, answers), asked.seen)
        ELSE /\ asked' = [asked EXCEPT !.answers = answers]
             /\ UNCHANGED <<strategies, feed, buffer, pc, turn, votes, decision>>
  BY DEF Answered
<1>8. ASSUME Complete(s, answers), Detect(s, p, answers) \in SignalSet,
             Reach(s) <= BufferSize => Detect(s, p, answers) = SignalOf(s, h)
      PROVE  IInv'
  BY <1>2, <1>4, <1>7, <1>8, VoteKeeps
<1>9. CASE s \in Crosses
  <2>1. s.kind = "ma_cross"
    BY <1>9 DEF Crosses
  <2>2. CASE asked.answers = <<>>
    <3>1. request.id = "sma" /\ request.period = s.short
      BY <2>1, <2>2 DEF Request
    <3>2. answers = <<calculate_sma(p, s.short)>>
      BY <1>6, <2>2, <3>1, Calculations
    <3>3. ~Complete(s, answers)
      BY <2>1, <3>2 DEF Complete
    <3>4. /\ asked' = [asked EXCEPT !.answers = answers]
          /\ UNCHANGED <<strategies, feed, buffer, pc, turn, votes, decision>>
      BY <1>7, <3>3
    <3>5. BufferKept' /\ SignalsMatchHistory'
      BY <3>4, VotesStay DEF IInv, BufferKept
    <3>6. /\ asked'.prices = p /\ asked'.seen = asked.seen
          /\ asked'.answers = <<calculate_sma(p, s.short)>>
      BY <1>1, <3>2, <3>4 DEF IInv, Typed
    <3>7. Typed'
      BY <1>2, <3>3, <3>4, <3>6 DEF IInv, Typed, TypeOK, Strategy
    <3>8. AskedThen'
      BY <1>5, <2>1, <3>4, <3>6 DEF AskedThen, Strategy
    <3> QED
      BY <3>5, <3>7, <3>8 DEF IInv
  <2>3. CASE asked.answers = <<calculate_sma(p, s.short)>>
    <3>1. request.id = "sma" /\ request.period = s.long
      BY <2>1, <2>3 DEF Request
    <3>2. /\ Len(answers) = 2
          /\ answers[1] = calculate_sma(p, s.short)
          /\ answers[2] = calculate_sma(p, s.long)
      BY <1>6, <2>3, <3>1, Calculations, AppendTwo
    <3>3. Complete(s, answers)
      BY <2>1, <3>2 DEF Complete
    <3>4. Detect(s, p, answers)
            = detect_ma_cross(calculate_sma(p, s.short), calculate_sma(p, s.long))
      BY <2>1, <3>2 DEF Detect
    <3>5. Detect(s, p, answers) \in SignalSet
      BY <3>4 DEF detect_ma_cross, SignalSet
    <3>6. Reach(s) <= BufferSize => Detect(s, p, answers) = SignalOf(s, h)
      BY <1>4, <1>5, <1>9, <2>1, <3>4, CrossSignal DEF SignalOf
    <3> QED
      BY <1>8, <3>3, <3>5, <3>6
  <2> QED
    BY <1>5, <2>2, <2>3
<1>10. CASE s \in Strengths
  <2>1. s.kind = "rsi" /\ asked.answers = <<>>
    BY <1>5, <1>10 DEF Strengths
  <2>2. request.id = "rsi" /\ request.period = s.period
    BY <2>1 DEF Request
  <2>3. answers = <<calculate_rsi(p, s.period)>>
    BY <1>6, <2>1, <2>2, Calculations
  <2>4. Complete(s, answers)
    BY <2>1, <2>3 DEF Complete
  <2>5. Detect(s, p, answers)
          = detect_rsi_signal(calculate_rsi(p, s.period), s.oversold, s.overbought)
    BY <2>1, <2>3 DEF Detect
  <2>6. Detect(s, p, answers) \in SignalSet
    BY <2>5 DEF detect_rsi_signal, SignalSet
  <2>7. Reach(s) <= BufferSize => Detect(s, p, answers) = SignalOf(s, h)
    BY <1>4, <1>5, <1>10, <2>1, <2>5, RsiSignal DEF SignalOf
  <2> QED
    BY <1>8, <2>4, <2>6, <2>7
<1>11. CASE s \in Breakouts
  <2>1. s.kind = "bb" /\ asked.answers = <<>>
    BY <1>5, <1>11 DEF Breakouts
  <2>2. /\ request.id = "bands" /\ request.period = s.period
        /\ request.multiplier = s.multiplier
    BY <2>1 DEF Request
  <2>3. answers = <<calculate_bollinger_bands(p, s.period, s.multiplier)>>
    BY <1>6, <2>1, <2>2, Calculations
  <2>4. Complete(s, answers)
    BY <2>1, <2>3 DEF Complete
  <2>5. Detect(s, p, answers)
          = detect_bb_breakout(Last(p),
              calculate_bollinger_bands(p, s.period, s.multiplier))
    BY <2>1, <2>3 DEF Detect
  <2>6. Detect(s, p, answers) \in SignalSet
    BY <2>5 DEF detect_bb_breakout, SignalSet
  <2>7. Reach(s) <= BufferSize => Detect(s, p, answers) = SignalOf(s, h)
    BY <1>4, <1>5, <1>11, <2>1, <2>5, BreakoutSignal DEF SignalOf
  <2> QED
    BY <1>8, <2>4, <2>6, <2>7
<1> QED
  BY <1>3, <1>9, <1>10, <1>11

LEMMA Inductive == IInv /\ [Next]_vars => IInv'
<1> SUFFICES ASSUME IInv, [Next]_vars PROVE IInv'
  OBVIOUS
<1>1. ASSUME NEW price \in Prices, Hear(price) PROVE IInv'
  BY <1>1, HearKeeps
<1>2. CASE Evaluate
  BY <1>2, EvaluateKeeps
<1>3. CASE TooFewPrices
  BY <1>3, TooFewPricesKeeps
<1>4. CASE ReadPrices
  BY <1>4, ReadPricesKeeps
<1>5. CASE Panic
  BY <1>5, PanicKeeps
<1>6. CASE Answered
  BY <1>6, AnsweredKeeps
<1>7. CASE CallFails
  BY <1>7, CallFailsKeeps
<1>8. CASE Decide
  BY <1>8, DecideKeeps
<1>9. CASE UNCHANGED vars
  <2>1. UNCHANGED <<strategies, feed, buffer, pc, turn, asked, votes, decision>>
    BY <1>9 DEF vars, trader
  <2>2. Typed' /\ BufferKept' /\ AskedThen'
    BY <2>1 DEF IInv, Typed, TypeOK, BufferKept, AskedThen, Strategy
  <2> QED
    BY <2>1, <2>2, VotesStay DEF IInv
<1> QED
  BY <1>1, <1>2, <1>3, <1>4, <1>5, <1>6, <1>7, <1>8, <1>9 DEF Next

LEMMA Always == Spec => []IInv
<1> QED
  BY Initially, Inductive, PTL DEF Spec

\* A strategy votes at most once, in its turn, on prices that were there,
\* whatever the strategies and the prices are (trading_strategy.rs:197-232).
THEOREM SignalsTypeOK == Spec => []TypeOK
<1>1. IInv => TypeOK
  BY DEF IInv, Typed
<1> QED
  BY <1>1, Always, PTL

\* Every signal is the one the whole history up to the moment of reading calls
\* for, whatever came while the strategy waited, for all strategies, periods,
\* thresholds, prices and buffers that hold what the signal reaches back to
\* (trading_strategy.rs:43-66, 100-111, 137-148, data_buffer.rs:36-47).
THEOREM SignalsFollowHistory == Spec => []SignalsMatchHistory
<1>1. IInv => SignalsMatchHistory
  BY DEF IInv
<1> QED
  BY <1>1, Always, PTL

\* A crossing is never missed when every buffer holds one price more than the
\* longer of the two periods; with the sizes of config/default.toml, where the
\* buffer only holds the long period, it can be (signal_analyzer.rs:15,
\* trading_strategy.rs:43-53, data_buffer.rs:36-47).
THEOREM RoomForCrossings ==
  ASSUME \A configured \in Configs : \A i \in DOMAIN configured :
           configured[i].kind = "ma_cross" => Reach(configured[i]) <= BufferSize
  PROVE  Spec => []GoldenCrossBuys
<1>1. IInv => GoldenCrossBuys
  <2> SUFFICES ASSUME IInv, NEW i \in DOMAIN votes,
                      strategies[votes[i].by].kind = "ma_cross",
                      CrossOf(strategies[votes[i].by], History(votes[i])) = "buy"
               PROVE  votes[i].signal = "buy"
    BY DEF GoldenCrossBuys
  <2> DEFINE s == strategies[votes[i].by]
  <2>1. strategies \in Configs /\ votes[i].by \in DOMAIN strategies
    <3>1. strategies \in Configs /\ votes[i].by \in 1..Len(strategies)
      BY DEF IInv, Typed, TypeOK
    <3>2. strategies \in Seq(StrategySet)
      BY <3>1, ConfigsAssumption
    <3> QED
      BY <3>1, <3>2
  <2>2. Reach(s) <= BufferSize
    BY <2>1
  <2>3. votes[i].signal = SignalOf(s, History(votes[i]))
    BY <2>2 DEF IInv, SignalsMatchHistory
  <2>4. SignalOf(s, History(votes[i])) = CrossOf(s, History(votes[i]))
    BY DEF SignalOf
  <2> QED
    BY <2>3, <2>4
<1> QED
  BY <1>1, Always, PTL

----------------------------------------------------------------------------
(* The weights of the votes.                                               *)

Given(signal, vote) ==
  IF vote.signal = signal THEN strategies[vote.by].weight ELSE 0

Ballots ==
  {ballots \in Seq(Votes) :
     \A i \in 1..Len(ballots) : ballots[i].by \in 1..Len(strategies)}

LEMMA GivenType ==
  ASSUME strategies \in Seq(StrategySet), NEW signal,
         NEW vote \in Votes, vote.by \in 1..Len(strategies)
  PROVE  Given(signal, vote) \in Nat
<1>1. strategies[vote.by] \in StrategySet
  OBVIOUS
<1>2. \A s \in StrategySet : s.weight \in Nat
  BY DEF StrategySet
<1> QED
  BY <1>1, <1>2 DEF Given

\* One more vote adds its weight to its signal.
LEMMA WeightOfMore ==
  ASSUME strategies \in Seq(StrategySet), NEW signal, NEW ballots \in Ballots,
         NEW vote \in Votes, vote.by \in 1..Len(strategies)
  PROVE  /\ Append(ballots, vote) \in Ballots
         /\ Weight(signal, ballots) \in Int
         /\ Weight(signal, Append(ballots, vote))
              = Weight(signal, ballots) + Given(signal, vote)
<1> DEFINE n == Len(ballots)
           long == Append(ballots, vote)
           given == [i \in 1..n |-> Given(signal, ballots[i])]
           more == [i \in 1..(n + 1) |-> Given(signal, long[i])]
<1>1. /\ ballots \in Seq(Votes) /\ n \in Nat /\ DOMAIN ballots = 1..n
      /\ \A i \in 1..n : ballots[i] \in Votes /\ ballots[i].by \in 1..Len(strategies)
  BY DEF Ballots
<1>2. /\ long \in Seq(Votes) /\ Len(long) = n + 1 /\ DOMAIN long = 1..(n + 1)
      /\ long[n + 1] = vote /\ \A i \in 1..n : long[i] = ballots[i]
  BY <1>1
<1>3. Weight(signal, ballots) = Sum(given) /\ Weight(signal, long) = Sum(more)
  <2> HIDE DEF long, n
  <2> QED
    BY <1>1, <1>2 DEF Weight, Each, Given
<1> HIDE DEF long, n
<1>4. \A i \in 1..(n + 1) : i = n + 1 \/ i \in 1..n
  BY <1>1
<1>5. long \in Ballots
  BY <1>1, <1>2, <1>4 DEF Ballots
<1>6. given \in [1..n -> Int]
  BY <1>1, GivenType
<1>7. given \in Seq(Int) /\ Len(given) = n /\ Given(signal, vote) \in Int
  <2> HIDE DEF given
  <2>1. given \in Seq(Int) /\ Len(given) = n
    BY <1>1, <1>6
  <2> QED
    BY <2>1, GivenType
<1>8. Append(given, Given(signal, vote)) = more
  <2> DEFINE last == Given(signal, vote)
  <2>1. \A i \in 1..n : given[i] = more[i]
    BY <1>1, <1>2
  <2>2. more[n + 1] = last /\ DOMAIN more = 1..(n + 1) /\ Len(more) = n + 1
    BY <1>1, <1>2
  <2>3. more \in Seq(Int)
    <3>1. \A i \in 1..(n + 1) : more[i] \in Int
      BY <1>1, <1>4, <1>6, <1>7, <2>1, <2>2
    <3>2. more \in [1..(n + 1) -> Int]
      BY <3>1
    <3> QED
      BY <1>1, <3>2
  <2> HIDE DEF given, more, last
  <2>4. /\ Append(given, last) \in Seq(Int) /\ Len(Append(given, last)) = n + 1
        /\ Append(given, last)[n + 1] = last
        /\ \A i \in 1..n : Append(given, last)[i] = given[i]
    BY <1>7 DEF last
  <2>5. \A i \in 1..(n + 1) : Append(given, last)[i] = more[i]
    BY <1>4, <2>1, <2>2, <2>4
  <2> QED
    BY <2>2, <2>3, <2>4, <2>5, SameElements DEF last
<1>9. Sum(given) \in Int /\ Sum(more) = Sum(given) + Given(signal, vote)
  <2> HIDE DEF given, more
  <2> QED
    BY <1>7, <1>8, SumOfLonger
<1> QED
  BY <1>3, <1>5, <1>9 DEF long

LEMMA WeightOfNone == ASSUME NEW signal PROVE Weight(signal, <<>>) = 0
<1>1. \A f : DOMAIN f = {} /\ f = [i \in {} |-> f[i]] => f = <<>>
  OBVIOUS
<1> QED
  BY <1>1, SumOfNothing DEF Weight, Each

----------------------------------------------------------------------------
(* The decision.                                                           *)

\* While a decision stands, it is what the aggregator makes of the votes.
DecisionStands ==
  decision # "none" => pc = "idle" /\ decision = aggregate(votes)

LEMMA DecisionInitially == Init => DecisionStands
BY DEF Init, DecisionStands

LEMMA AggregateStays ==
  ASSUME UNCHANGED <<strategies, votes>>
  PROVE  aggregate(votes)' = aggregate(votes)
<1>1. ASSUME NEW CONSTANT signal
      PROVE  Weight(signal, votes)' = Weight(signal, votes)
  BY DEF Weight, Each
<1> QED
  BY <1>1 DEF aggregate, Total

LEMMA DecisionKept == DecisionStands /\ [Next]_vars => DecisionStands'
<1> SUFFICES ASSUME DecisionStands, [Next]_vars PROVE DecisionStands'
  OBVIOUS
<1>1. ASSUME UNCHANGED <<strategies, pc, votes, decision>> PROVE DecisionStands'
  BY <1>1, AggregateStays DEF DecisionStands
<1>2. ASSUME pc # "idle", UNCHANGED decision PROVE DecisionStands'
  BY <1>2 DEF DecisionStands
<1>3. ASSUME NEW price \in Prices, Hear(price) PROVE DecisionStands'
  BY <1>1, <1>3 DEF Hear, trader
<1>4. CASE Evaluate
  BY <1>4 DEF Evaluate, DecisionStands
<1>5. CASE TooFewPrices
  BY <1>2, <1>5 DEF TooFewPrices, MyTurn, Vote, Proceed
<1>6. CASE ReadPrices
  BY <1>2, <1>6 DEF ReadPrices, MyTurn
<1>7. CASE Panic
  BY <1>2, <1>7 DEF Panic, MyTurn
<1>8. CASE Answered
  BY <1>2, <1>8 DEF Answered, Vote, Proceed
<1>9. CASE CallFails
  BY <1>2, <1>9 DEF CallFails, Proceed
<1>10. CASE Decide
  BY <1>10, AggregateStays DEF Decide, DecisionStands
<1>11. CASE UNCHANGED vars
  BY <1>1, <1>11 DEF vars, trader
<1> QED
  BY <1>3, <1>4, <1>5, <1>6, <1>7, <1>8, <1>9, <1>10, <1>11 DEF Next

\* With one of three strategies missing there are two votes, of the others.
LEMMA TwoVotes ==
  ASSUME Typed, Len(strategies) = 3, NEW missing \in 1..3,
         Present = (1..3) \ {missing}
  PROVE  /\ Len(votes) = 2 /\ votes[1].by < votes[2].by
         /\ votes[1].by \in (1..3) \ {missing}
         /\ votes[2].by \in (1..3) \ {missing}
<1>1. /\ votes \in Seq(Votes) /\ Len(votes) \in Nat /\ DOMAIN votes = 1..Len(votes)
      /\ \A i \in 1..Len(votes) : votes[i].by \in 1..3
      /\ \A i, j \in 1..Len(votes) : i < j => votes[i].by < votes[j].by
  BY DEF Typed, TypeOK
<1>2. \A i \in 1..Len(votes) : votes[i].by \in Present
  BY <1>1 DEF Present
<1>3. ASSUME Len(votes) >= 3 PROVE FALSE
  <2>1. 1 \in 1..Len(votes) /\ 2 \in 1..Len(votes) /\ 3 \in 1..Len(votes)
    BY <1>1, <1>3
  <2>2. votes[1].by < votes[2].by /\ votes[2].by < votes[3].by
    BY <1>1, <2>1
  <2>3. votes[1].by = 1 /\ votes[2].by = 2 /\ votes[3].by = 3
    BY <1>1, <2>1, <2>2
  <2> QED
    BY <1>2, <2>1, <2>3
<1>4. ASSUME Len(votes) <= 1 PROVE FALSE
  <2>1. PICK a \in Present, b \in Present : a # b
    <3>1. CASE missing = 1
      BY <3>1
    <3>2. CASE missing # 1
      <4>1. 1 \in Present /\ (2 \in Present \/ 3 \in Present)
        BY <3>2
      <4> QED
        BY <4>1
    <3> QED
      BY <3>1, <3>2
  <2>2. \A i \in DOMAIN votes : i = 1
    BY <1>1, <1>4
  <2> QED
    BY <2>1, <2>2 DEF Present
<1>5. Len(votes) = 2
  BY <1>1, <1>3, <1>4
<1>6. 1 \in 1..Len(votes) /\ 2 \in 1..Len(votes)
  BY <1>5
<1> QED
  BY <1>1, <1>2, <1>5, <1>6

Decision(buy, sell, total) ==
  IF total = 0 THEN "hold"
  ELSE IF 10 * buy >= BuyThreshold * total /\ buy > sell THEN "buy"
  ELSE IF 10 * sell >= SellThreshold * total /\ sell > buy THEN "sell"
  ELSE "hold"

If(signal, wanted, weight) == IF signal = wanted THEN weight ELSE 0

\* Two of the default weights reach the threshold only together, and then also
\* against the third.
LEMMA TogetherOnly ==
  ASSUME BuyThreshold = 6, SellThreshold = 6,
         NEW x, NEW y, NEW z,
         (x = 3 /\ y = 3 /\ z = 4) \/ (x = 4 /\ y = 3 /\ z = 3),
         NEW a \in SignalSet, NEW b \in SignalSet, NEW c \in SignalSet,
         Decision(If(a, "buy", x) + If(b, "buy", y),
                  If(a, "sell", x) + If(b, "sell", y), x + y) \in {"buy", "sell"}
  PROVE  Decision(If(a, "buy", x) + If(b, "buy", y),
                  If(a, "sell", x) + If(b, "sell", y), x + y)
           = Decision(If(a, "buy", x) + If(b, "buy", y) + If(c, "buy", z),
                      If(a, "sell", x) + If(b, "sell", y) + If(c, "sell", z),
                      x + y + z)
<1>1. CASE x = 3 /\ y = 3 /\ z = 4
  BY <1>1 DEF Decision, If, SignalSet
<1>2. CASE x = 4 /\ y = 3 /\ z = 3
  BY <1>2 DEF Decision, If, SignalSet
<1> QED
  BY <1>1, <1>2

\* What the aggregator decides, in terms of the weights given.
LEMMA DecisionIs ==
  ASSUME NEW ballots
  PROVE  aggregate(ballots) = Decision(Weight("buy", ballots), Weight("sell", ballots),
                                       Total(ballots))
BY DEF aggregate, Decision

\* All of a vote's weight goes to its signal.
LEMMA OnlyOneSignal ==
  ASSUME NEW a \in SignalSet, NEW x \in Int
  PROVE  If(a, "buy", x) + If(a, "sell", x) + If(a, "hold", x) = x
BY DEF If, SignalSet

LEMMA OneFailure ==
  ASSUME BuyThreshold = 6, SellThreshold = 6, Typed, DecisionStands
  PROVE  OneFailureCausesNoTrade
<1>1. SUFFICES ASSUME DefaultWeights, decision \in {"buy", "sell"},
                      NEW missing \in DOMAIN strategies \ Present,
                      Present = DOMAIN strategies \ {missing},
                      NEW c \in SignalSet
               PROVE  aggregate(Append(votes, [by |-> missing, signal |-> c, seen |-> 0]))
                        = decision
  BY DEF OneFailureCausesNoTrade
<1>2. strategies \in Seq(StrategySet)
  BY ConfigsAssumption DEF Typed, TypeOK
<1>3. /\ DOMAIN strategies = 1..3 /\ Len(strategies) = 3
      /\ strategies[1].weight = 4 /\ strategies[2].weight = 3
      /\ strategies[3].weight = 3
  <2>1. [i \in DOMAIN strategies |-> strategies[i].weight] = <<4, 3, 3>>
    BY <1>1 DEF DefaultWeights
  <2>2. DOMAIN <<4, 3, 3>> = 1..3
    OBVIOUS
  <2>3. DOMAIN strategies = 1..3
    BY <2>1, <2>2
  <2> QED
    BY <1>2, <2>1, <2>3
<1> DEFINE v == votes[1]
           u == votes[2]
           w == [by |-> missing, signal |-> c, seen |-> 0]
           x == strategies[v.by].weight
           y == strategies[u.by].weight
           z == strategies[missing].weight
<1>4. /\ missing \in 1..3 /\ Len(votes) = 2 /\ v.by < u.by
      /\ v.by \in (1..3) \ {missing} /\ u.by \in (1..3) \ {missing}
  BY <1>1, <1>3, TwoVotes
<1>5. (x = 3 /\ y = 3 /\ z = 4) \/ (x = 4 /\ y = 3 /\ z = 3)
  <2>1. \/ missing = 1 /\ v.by = 2 /\ u.by = 3
        \/ missing = 2 /\ v.by = 1 /\ u.by = 3
        \/ missing = 3 /\ v.by = 1 /\ u.by = 2
    BY <1>4
  <2> QED
    BY <1>3, <2>1
<1>6. /\ v \in Votes /\ u \in Votes /\ w \in Votes
      /\ v.by \in 1..Len(strategies) /\ u.by \in 1..Len(strategies)
      /\ w.by \in 1..Len(strategies) /\ w.by = missing /\ w.signal = c
      /\ v.signal \in SignalSet /\ u.signal \in SignalSet
  <2>1. 1 \in 1..Len(votes) /\ 2 \in 1..Len(votes)
    BY <1>4
  <2>2. v \in Votes /\ u \in Votes
    BY <2>1 DEF Typed
  <2>3. w \in Votes /\ w.by = missing /\ w.signal = c
    BY <1>4 DEF Votes
  <2> QED
    BY <1>3, <1>4, <2>2, <2>3 DEF Votes
<1>7. votes = Append(Append(<<>>, v), u) /\ <<>> \in Ballots
  <2>1. votes \in Seq(Votes)
    BY DEF Typed
  <2> DEFINE two == Append(Append(<<>>, v), u)
  <2>2. two \in Seq(Votes) /\ Len(two) = 2 /\ two[1] = v /\ two[2] = u
    <3> HIDE DEF v, u
    <3> QED
      BY <1>6
  <2>3. two = votes
    <3> HIDE DEF two
    <3>1. \A i \in 1..Len(votes) : two[i] = votes[i]
      BY <1>4, <2>2
    <3> QED
      BY <1>4, <2>1, <2>2, <3>1, SameElements
  <2>4. <<>> \in Ballots
    BY DEF Ballots
  <2> QED
    BY <2>3, <2>4
<1> DEFINE all == Append(votes, w)
<1> HIDE DEF v, u, w, x, y, z
<1>8. ASSUME NEW s
      PROVE  /\ Weight(s, votes) = If(v.signal, s, x) + If(u.signal, s, y)
             /\ Weight(s, all) = If(v.signal, s, x) + If(u.signal, s, y) + If(c, s, z)
  <2> DEFINE one == Append(<<>>, v)
             two == Append(one, u)
  <2>1. one \in Ballots /\ Weight(s, one) = 0 + Given(s, v)
    <3>1. <<>> \in Ballots /\ Weight(s, <<>>) = 0
      BY <1>7, WeightOfNone
    <3>2. one \in Ballots /\ Weight(s, one) = Weight(s, <<>>) + Given(s, v)
      BY <1>2, <1>6, <3>1, WeightOfMore
    <3> QED
      BY <3>1, <3>2
  <2> HIDE DEF one
  <2>2. two \in Ballots /\ Weight(s, two) = Weight(s, one) + Given(s, u)
    BY <1>2, <1>6, <2>1, WeightOfMore
  <2>3. two = votes
    BY <1>7 DEF one
  <2> HIDE DEF two
  <2>4. Weight(s, all) = Weight(s, votes) + Given(s, w)
    BY <1>2, <1>6, <2>2, <2>3, WeightOfMore
  <2>5. /\ Given(s, v) = If(v.signal, s, x) /\ Given(s, u) = If(u.signal, s, y)
        /\ Given(s, w) = If(c, s, z) /\ Given(s, v) \in Int
    BY <1>2, <1>6, GivenType DEF Given, If, x, y, z
  <2> QED
    BY <2>1, <2>2, <2>3, <2>4, <2>5
<1>9. Total(votes) = x + y /\ Total(all) = x + y + z
  <2>1. x \in Int /\ y \in Int /\ z \in Int
    BY <1>5
  <2>2. \A a \in SignalSet, k \in Int :
          /\ If(a, "buy", k) \in Int /\ If(a, "sell", k) \in Int
          /\ If(a, "hold", k) \in Int
          /\ If(a, "buy", k) + If(a, "sell", k) + If(a, "hold", k) = k
    BY OnlyOneSignal DEF If
  <2> HIDE DEF all
  <2>3. /\ If(v.signal, "buy", x) \in Int /\ If(v.signal, "sell", x) \in Int
        /\ If(v.signal, "hold", x) \in Int
        /\ If(v.signal, "buy", x) + If(v.signal, "sell", x) + If(v.signal, "hold", x) = x
    BY <1>6, <2>1, <2>2
  <2>4. /\ If(u.signal, "buy", y) \in Int /\ If(u.signal, "sell", y) \in Int
        /\ If(u.signal, "hold", y) \in Int
        /\ If(u.signal, "buy", y) + If(u.signal, "sell", y) + If(u.signal, "hold", y) = y
    BY <1>6, <2>1, <2>2
  <2>5. /\ If(c, "buy", z) \in Int /\ If(c, "sell", z) \in Int /\ If(c, "hold", z) \in Int
        /\ If(c, "buy", z) + If(c, "sell", z) + If(c, "hold", z) = z
    BY <1>1, <2>1, <2>2
  <2>6. Total(votes) = x + y
    BY <1>8, <2>1, <2>3, <2>4 DEF Total
  <2>7. Total(all) = x + y + z
    BY <1>8, <2>1, <2>3, <2>4, <2>5 DEF Total
  <2> QED
    BY <2>6, <2>7
<1>10. /\ aggregate(votes)
            = Decision(If(v.signal, "buy", x) + If(u.signal, "buy", y),
                       If(v.signal, "sell", x) + If(u.signal, "sell", y), x + y)
       /\ aggregate(all)
            = Decision(If(v.signal, "buy", x) + If(u.signal, "buy", y) + If(c, "buy", z),
                       If(v.signal, "sell", x) + If(u.signal, "sell", y) + If(c, "sell", z),
                       x + y + z)
  BY <1>8, <1>9, DecisionIs
<1>11. decision = aggregate(votes)
  BY <1>1 DEF DecisionStands
<1>12. aggregate(all) = decision
  <2> DEFINE a == v.signal
             b == u.signal
  <2>1. a \in SignalSet /\ b \in SignalSet /\ c \in SignalSet
    BY <1>1, <1>6
  <2>2. Decision(If(a, "buy", x) + If(b, "buy", y),
                 If(a, "sell", x) + If(b, "sell", y), x + y) \in {"buy", "sell"}
    BY <1>1, <1>10, <1>11
  <2> HIDE DEF a, b
  <2>3. Decision(If(a, "buy", x) + If(b, "buy", y),
                 If(a, "sell", x) + If(b, "sell", y), x + y)
          = Decision(If(a, "buy", x) + If(b, "buy", y) + If(c, "buy", z),
                     If(a, "sell", x) + If(b, "sell", y) + If(c, "sell", z),
                     x + y + z)
    BY <1>5, <2>1, <2>2, TogetherOnly
  <2> QED
    BY <1>10, <1>11, <2>3 DEF a, b
<1> QED
  BY <1>12 DEF w

----------------------------------------------------------------------------
\* With the default weights and thresholds one failure alone never causes a
\* trade, whatever the strategies, the prices and the missing signal were
\* (trading_strategy.rs:223-231, signal_aggregator.rs:39-63, config/default.toml).
THEOREM OneFailureIsHarmless ==
  ASSUME BuyThreshold = 6, SellThreshold = 6
  PROVE  Spec => []OneFailureCausesNoTrade
<1>1. IInv /\ DecisionStands => OneFailureCausesNoTrade
  BY OneFailure DEF IInv
<1>2. Spec => []DecisionStands
  BY DecisionInitially, DecisionKept, PTL DEF Spec
<1> QED
  BY <1>1, <1>2, Always, PTL

\* The eleven indicators of everything the market has sent are what their
\* definitions say, over every period there are prices for, and within the bounds
\* they set each other: for all prices, in any number (indicator_server.rs:83-292).
THEOREM IndicatorsOfAnyFeedAgree == Spec => []IndicatorsAgree
<1>1. ASSUME IInv PROVE IndicatorsAgree
  <2>1. SUFFICES ASSUME feed # <<>> PROVE AgreeOn(feed, 2)
    BY DEF IndicatorsAgree
  <2>2. feed \in Seq(Prices)
    BY <1>1 DEF IInv, Typed, TypeOK
  <2>3. feed \in Seq(Positive) /\ Len(feed) > 0
    <3>1. Prices \subseteq Positive
      BY PricesAssumption DEF Positive
    <3>2. feed \in Seq(Positive)
      BY <2>2, <3>1
    <3>3. Len(feed) > 0
      BY <2>1, <2>2
    <3> QED
      BY <3>2, <3>3
  <2>4. 2 \in Nat
    OBVIOUS
  <2> QED
    BY <2>3, <2>4, EveryListAgrees
<1> QED
  BY <1>1, Always, PTL

============================================================================
