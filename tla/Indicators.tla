----------------------------- MODULE Indicators -----------------------------
(***************************************************************************)
(* The indicator service (src/src/indicator_server.rs): what gen_liste     *)
(* answers to a list of prices.                                            *)
(*                                                                         *)
(* Prices are positive integers and every value computed from them is a    *)
(* ratio of integers, so nothing is rounded; of a standard deviation the   *)
(* square, the variance, is kept.  A set of bands is its middle and the    *)
(* square of its distance from the middle.                                 *)
(***************************************************************************)
EXTENDS Integers, Sequences, SequencesExt

Ratio(num, den) == [num |-> num, den |-> den]

\* a > b, for ratios with positive denominators
Above(a, b) == a.num * b.den > b.num * a.den

Add(a, b) == a + b
Sum(seq) == FoldLeft(Add, 0, seq)

Abs(x) == IF x < 0 THEN -x ELSE x

Square(x) == x * x

Each(F(_), seq) == [i \in DOMAIN seq |-> F(seq[i])]

\* slice::windows, of a positive size.
Windows(data, size) ==
  [i \in 1..(Len(data) - size + 1) |-> SubSeq(data, i, i + size - 1)]

----------------------------------------------------------------------------
Mean(window) == Ratio(Sum(window), Len(window))

Variance(window) ==
  LET n == Len(window)
      Apart(x) == Square(n * x - Sum(window))
  IN  Ratio(Sum(Each(Apart, window)), n * n * n)

Deviation(window) ==
  LET n == Len(window)
      Apart(x) == Abs(n * x - Sum(window))
  IN  Ratio(Sum(Each(Apart, window)), n * n)

Bands(window, multiplier) ==
  LET variance == Variance(window)
  IN  [middle |-> Mean(window),
       spread |-> Ratio(Square(multiplier) * variance.num, variance.den)]

Largest(window) == FoldLeft(LAMBDA a, b : IF b > a THEN b ELSE a, 0, window)

\* The fold starts from infinity: from the first price is the same.
Smallest(window) ==
  FoldLeft(LAMBDA a, b : IF b < a THEN b ELSE a, Head(window), window)

\* The window holds one price more than the period.
Change(window) == Ratio((Last(window) - Head(window)) * 100, Head(window))

Gains(window) ==
  [i \in 1..(Len(window) - 1) |->
    IF window[i + 1] > window[i] THEN window[i + 1] - window[i] ELSE 0]

Losses(window) ==
  [i \in 1..(Len(window) - 1) |->
    IF window[i + 1] > window[i] THEN 0 ELSE window[i] - window[i + 1]]

\* The relative strength is 100 where there is no loss to divide by.
Strength(window) ==
  LET gain == Sum(Gains(window))
      loss == Sum(Losses(window))
  IN  IF loss = 0 THEN Ratio(10000, 101) ELSE Ratio(100 * gain, gain + loss)

----------------------------------------------------------------------------
calculate_sma(data, period) ==
  IF period = 0 THEN <<>> ELSE Each(Mean, Windows(data, period))

\* One average follows the other: 2/(period + 1) of the way to the new price.
calculate_ema(data, period) ==
  LET Follow(averages, price) ==
        LET last == Last(averages)
        IN  Append(averages,
              Ratio(2 * price * last.den + (period - 1) * last.num,
                    (period + 1) * last.den))
  IN  IF period = 0 THEN <<>>
      ELSE FoldLeft(Follow, <<Mean(SubSeq(data, 1, period))>>,
                    SubSeq(data, period + 1, Len(data)))

calculate_rsi(data, period) ==
  IF period = 0 THEN <<>> ELSE Each(Strength, Windows(data, period + 1))

calculate_bollinger_bands(data, period, multiplier) ==
  LET BandsOf(window) == Bands(window, multiplier)
  IN  IF period = 0 THEN <<>> ELSE Each(BandsOf, Windows(data, period))

calculate_maximum(data, period) == Each(Largest, Windows(data, period))
calculate_minimum(data, period) == Each(Smallest, Windows(data, period))
calculate_std_dev(data, period) == Each(Variance, Windows(data, period))
calculate_mad(data, period) == Each(Deviation, Windows(data, period))

calculate_roc(data, period) == Each(Change, Windows(data, period + 1))

\* Mutated form of calculate_max_drawdown: the peak is the price before.
calculate_max_drawdown_of_one_step(data) ==
  LET Step(at, price) ==
        LET drawdown == Ratio((at.peak - price) * 100, at.peak)
        IN  [peak |-> price,
             worst |-> IF Above(drawdown, at.worst) THEN drawdown ELSE at.worst]
  IN  <<FoldLeft(Step, [peak |-> data[1], worst |-> Ratio(0, 1)], data).worst>>

calculate_max_drawdown(data) ==
  LET Step(at, price) ==
        LET peak == IF price > at.peak THEN price ELSE at.peak
            drawdown == Ratio((peak - price) * 100, peak)
        IN  [peak |-> peak,
             worst |-> IF Above(drawdown, at.worst) THEN drawdown ELSE at.worst]
  IN  <<FoldLeft(Step, [peak |-> data[1], worst |-> Ratio(0, 1)], data).worst>>

calculate_max_drawup(data) ==
  LET Step(at, price) ==
        LET low == IF price < at.low THEN price ELSE at.low
            drawup == Ratio((price - low) * 100, low)
        IN  [low |-> low,
             best |-> IF Above(drawup, at.best) THEN drawup ELSE at.best]
  IN  <<FoldLeft(Step, [low |-> data[1], best |-> Ratio(0, 1)], data).best>>

----------------------------------------------------------------------------
(* The handler.  A panic ends the call, and the caller gets an error.      *)

Failed == [ok |-> FALSE, result |-> <<>>]

Rolling == {"maximum", "minimum", "std_dev", "mad"}

\* The slice from the period on, and windows of size 0.
Panics(id, data, period) ==
  \/ id = "ema" /\ period > Len(data)
  \/ id \in Rolling /\ period = 0

calculate(id, data, period, multiplier) ==
  CASE id = "sma" -> calculate_sma(data, period)
    [] id = "ema" -> calculate_ema(data, period)
    [] id = "rsi" -> calculate_rsi(data, period)
    [] id = "bands" -> calculate_bollinger_bands(data, period, multiplier)
    [] id = "maximum" -> calculate_maximum(data, period)
    [] id = "minimum" -> calculate_minimum(data, period)
    [] id = "std_dev" -> calculate_std_dev(data, period)
    [] id = "mad" -> calculate_mad(data, period)
    [] id = "roc" -> calculate_roc(data, period)
    [] id = "drawdown" -> calculate_max_drawdown(data)
    [] id = "drawup" -> calculate_max_drawup(data)

Ids ==
  {"sma", "ema", "rsi", "bands", "roc", "drawdown", "drawup"} \union Rolling

\* opt holds the two options, or is empty.
gen_liste(id, data, opt) ==
  LET period == IF opt = <<>> THEN 14 ELSE opt[1].period
      multiplier == IF opt = <<>> THEN 2 ELSE opt[1].multiplier
  IN  IF data = <<>> \/ id \notin Ids \/ Panics(id, data, period)
        THEN Failed
        ELSE [ok |-> TRUE, result |-> calculate(id, data, period, multiplier)]

----------------------------------------------------------------------------
(* What the indicators of a list of prices must have to do with each other.*)

\* The rise from the i-th price to the j-th, in percent.
Rise(data, i, j) == Ratio((data[j] - data[i]) * 100, data[i])

Equal(a, b) == ~Above(a, b) /\ ~Above(b, a)

Negative(r) == Ratio(-r.num, r.den)

\* The two extremes are what the definition says: no fall, and no rise, between
\* any two prices is greater, and some is as great.
ExtremesOK(data) ==
  LET pairs == {p \in (DOMAIN data) \X (DOMAIN data) : p[1] <= p[2]}
      drawdown == calculate_max_drawdown(data)[1]
      drawup == calculate_max_drawup(data)[1]
  IN  /\ \A p \in pairs : /\ ~Above(Negative(Rise(data, p[1], p[2])), drawdown)
                          /\ ~Above(Rise(data, p[1], p[2]), drawup)
      /\ \E p \in pairs : Equal(Negative(Rise(data, p[1], p[2])), drawdown)
      /\ \E p \in pairs : Equal(Rise(data, p[1], p[2]), drawup)

\* Every rolling value is what the definition says: the least and the greatest
\* price of the window, their average, the mean of the squares less the square
\* of the mean, and twice the mean of what exceeds the average.  The bands are
\* the average and, on either side, a multiple of the standard deviation.
\* And the average deviation is at most the standard one.
RollingOK(data, period, multiplier) ==
  LET low   == calculate_minimum(data, period)
      high  == calculate_maximum(data, period)
      sma   == calculate_sma(data, period)
      mad   == calculate_mad(data, period)
      var   == calculate_std_dev(data, period)
      bands == calculate_bollinger_bands(data, period, multiplier)
  IN  \A i \in 1..(Len(data) - period + 1) :
        LET window  == SubSeq(data, i, i + period - 1)
            prices  == {data[j] : j \in i..(i + period - 1)}
            sum     == Sum(window)
            spread  == period * Sum(Each(Square, window)) - Square(sum)
            Excess(x) == IF period * x > sum THEN period * x - sum ELSE 0
            average == Ratio(sum, period)
        IN  /\ low[i] = Min(prices) /\ high[i] = Max(prices)
            /\ Equal(sma[i], average)
            /\ Equal(var[i], Ratio(spread, Square(period)))
            /\ Equal(mad[i], Ratio(2 * Sum(Each(Excess, window)), Square(period)))
            /\ Equal(bands[i].middle, average)
            /\ Equal(bands[i].spread,
                     Ratio(Square(multiplier) * spread, Square(period)))
            /\ ~Above(Ratio(Square(mad[i].num), Square(mad[i].den)), var[i])

\* There is an exponential average for each simple one.  The first is a simple
\* one, each other lies 2/(period + 1) of the way from the one before to the new
\* price; and all stay between the least and the greatest price so far.
AveragesOK(data, period) ==
  LET ema == calculate_ema(data, period)
      Towards(last, price) ==
        Ratio(2 * price * last.den + (period - 1) * last.num,
              (period + 1) * last.den)
  IN  /\ Len(ema) = Len(calculate_sma(data, period))
      /\ Equal(ema[1], Ratio(Sum(SubSeq(data, 1, period)), period))
      /\ \A i \in 2..Len(ema) :
           Equal(ema[i], Towards(ema[i - 1], data[i + period - 1]))
      /\ \A i \in DOMAIN ema :
           LET seen == {data[j] : j \in 1..(i + period - 1)}
           IN  ~Above(Ratio(Min(seen), 1), ema[i]) /\ ~Above(ema[i], Ratio(Max(seen), 1))

\* The rate of change is the rise over a whole period, and the relative strength
\* is the share of the rises in the way the price has gone, which is half of it
\* and of what it has come forward.  Without a fall it is 100 - 100/101.
MovesOK(data, period) ==
  LET roc == calculate_roc(data, period)
      rsi == calculate_rsi(data, period)
  IN  /\ Len(roc) = Len(data) - period /\ Len(rsi) = Len(data) - period
      /\ \A i \in 1..(Len(data) - period) :
           LET steps == [j \in 1..period |-> data[i + j] - data[i + j - 1]]
               way == Sum(Each(Abs, steps))
               forward == data[i + period] - data[i]
           IN  /\ Equal(roc[i], Rise(data, i, i + period))
               /\ Equal(rsi[i], IF way = forward
                                  THEN Ratio(10000, 101)
                                  ELSE Ratio(50 * (way + forward), way))

\* What the eleven indicators of a list have to be.
AgreeOn(data, multiplier) ==
  /\ ExtremesOK(data)
  /\ \A period \in 1..Len(data) :
       /\ RollingOK(data, period, multiplier)
       /\ AveragesOK(data, period)
       /\ MovesOK(data, period)

============================================================================
