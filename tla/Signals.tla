------------------------------ MODULE Signals ------------------------------
(***************************************************************************)
(* The first half of evaluate_and_execute (src/src/trader/                 *)
(* trading_strategy.rs): the strategies are asked one after the other,     *)
(* each reads the price buffer and awaits the indicator service, and the   *)
(* aggregator makes one decision of their signals (signal_analyzer.rs,     *)
(* signal_aggregator.rs).  Prices arrive between any two of these steps,   *)
(* and any call may fail.                                                  *)
(*                                                                         *)
(* Weights and thresholds are in tenths, and their sums are exact.  What   *)
(* follows the decision is the subject of Trading.                         *)
(***************************************************************************)
EXTENDS Indicators, PriceBuffer

CONSTANTS
  Configs,        \* the lists of strategies a trader may be started with
  BuyThreshold,   \* buy_threshold, in tenths
  SellThreshold,  \* sell_threshold, in tenths
  BufferSize,     \* buffer_size of the symbol
  Prices,         \* prices of the market
  MaxFeed         \* bound: prices the market sends

\* One strategy and its weight, in tenths.
StrategySet ==
  [kind : {"ma_cross"}, short : Nat, long : Nat, weight : Nat] \union
  [kind : {"rsi"}, period : Nat, oversold : Nat, overbought : Nat,
   weight : Nat] \union
  [kind : {"bb"}, period : Nat, multiplier : Nat, weight : Nat]

ASSUME ConfigsAssumption == Configs \subseteq Seq(StrategySet)
ASSUME PricesAssumption == Prices \subseteq Nat \ {0}
ASSUME SizeAssumption == BufferSize \in Nat
ASSUME BoundAssumption == MaxFeed \in Nat

VARIABLES
  strategies,  \* the strategies and their weights
  feed,        \* every price the streamer has heard
  buffer,      \* the prices the buffer holds
  pc,          \* where the evaluation stands
  turn,        \* the strategy it has come to
  asked,       \* the prices that strategy has read, and the answers so far
  votes,       \* the signals of the strategies that did not fail
  decision     \* what the aggregator made of them

trader == <<pc, turn, asked, votes, decision>>
vars == <<strategies, feed, buffer, trader>>

Strategy == strategies[turn]
NothingAsked == [prices |-> <<>>, seen |-> 0, answers |-> <<>>]

----------------------------------------------------------------------------
(* The analyzer.                                                           *)

\* Mutated form of detect_ma_cross: lines that only touch cross each time.
detect_ma_cross_loosely(short, long) ==
  LET m == Len(short)
      n == Len(long)
  IN  IF m < 2 \/ n < 2 THEN "hold"
      ELSE IF ~Above(short[m - 1], long[n - 1]) /\ ~Above(long[n], short[m])
        THEN "buy"
      ELSE IF ~Above(long[n - 1], short[m - 1]) /\ ~Above(short[m], long[n])
        THEN "sell"
      ELSE "hold"

detect_ma_cross(short, long) ==
  LET m == Len(short)
      n == Len(long)
  IN  IF m < 2 \/ n < 2 THEN "hold"
      ELSE IF ~Above(short[m - 1], long[n - 1]) /\ Above(short[m], long[n])
        THEN "buy"
      ELSE IF ~Above(long[n - 1], short[m - 1]) /\ Above(long[n], short[m])
        THEN "sell"
      ELSE "hold"

detect_rsi_signal(rsi, oversold, overbought) ==
  IF rsi = <<>> THEN "hold"
  ELSE IF Above(Last(rsi), Ratio(overbought, 1)) THEN "sell"
  ELSE IF Above(Ratio(oversold, 1), Last(rsi)) THEN "buy"
  ELSE "hold"

\* The price lies further from the middle than the bands do.
detect_bb_breakout(price, bands) ==
  IF bands = <<>> THEN "hold"
  ELSE LET middle == Last(bands).middle
           away == price * middle.den - middle.num
           outside == Above(Ratio(Square(away), Square(middle.den)),
                            Last(bands).spread)
       IN  IF away > 0 /\ outside THEN "sell"
           ELSE IF away < 0 /\ outside THEN "buy"
           ELSE "hold"

----------------------------------------------------------------------------
(* The strategies.                                                         *)

\* Prices a strategy wants before it asks.
Needed(s) ==
  CASE s.kind = "ma_cross" -> s.long
    [] s.kind = "rsi" -> s.period + 1
    [] s.kind = "bb" -> s.period

\* Moving averages take two calls, the short one first.
Request(s, answers) ==
  CASE s.kind = "ma_cross" ->
         [id |-> "sma", multiplier |-> 0,
          period |-> IF answers = <<>> THEN s.short ELSE s.long]
    [] s.kind = "rsi" -> [id |-> "rsi", period |-> s.period, multiplier |-> 0]
    [] s.kind = "bb" ->
         [id |-> "bands", period |-> s.period, multiplier |-> s.multiplier]

Complete(s, answers) == Len(answers) = IF s.kind = "ma_cross" THEN 2 ELSE 1

Detect(s, prices, answers) ==
  CASE s.kind = "ma_cross" -> detect_ma_cross(answers[1], answers[2])
    [] s.kind = "rsi" -> detect_rsi_signal(answers[1], s.oversold, s.overbought)
    [] s.kind = "bb" -> detect_bb_breakout(Last(prices), answers[1])

----------------------------------------------------------------------------
(* The aggregator.                                                         *)

Weight(signal, ballots) ==
  LET Given(vote) ==
        IF vote.signal = signal THEN strategies[vote.by].weight ELSE 0
  IN  Sum(Each(Given, ballots))

\* Mutated form of Total: strategies that hold do not count.
TotalOfActive(ballots) == Weight("buy", ballots) + Weight("sell", ballots)

Total(ballots) ==
  Weight("buy", ballots) + Weight("sell", ballots) + Weight("hold", ballots)

aggregate(ballots) ==
  LET total == Total(ballots)
      buy   == Weight("buy", ballots)
      sell  == Weight("sell", ballots)
  IN  IF total = 0 THEN "hold"
      ELSE IF 10 * buy >= BuyThreshold * total /\ buy > sell THEN "buy"
      ELSE IF 10 * sell >= SellThreshold * total /\ sell > buy THEN "sell"
      ELSE "hold"

----------------------------------------------------------------------------
(* The steps.                                                              *)

Hear(price) ==
  /\ Len(feed) < MaxFeed
  /\ feed' = Append(feed, price)
  /\ buffer' = AddPrice(buffer, price, BufferSize)
  /\ UNCHANGED <<strategies, trader>>

Evaluate ==
  /\ pc = "idle"
  /\ pc' = "read"
  /\ turn' = 1
  /\ votes' = <<>>
  /\ decision' = "none"
  /\ UNCHANGED <<strategies, feed, buffer, asked>>

\* The strategy is through; one that failed leaves no signal.
Proceed ==
  /\ pc' = "read"
  /\ turn' = turn + 1
  /\ asked' = NothingAsked
  /\ UNCHANGED <<strategies, feed, buffer, decision>>

Vote(signal, seen) ==
  /\ votes' = Append(votes, [by |-> turn, signal |-> signal, seen |-> seen])
  /\ Proceed

MyTurn == pc = "read" /\ turn <= Len(strategies)

TooFewPrices ==
  /\ MyTurn
  /\ Len(buffer) < Needed(Strategy)
  /\ Vote("hold", Len(feed))

ReadPrices ==
  /\ MyTurn
  /\ Len(buffer) >= Needed(Strategy)
  /\ Strategy.kind = "bb" => buffer # <<>>
  /\ asked' = [prices |-> buffer, seen |-> Len(feed), answers |-> <<>>]
  /\ pc' = "ask"
  /\ UNCHANGED <<strategies, feed, buffer, turn, votes, decision>>

\* prices.last().unwrap() on an empty buffer, that a period of 0 lets through.
Panic ==
  /\ MyTurn
  /\ Strategy.kind = "bb" /\ Strategy.period = 0
  /\ buffer = <<>>
  /\ pc' = "panicked"
  /\ UNCHANGED <<strategies, feed, buffer, turn, asked, votes, decision>>

Reply ==
  LET request == Request(Strategy, asked.answers)
      opt == <<[period |-> request.period, multiplier |-> request.multiplier]>>
  IN  gen_liste(request.id, asked.prices, opt)

Answered ==
  /\ pc = "ask"
  /\ Reply.ok
  /\ LET answers == Append(asked.answers, Reply.result)
     IN  IF Complete(Strategy, answers)
           THEN Vote(Detect(Strategy, asked.prices, answers), asked.seen)
           ELSE /\ asked' = [asked EXCEPT !.answers = answers]
                /\ UNCHANGED <<strategies, feed, buffer, pc, turn, votes, decision>>

\* The service refuses the call, or cannot be reached.
CallFails ==
  /\ pc = "ask"
  /\ UNCHANGED votes
  /\ Proceed

\* Without a price nothing is executed, whatever the decision was.
Decide ==
  /\ pc = "read"
  /\ turn > Len(strategies)
  /\ pc' = "idle"
  /\ decision' = IF buffer = <<>> THEN "none" ELSE aggregate(votes)
  /\ UNCHANGED <<strategies, feed, buffer, turn, asked, votes>>

Init ==
  /\ strategies \in Configs
  /\ feed = <<>>
  /\ buffer = <<>>
  /\ pc = "idle"
  /\ turn = 1
  /\ asked = NothingAsked
  /\ votes = <<>>
  /\ decision = "none"

Next ==
  \/ \E price \in Prices : Hear(price)
  \/ Evaluate
  \/ TooFewPrices
  \/ ReadPrices
  \/ Panic
  \/ Answered
  \/ CallFails
  \/ Decide

Spec == Init /\ [][Next]_vars

----------------------------------------------------------------------------
(* What a signal means, in terms of everything the market has sent.        *)

ShortAbove(s, history) ==
  Above(Mean(Latest(history, s.short)), Mean(Latest(history, s.long)))

LongAbove(s, history) ==
  Above(Mean(Latest(history, s.long)), Mean(Latest(history, s.short)))

CrossOf(s, history) ==
  IF s.short = 0 \/ s.long = 0 \/ Len(history) <= s.short \/ Len(history) <= s.long
    THEN "hold"
  ELSE IF ~ShortAbove(s, Front(history)) /\ ShortAbove(s, history) THEN "buy"
  ELSE IF ~LongAbove(s, Front(history)) /\ LongAbove(s, history) THEN "sell"
  ELSE "hold"

RsiOf(s, history) ==
  LET strength == Strength(Latest(history, s.period + 1))
  IN  IF s.period = 0 \/ Len(history) <= s.period THEN "hold"
      ELSE IF Above(strength, Ratio(s.overbought, 1)) THEN "sell"
      ELSE IF Above(Ratio(s.oversold, 1), strength) THEN "buy"
      ELSE "hold"

BreakoutOf(s, history) ==
  IF s.period = 0 \/ Len(history) < s.period THEN "hold"
  ELSE detect_bb_breakout(Last(history),
         <<Bands(Latest(history, s.period), s.multiplier)>>)

SignalOf(s, history) ==
  CASE s.kind = "ma_cross" -> CrossOf(s, history)
    [] s.kind = "rsi" -> RsiOf(s, history)
    [] s.kind = "bb" -> BreakoutOf(s, history)

\* Prices the meaning of a signal reaches back to.
Reach(s) ==
  CASE s.kind = "ma_cross" -> (IF s.short > s.long THEN s.short ELSE s.long) + 1
    [] s.kind = "rsi" -> s.period + 1
    [] s.kind = "bb" -> s.period

History(vote) == SubSeq(feed, 1, vote.seen)

----------------------------------------------------------------------------
(* What the evaluation promises.                                           *)

SignalSet == {"buy", "sell", "hold"}

\* Type invariant: a strategy votes at most once, in its turn, on prices that
\* were there (trading_strategy.rs:197-232).
TypeOK ==
  /\ strategies \in Configs
  /\ feed \in Seq(Prices) /\ Len(feed) <= MaxFeed
  /\ buffer \in Seq(Prices) /\ Len(buffer) <= BufferSize
  /\ pc \in {"idle", "read", "ask", "panicked"}
  /\ turn \in 1..(Len(strategies) + 1)
  /\ pc = "ask" => turn <= Len(strategies) /\ ~Complete(Strategy, asked.answers)
  /\ asked.seen <= Len(feed)
  /\ \A i \in DOMAIN votes :
       /\ votes[i].by \in 1..Len(strategies) /\ votes[i].seen <= Len(feed)
       /\ votes[i].signal \in SignalSet
       /\ \A j \in DOMAIN votes : i < j => votes[i].by < votes[j].by
  /\ decision \in SignalSet \union {"none"}

\* Every signal is the one that the market's whole history up to the moment of
\* reading calls for, although the strategy saw only the prices left in the
\* buffer, more came while it waited for the service, and the averages were
\* asked for by two calls (trading_strategy.rs:43-66, 100-111, 137-148,
\* data_buffer.rs:36-47).  The buffer must hold the prices the signal reaches
\* back to, which for a crossing is one more than the long period.
SignalsMatchHistory ==
  \A i \in DOMAIN votes :
    LET s == strategies[votes[i].by]
    IN  Reach(s) <= BufferSize => votes[i].signal = SignalOf(s, History(votes[i]))

\* The weights of config/default.toml: 0.4, 0.3 and 0.3.
DefaultWeights ==
  [i \in DOMAIN strategies |-> strategies[i].weight] = <<4, 3, 3>>

\* Weight of the strategies that gave a signal in this evaluation.
Present == {votes[i].by : i \in DOMAIN votes}

\* A strategy that fails drops out of the total weight, which brings the others
\* closer to the threshold (trading_strategy.rs:223-231, signal_aggregator.rs:
\* 39-63).  With the default weights and thresholds one failure alone never
\* causes a trade: whatever the missing signal was, the decision would have
\* been the same.
OneFailureCausesNoTrade ==
  DefaultWeights /\ decision \in {"buy", "sell"} =>
    \A missing \in DOMAIN strategies \ Present :
      Present = DOMAIN strategies \ {missing} =>
        \A signal \in SignalSet :
          aggregate(Append(votes, [by |-> missing, signal |-> signal, seen |-> 0]))
            = decision

\* The eleven indicators of any list of prices agree with their definitions and
\* with each other (indicator_server.rs:83-292), bands two deviations wide.  Every
\* list there is comes by while nothing has been evaluated, so it is looked at
\* only then.
IndicatorsAgree ==
  feed # <<>> /\ pc = "idle" /\ votes = <<>> => AgreeOn(feed, 2)

\* "Golden Cross: Short-term MA crosses above long-term MA" (signal_analyzer.rs:
\* 15): when it has, the strategy that watches the two averages says buy.
GoldenCrossBuys ==
  \A i \in DOMAIN votes :
    LET s == strategies[votes[i].by]
    IN  s.kind = "ma_cross" /\ CrossOf(s, History(votes[i])) = "buy" =>
          votes[i].signal = "buy"

============================================================================
