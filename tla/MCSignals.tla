----------------------------- MODULE MCSignals -----------------------------
(***************************************************************************)
(* Small instances of Signals: the three strategies of config/default.toml *)
(* with their weights and short periods, and one of each with periods and  *)
(* weights at the edge.                                                    *)
(***************************************************************************)
EXTENDS Signals

Cross(short, long, weight) ==
  [kind |-> "ma_cross", short |-> short, long |-> long, weight |-> weight]

Rsi(period, weight) ==
  [kind |-> "rsi", period |-> period, oversold |-> 30, overbought |-> 70,
   weight |-> weight]

Bb(period, multiplier, weight) ==
  [kind |-> "bb", period |-> period, multiplier |-> multiplier, weight |-> weight]

Default == <<Cross(1, 2, 4), Rsi(2, 3), Bb(3, 1, 3)>>

MCConfigs ==
  {Default, <<Cross(2, 0, 5), Bb(0, 2, 0), Rsi(0, 5)>>, <<Cross(3, 2, 1)>>}

\* As in config/default.toml, the long period is the size of the buffer.
DefaultConfigs == {<<Cross(1, 3, 4), Rsi(2, 3)>>}

MCPrices == {1, 2, 4}

============================================================================
