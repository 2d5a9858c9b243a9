--------------------------- MODULE MCMarketData ---------------------------
(***************************************************************************)
(* Small instances of MarketData: a symbol with trades and bars in one     *)
(* buffer of two prices, and a symbol of bars alone that keeps one price.  *)
(***************************************************************************)
EXTENDS MarketData

MCSymbols == {"AAPL", "SPY"}
MCBufferSize == [s \in MCSymbols |-> IF s = "AAPL" THEN 2 ELSE 1]
MCSubjects ==
  {[kind |-> "trade", symbol |-> "AAPL"], [kind |-> "bar", symbol |-> "AAPL"],
   [kind |-> "bar", symbol |-> "SPY"]}

OneSymbol == {"AAPL"}
OneBufferSize == [s \in OneSymbol |-> 2]
OneSubject == {[kind |-> "bar", symbol |-> "AAPL"]}

============================================================================
