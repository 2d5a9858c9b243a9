----------------------------- MODULE MCTrading -----------------------------
(***************************************************************************)
(* Small instances of Trading: two symbols, two prices, limits under which *)
(* two positions do not both fit, and an i32 that saturates at four.       *)
(***************************************************************************)
EXTENDS Trading

MCSymbols == <<"AAPL", "SPY">>
OneSymbol == <<"AAPL">>

MCPrices == {10, 20}
OnePrice == {10}

============================================================================
