SPECIFICATION FairSpec
CONSTANTS
  SymbolList <- MCSymbols
  Prices <- MCPrices
  Broker = "alpaca"
  Cash = 100
  MaxPosition = 50
  MaxTotal = 80
  MaxShort = 30
  MaxShortTotal = 50
  MaxInt = 4
  MaxOrders = 2
  MaxAborts = 1
PROPERTY EveryTurnComes
CHECK_DEADLOCK FALSE
