SPECIFICATION Spec
CONSTANTS
  SymbolList <- OneSymbol
  Prices <- OnePrice
  Broker = "alpaca"
  Cash = 100
  MaxPosition = 50
  MaxTotal = 80
  MaxShort = 30
  MaxShortTotal = 50
  MaxInt = 4
  MaxOrders = 3
  MaxAborts = 0
PROPERTY LongsWithinCash
CHECK_DEADLOCK FALSE
