SPECIFICATION Spec
CONSTANTS
  SymbolList <- MCSymbols
  Prices <- OnePrice
  Broker = "depot"
  Cash = 100
  MaxPosition = 50
  MaxTotal = 80
  MaxShort = 30
  MaxShortTotal = 50
  MaxInt = 4
  MaxOrders = 3
  MaxAborts = 0
INVARIANT ShortsWithinPortfolio
CHECK_DEADLOCK FALSE
