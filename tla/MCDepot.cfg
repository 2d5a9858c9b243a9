SPECIFICATION Spec
CONSTANTS
  SymbolList <- MCSymbols
  Prices <- MCPrices
  Broker = "depot"
  Cash = 100
  MaxPosition = 50
  MaxTotal = 80
  MaxShort = 30
  MaxShortTotal = 50
  MaxInt = 4
  MaxOrders = 3
  MaxAborts = 1
INVARIANTS
  TypeOK
  OrdersFitHoldings
  OrdersWithinLimits
  NotifiedWasExecuted
PROPERTIES
  ImplementsHoldings
CHECK_DEADLOCK FALSE
