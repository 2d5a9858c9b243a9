SPECIFICATION Spec
CONSTANTS
  Configs <- DefaultConfigs
  BuyThreshold = 6
  SellThreshold = 6
  BufferSize = 3
  Prices <- MCPrices
  MaxFeed = 5
INVARIANT GoldenCrossBuys
CHECK_DEADLOCK FALSE
