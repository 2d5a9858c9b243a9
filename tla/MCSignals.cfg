SPECIFICATION Spec
CONSTANTS
  Configs <- MCConfigs
  BuyThreshold = 6
  SellThreshold = 6
  BufferSize = 3
  Prices <- MCPrices
  MaxFeed = 6
INVARIANTS
  TypeOK
  SignalsMatchHistory
  OneFailureCausesNoTrade
  IndicatorsAgree
CHECK_DEADLOCK FALSE
