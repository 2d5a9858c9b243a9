SPECIFICATION FairSpec
CONSTANTS
  c1 = c1
  c2 = c2
  none = none
  Clients <- OneClient
  Names <- MCNames
  ProtoSymbols <- OneProtoSymbol
  Databases <- MCDatabases
  DiskFiles <- TwoDiskFiles
  TradingConfigs <- MCTradingConfigs
  DefaultBuffer = 200
  Capacity = 1
  Absent <- MCAbsent
  MaxChanges = 0
  MaxEditions = 0
  MaxSymbols = 1
  MaxRestarts = 2
  MaxOverlap = 1
PROPERTY ShutdownCompletes
CHECK_DEADLOCK FALSE
