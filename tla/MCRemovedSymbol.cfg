SPECIFICATION Spec
CONSTANTS
  c1 = c1
  c2 = c2
  none = none
  Clients <- OneClient
  Names <- MCNames
  ProtoSymbols <- OneProtoSymbol
  Databases <- MCDatabases
  DiskFiles <- MCDiskFiles
  TradingConfigs <- MCTradingConfigs
  DefaultBuffer = 200
  Capacity = 1
  Absent <- MCAbsent
  MaxChanges = 1
  MaxEditions = 0
  MaxSymbols = 2
  MaxRestarts = 2
  MaxOverlap = 1
INVARIANT RemovedSymbolNotStreamed
CHECK_DEADLOCK FALSE
