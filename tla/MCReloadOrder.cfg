SPECIFICATION Spec
CONSTANTS
  c1 = c1
  c2 = c2
  none = none
  Clients <- MCClients
  Names <- MCNames
  ProtoSymbols <- OneProtoSymbol
  Databases <- MCDatabases
  DiskFiles <- TwoDiskFiles
  TradingConfigs <- MCTradingConfigs
  DefaultBuffer = 200
  Capacity = 1
  Absent <- MCAbsent
  MaxChanges = 2
  MaxEditions = 1
  MaxSymbols = 1
  MaxRestarts = 2
  MaxOverlap = 1
PROPERTY ReloadsDoNotGoBack
CHECK_DEADLOCK FALSE
