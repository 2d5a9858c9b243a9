SPECIFICATION FairSpec
CONSTANTS
  c1 = c1
  c2 = c2
  none = none
  Clients <- OneClient
  Names <- OneName
  ProtoSymbols <- AaplProto
  Databases <- OneDatabase
  DiskFiles <- SmallDiskFiles
  TradingConfigs <- MCTradingConfigs
  DefaultBuffer = 20
  Capacity = 1
  Absent <- MCAbsent
  MaxChanges = 2
  MaxEditions = 1
  MaxSymbols = 1
  MaxRestarts = 2
  MaxOverlap = 1
INVARIANTS
  TypeOK
  NoStaleConfiguration
  TasksFollowSettings
  NoSpuriousRestart
PROPERTIES
  ImplementsPropagation
  ReloadTakesEffect
  OverlapEnds
CHECK_DEADLOCK FALSE
