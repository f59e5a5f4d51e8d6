SPECIFICATION FairGenSpec
CONSTANTS
  TicksPerSecond = 1
  UInt64 = 1000
  here = here
  there = there
  w1 = w1
  w2 = w2
  Endpoints = {here, there}
  FlowIds = {1, 2}
  Configs <- SomeConfigs
  BurstShare = 1
  DefaultBurst = 2
  MaxBursts = {2}
  Segments = {}
  Observed = 1
  NoId = NoId
  NoFlow = NoFlow
  NoConn = NoConn
  NoKey = NoKey
  MaxTime = 2
  Workers = {w1, w2}
  CoreId <- OwnCores
  NumCores = 2
  TxBurst = 2
  PoolSize = 3
  Tailroom = 2048
  Setups <- AllSetups
  MaxRequests = 4
INVARIANTS
  GenTypeOK
  MbufsConserved
  PacketsAccounted
  TxNotAhead
  QuietWhenStopped
  PacketsWellFormed
  AtMostOneLate
  NextSequenceAlone
PROPERTIES
  StopDrains
  KeepsPromises
