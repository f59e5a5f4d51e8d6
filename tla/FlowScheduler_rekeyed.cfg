SPECIFICATION SchedulerSpec
CONSTANTS
  TicksPerSecond = 3
  UInt64 = 1000
  here = here
  there = there
  elsewhere = elsewhere
  Endpoints = {here, there, elsewhere}
  FlowIds = {1, 2}
  Configs <- Rekeyed
  BurstShare = 2
  DefaultBurst = 2
  MaxBursts = {1, 2}
  Segments <- SomeSegments
  Observed = 1
  NoId = NoId
  NoFlow = NoFlow
  NoConn = NoConn
  NoKey = NoKey
  MaxTime = 4
INVARIANT
  PerConnectionState
