SPECIFICATION SchedulerSpec
CONSTANTS
  TicksPerSecond = 3
  UInt64 = 1000
  here = here
  there = there
  elsewhere = elsewhere
  Endpoints = {here, there}
  FlowIds = {1, 2}
  Configs <- Slow
  BurstShare = 2
  DefaultBurst = 2
  MaxBursts = {1, 2}
  Segments = {}
  Observed = 1
  NoId = NoId
  NoFlow = NoFlow
  NoConn = NoConn
  NoKey = NoKey
  MaxTime = 5
INVARIANT
  PacketsPerSecond
