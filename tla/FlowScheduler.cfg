SPECIFICATION SchedulerSpec
CONSTANTS
  TicksPerSecond = 3
  UInt64 = 5
  here = here
  there = there
  elsewhere = elsewhere
  Endpoints = {here, there}
  FlowIds = {1, 2}
  Configs <- OneKeyPerFlow
  BurstShare = 2
  DefaultBurst = 2
  MaxBursts = {1, 2}
  Segments <- SomeSegments
  Observed = 1
  NoId = NoId
  NoFlow = NoFlow
  NoConn = NoConn
  NoKey = NoKey
  MaxTime = 5
INVARIANTS
  SchedulerTypeOK
  FlowRateBound
  PacketBudget
  LookupExact
  PerConnectionState
PROPERTY
  FlowIsPaced
