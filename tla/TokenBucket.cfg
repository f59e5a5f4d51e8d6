SPECIFICATION Spec
CONSTANTS
  TicksPerSecond = 4
  UInt64 = 7
  Threads = {t1, t2}
  NoThread = NoThread
  Rates = {0, 1, 6}
  Bursts = {0, 1, 3}
  MaxRate = 6
  Requests = {1, 2}
  Disciplines = {TRUE, FALSE}
  MaxTime = 4
INVARIANTS
  TypeOK
  TokensWithinBurst
  RateBound
