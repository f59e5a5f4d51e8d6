SPECIFICATION Spec
CONSTANTS
  NumCores = 1
  Pollers = {p1}
  Second = 2
  TickNs = 10000
  PollGap = 2
  Requests = {"GetStats", "GetMetrics", "per core"}
  NoSnapshot = NoSnapshot
  NoRate = NoRate
  Nobody = Nobody
  Bounds <- SlowPolls
  Workers = {0}
  Receiving = {0}
  Mbufs = {m1, m2}
  RxBurst = 2
  Foreign = Foreign
INVARIANT
  PollsShowTraffic
CHECK_DEADLOCK FALSE
