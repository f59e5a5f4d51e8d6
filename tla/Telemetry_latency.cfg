SPECIFICATION Spec
CONSTANTS
  NumCores = 1
  Pollers = {p1}
  Second = 2
  TickNs = 10000
  PollGap = 0
  Requests = {"GetMetrics"}
  NoSnapshot = NoSnapshot
  NoRate = NoRate
  Nobody = Nobody
  Bounds <- RoundTrips
  Workers = {0}
  Receiving = {0}
  Mbufs = {m1, m2}
  RxBurst = 2
  Foreign = Foreign
INVARIANT
  LatencyIsRoundTrip
CHECK_DEADLOCK FALSE
