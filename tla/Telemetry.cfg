SPECIFICATION Spec
CONSTANTS
  NumCores = 1
  Pollers = {p1, p2}
  Second = 2
  TickNs = 10000
  PollGap = 0
  Requests = {"GetMetrics"}
  NoSnapshot = NoSnapshot
  NoRate = NoRate
  Nobody = Nobody
  Bounds <- Scenarios
  Workers = {0, 1, 2}
  Receiving = {0, 1}
  Mbufs = {m1, m2}
  RxBurst = 2
  Foreign = Foreign
INVARIANTS
  TypeOK
  RateIsReal
  SnapshotNotAhead
  HistogramExact
  ReceivedCounted
PROPERTIES
  QueuesDrain
  PollsEnd
CHECK_DEADLOCK FALSE
