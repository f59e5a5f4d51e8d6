SPECIFICATION Spec
CONSTANTS
  UInt16 = 4
  UInt32 = 8
  Machines <- Machines1
  Texts <- Texts1
  NoFile = NoFile
  NoPool = NoPool
  MaxWorkers = 2
  Signals = {"SIGINT", "SIGTERM"}
  Disciplines = {TRUE, FALSE}
  MaxSignals = 3
  MaxCalls = 2
PROPERTY
  GracefulShutdown
CHECK_DEADLOCK FALSE
