CONSTANTS
  w1 = w1
  w2 = w2
  w3 = w3
  w4 = w4
  Workers = {w1, w2, w3, w4}
  Max = 2
  MinReady = 1
  Kinds = {"tcp"}
  Tls = FALSE
  ThreadsFail = FALSE
  Stoppable = FALSE
  Stalls = FALSE
SPECIFICATION AllSpec
INVARIANTS
  WorkersBounded
  NothingLeaks
PROPERTIES
  StopEnds
  WorkersRecover
CHECK_DEADLOCK FALSE
