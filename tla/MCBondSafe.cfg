CONSTANTS
  p = p
  q = q
  Payload = {p, q}
  NoData = NoData
  NLanes = 2
  QueueSize = 1
  Window = 1
  WireCap = 1
  MaxChunks <- Upload
  Breakable = {}
  Cuttable = {}
  Closable = {}
  JoinExpires = TRUE
SPECIFICATION SafeSpec
INVARIANTS
  InOrder
  CleanEndIsComplete
PROPERTIES
  ImplementsStream
CHECK_DEADLOCK FALSE
