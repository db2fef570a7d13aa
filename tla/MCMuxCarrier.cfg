CONSTANTS
  QueueSize = 1
  WireCap = 1
  MaxSupply = 2
  Settings <- Sparing
SPECIFICATION FairSpec
INVARIANTS
  OneThreadCloses
PROPERTIES
  ImplementsStream
  StreamsEnd
CHECK_DEADLOCK FALSE
