CONSTANTS
  QueueSize = 1
  WireCap = 1
  MaxSupply = 2
  Settings <- Crossing
SPECIFICATION FairSpec
PROPERTY CarrierNeverBlocks
CHECK_DEADLOCK FALSE
