CONSTANTS
  u1 = u1
  u2 = u2
  Users = {u1, u2}
  Tries = 2
  Carriers = {c1, c2}
  NoCarrier = NoCarrier
  Limit = 1
  MinCarriers = 1
  MaxCarriers = 2
  MinStreams = 1
  Cuttable = FALSE
  ThreadsFail = FALSE
  Stoppable = FALSE
SPECIFICATION AllSpec
INVARIANTS
  StreamsCounted
  RunningCarriersFound
PROPERTIES
  UsersReleased
  LeftoversEnd
  StopClosesCarriers
CHECK_DEADLOCK FALSE
