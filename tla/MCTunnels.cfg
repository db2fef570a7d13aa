CONSTANTS
  Mode = "tcp"
  WireCap = 1
  MaxChunks <- Both
  Breakable = {}
  Idle = {}
  MayCut = FALSE
  PauseExpires = FALSE
  t1 = t1
  t2 = t2
  t3 = t3
  u1 = u1
  u2 = u2
  NoGroup = NoGroup
  Users = {u1, u2}
  Tunnels = {t1, t2, t3}
  Requested = 2
  Budget = 4
  LaneSteps = {2}
  Cuttable = {t1}
SPECIFICATION AllSpec
INVARIANTS
  CountersExact
  OneServicePerUser
  LeaderHasTheLanes
PROPERTIES
  ImplementsStream
  SessionEnds
  LanesReleased
CHECK_DEADLOCK FALSE
