CONSTANTS
  t1 = t1
  t2 = t2
  t3 = t3
  v1 = v1
  v2 = v2
  v3 = v3
  f = f
  d = d
  q1 = q1
  q2 = q2
  q3 = q3
  p1 = p1
  p2 = p2
  p3 = p3
  l1 = l1
  l2 = l2
  i1 = i1
  i2 = i2
  e1 = e1
  e2 = e2
  a1 = a1
  s1 = s1
  Threads = {t1, t2, t3}
  Updates = {v1, v2, v3}
  Files = {f}
  Dirs = {d}
  External = "none"
  MaxCrashes = 3
  Corrupted = TRUE
  Requests = {q1, q2, q3}
  PanelPorts = {p1, p2, p3}
  FirstPort = p1
  Wants <- Wanted
  MaxKills = 2
  MaxFailures = 2
  WritesFail = FALSE
  Strangers = {}
  LinkIds = {l1, l2}
  Nodes = {i1, i2, e1, e2}
  Pairs <- PairsDef
  BridgePairs <- BridgePairsDef
  UserPorts = {3, 6}
  Admins = {a1}
  Tests = {s1}
  MaxStops = 1
  b1 = b1
  b2 = b2
  u1 = u1
  u2 = u2
  Links = {l1, l2}
  Ports = {b1, b2, u1, u2}
  Targets = {1, 2}
  Configs <- AllConfigs
  MaxChanges = 2
  MaxFaults = 3
SPECIFICATION AllSpec
INVARIANTS
  SavedStays
  MemoryIsAhead
  OriginalsReturn
  OriginalsSurvive
  PortsAgree
  BridgePortsDistinct
  ListenersOwned
PROPERTIES
  RequestsAnswered
  NodeFollows
CHECK_DEADLOCK FALSE
