CONSTANTS
  l1 = l1
  l2 = l2
  i1 = i1
  e1 = e1
  e2 = e2
  a1 = a1
  s1 = s1
  s2 = s2
  LinkIds = {l1, l2}
  Nodes = {i1, e1, e2}
  Pairs <- PairsDef
  BridgePairs <- BridgePairsDef
  UserPorts = {3, 4}
  Admins = {a1}
  Tests = {s1, s2}
  MaxStops = 1
SPECIFICATION TableSpec
INVARIANTS
  RunningTestsKeepTheirs
CHECK_DEADLOCK FALSE
