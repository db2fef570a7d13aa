CONSTANTS
  t1 = t1
  t2 = t2
  c1 = c1
  c2 = c2
  o1 = o1
  e1 = e1
  h1 = h1
  Commands = {c1, c2, o1, e1, h1}
  Kind <- KindDef
  Threads = {t1, t2}
  Window = 2
  HistoryHigh = 1
  HistoryKeep = 1
  MaxAge = 2
  MaxLosses = 2
  Waits = FALSE
  config_sync = config_sync
  report = report
  Loops = {config_sync, report}
  Sync = config_sync
  MaxFlaps = 5
SPECIFICATION AllSpec
INVARIANTS
  UpdatesFirst
  KeptUntilDone
  RestartSparesUpdates
PROPERTIES
  EveryCommandLeaves
  StaleFallbackIgnored
  ReturnsToPrimary
CHECK_DEADLOCK FALSE
