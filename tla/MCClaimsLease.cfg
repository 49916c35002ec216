SPECIFICATION FairSpec
CONSTANTS
  Tasks = {t1}
  Requests = {r1, r2}
  Resets = {}
  Malformed = {r2}
  SwitchTimeout <- OneTick
  Procs = {p1, p2}
  WorkerIds = {w1, w2}
  WorkerId <- OwnIds
  Tokens = {k1, k2}
  MaxInflight = 1
  MaxTime = 2
  NoRequest = NoRequest
  NoProc = NoProc
  NoWorker = NoWorker
  NoTask = NoTask
  NoToken = NoToken
  p1 = p1
  p2 = p2
  w1 = w1
  w2 = w2
  r1 = r1
  r2 = r2
INVARIANTS
  TypeOK
PROPERTIES
  SupersededHandlerStops
  StolenOnlyAfterSilence
CHECK_DEADLOCK FALSE
