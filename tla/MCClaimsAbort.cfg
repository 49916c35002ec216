SPECIFICATION Spec
CONSTANTS
  Tasks = {t1}
  Requests = {r1}
  Resets = {}
  Malformed = {}
  SwitchTimeout <- OneTick
  Procs = {p1}
  WorkerIds = {w1, w2}
  WorkerId <- SharedId
  Tokens = {k1, k2}
  MaxInflight = 1
  MaxTime = 0
  NoRequest = NoRequest
  NoProc = NoProc
  NoWorker = NoWorker
  NoTask = NoTask
  NoToken = NoToken
  p1 = p1
  p2 = p2
  w1 = w1
  w2 = w2
  r1 = r1
  r2 = r2
SYMMETRY TokenSymmetry
INVARIANTS
  AbortedOnlyIfSuperseded
CHECK_DEADLOCK FALSE
