SPECIFICATION Spec
CONSTANTS
  Tasks = {t1}
  Requests = {r1, r2}
  Resets = {r2}
  Malformed = {}
  SwitchTimeout <- OneThenZero
  Procs = {p1, p2}
  WorkerIds = {w1, w2}
  WorkerId <- SharedId
  Tokens = {k1, k2, k3}
  MaxInflight = 2
  MaxTime = 0
  NoRequest = NoRequest
  NoProc = NoProc
  NoWorker = NoWorker
  NoTask = NoTask
  NoToken = NoToken
  p1 = p1
  p2 = p2
  w1 = w1
  w2 = w2
  r1 = r1
  r2 = r2
SYMMETRY Symmetry
INVARIANTS
  ResultMatchesRequest
  SupersededIsDefinitive
  ClaimedTaskIsStarted
  OneHandlerPerTask
  PermitsConserved
  ClaimInvariant
  CapacityInvariant
PROPERTIES
  ImplementsMailbox
CHECK_DEADLOCK FALSE
