SPECIFICATION Spec
CONSTANTS
  Tasks = {t1}
  Requests = {r1}
  Resets = {}
  Awaiters = {}
  Timed = {}
  MaxEvents = 3
  NoRequest = NoRequest
  NoTask = NoTask
  NoView = NoView
INVARIANTS
  DatabaseErrorMeansNothingPersisted
CHECK_DEADLOCK FALSE
