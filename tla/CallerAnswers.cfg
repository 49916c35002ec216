SPECIFICATION Spec
CONSTANTS
  Tasks = {t1}
  Requests = {r1, r2}
  Resets = {r2}
  Awaiters = {a1}
  Timed = {r1}
  MaxEvents = 6
  NoRequest = NoRequest
  NoTask = NoTask
  NoView = NoView
INVARIANTS
  TypeOK
  NoStaleAnswer
  SendsSeeNoPast
PROPERTIES
  AnswerReachesWatcher
  OnlyLateWatchStrands
CHECK_DEADLOCK FALSE
