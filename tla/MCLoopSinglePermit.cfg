SPECIFICATION Spec
CONSTANTS
  Ids = {t1, t2}
  SwitchTimeout <- OneTick
  OwnTimeout = 1
  PeerTimeout = 1
  Now = 1
  MaxInflight = 1
  Peer = "none"
  Stops = TRUE
  MaxResets = 0
  MaxFaults = 0
  MaxEvents = 2
INVARIANTS
  PendingHasWakeup
PROPERTIES
  PendingIsPickedUp
  TimerRecovers
  StopIsServed
CHECK_DEADLOCK FALSE
