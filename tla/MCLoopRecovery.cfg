SPECIFICATION Spec
CONSTANTS
  Ids = {t1}
  SwitchTimeout <- OneTick
  OwnTimeout = 1
  PeerTimeout = 1
  Now = 1
  MaxInflight = 2
  Peer = "steals"
  Stops = FALSE
  MaxResets = 1
  MaxFaults = 1
  MaxEvents = 3
PROPERTIES
  PendingIsPickedUp
  TimerRecovers
  AbandonedIsRecovered
CHECK_DEADLOCK FALSE
