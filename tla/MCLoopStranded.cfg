SPECIFICATION FairSpec
CONSTANTS
  Ids = {t1}
  SwitchTimeout <- OneTick
  OwnTimeout = 1
  PeerTimeout = 1
  Now = 1
  MaxInflight = 1
  Peer = "none"
  Stops = FALSE
  MaxResets = 0
  MaxFaults = 1
  MaxEvents = 3
PROPERTIES
  NoPendingIsStranded
CHECK_DEADLOCK FALSE
