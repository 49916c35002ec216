SPECIFICATION Spec
CONSTANTS
  Ids = {t1, t2}
  SwitchTimeout <- OneTick
  OwnTimeout = 1
  PeerTimeout = 1
  Now = 1
  MaxInflight = 2
  Peer = "claims"
  Stops = FALSE
  MaxResets = 1
  MaxFaults = 0
  MaxEvents = 2
SYMMETRY IdSymmetry
INVARIANTS
  TypeOK
  TrackerConsistent
  ViewInvariant
PROPERTIES
  MissMeansNews
  OnlyDropsForget
CHECK_DEADLOCK FALSE
