SPECIFICATION Spec
CHECK_DEADLOCK FALSE
CONSTANTS
  Requests = {r1, r2}
  Rolling = TRUE
  absoluteDuration = 10
  inactivityDuration = 6
  Tolerance = 1
  Leeway = 1
  EpochLimit = 11
  Ceilings <- SomeCeiling
  Skews <- OneOff
  MaxSkew = 1
  Latency = 2
  Horizon = 13
SYMMETRY Symmetric
INVARIANTS TypeOK AbsoluteBound InactivityBound CeilingHeld ActivityKeepsSession
