SPECIFICATION Spec
CONSTANTS
  m0 = m0
  s1 = s1
  s2 = s2
  Master = m0
  Slaves <- Pair
  Links <- PairLinks
  Proxies = {}
  Sampled = {}
  RoutesExpire = FALSE
  None = None
  NEAttempts = 2
  PbidMax = 3
  AmmMod = 4
  BitsPerByte = 8
  MaxTB = 2
  MaxSends = 2
  MaxInFlight = 3
INVARIANTS
  UnderWayMeansSent
CHECK_DEADLOCK FALSE
