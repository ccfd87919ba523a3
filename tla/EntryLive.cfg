SPECIFICATION FairSpec
CONSTANTS
  m0 = m0
  s1 = s1
  s2 = s2
  Master = m0
  Slaves <- Pair
  Links <- PairLinks
  Proxies = {}
  Sampled = {}
  RoutesExpire = FALSE
  None = None
  NEAttempts = 2
  PbidMax = 1
  AmmMod = 2
  BitsPerByte = 8
  MaxTB = 2
  MaxSends = 2
  MaxInFlight = 2
PROPERTIES
  EverySlaveEnters
  TBEnds
CHECK_DEADLOCK FALSE
