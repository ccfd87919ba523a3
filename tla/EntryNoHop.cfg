SPECIFICATION Spec
CONSTANTS
  m0 = m0
  s1 = s1
  s2 = s2
  Master = m0
  Slaves <- Chain
  Links <- ChainLinks
  Proxies = {s1}
  Sampled = {}
  RoutesExpire = TRUE
  None = None
  NEAttempts = 1
  PbidMax = 3
  AmmMod = 4
  BitsPerByte = 8
  MaxTB = 2
  MaxSends = 2
  MaxInFlight = 2
INVARIANTS
  NoNextHopShutsDown
CHECK_DEADLOCK FALSE
