SPECIFICATION Spec
CONSTANTS
  m0 = m0
  s1 = s1
  s2 = s2
  Master = m0
  Slaves <- Chain
  Links <- ChainLinks
  Proxies = {s1, s2}
  Sampled = {}
  RoutesExpire = FALSE
  None = None
  NEAttempts = 1
  PbidMax = 2
  AmmMod = 2
  BitsPerByte = 8
  MaxTB = 2
  MaxSends = 1
  MaxInFlight = 3
INVARIANTS
  TablesAgree
  StruckOffHasTable
  ProxiesHaveNextHop
CHECK_DEADLOCK FALSE
