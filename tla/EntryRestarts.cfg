SPECIFICATION Spec
CONSTANTS
  m0 = m0
  s1 = s1
  s2 = s2
  Master = m0
  Slaves <- Chain
  Links <- ChainLinks
  Proxies = {s1}
  Sampled = {s2}
  RoutesExpire = TRUE
  None = None
  NEAttempts = 1
  PbidMax = 2
  AmmMod = 2
  BitsPerByte = 2
  MaxTB = 2
  MaxSends = 2
  MaxInFlight = 2
INVARIANTS
  TypeOK
  InsideIsRegistered
  SlotsExclusive
  PromisesKept
PROPERTIES
  OnlyStaleTablesEvict
CHECK_DEADLOCK FALSE
