SPECIFICATION FairSpec
CONSTANTS
  p = p
  q = q
  r = r
  t = t
  u = u
  IPs = {p, q, r}
  NoIP = NoIP
  NoPair = NoPair
  NoMsg = NoMsg
  NoTable = NoTable
  NotWaiting = NotWaiting
  Tables = {t, u}
  PBIDs <- MCPBIDs
  Delays <- MCDelays
  Check = 1
  Late = 1
  NEAttempts = 2
  AmmMod = 4
  WaitTimeOut = 5
  Scenes <- MCScenes
INVARIANTS
  TypeOK
  SentInTime
  WaitingSendsNoNE
  ListsAgree
PROPERTIES
  NEEnds
  RelayingSpec
