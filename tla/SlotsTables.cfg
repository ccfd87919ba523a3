SPECIFICATION Spec
CONSTANTS
  m0 = m0
  s1 = s1
  s2 = s2
  Master = m0
  Slaves <- TwoSlaves
  None = None
  Offset <- SameClocks
  Skew = 0
  Validity = 1
  TimeslotSize = 2
  Jitter = 1
  Delay = 0
  Late = 0
  MaxTables = 2
  MaxMessages = 2
  MaxTime = 5
INVARIANTS
  TypeOK
  FollowsMadeTable
CHECK_DEADLOCK FALSE
