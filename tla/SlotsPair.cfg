SPECIFICATION Spec
CONSTANTS
  m0 = m0
  s1 = s1
  s2 = s2
  Master = m0
  Slaves <- OneSlave
  None = None
  Offset <- SlaveAhead
  Skew = 1
  Validity = 1
  TimeslotSize = 5
  Jitter = 3
  Delay = 1
  Late = 1
  MaxTables = 1
  MaxMessages = 2
  MaxTime = 16
INVARIANTS
  HandOversApart
  WaitBounded
CHECK_DEADLOCK FALSE
