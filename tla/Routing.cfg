SPECIFICATION FairSpec
CONSTANTS
  m = m
  a = a
  b = b
  Nodes = {m, a, b}
  Master = m
  NoHop = NoHop
  Mixed = Mixed
  NoPB = NoPB
  Idle = Idle
  InBuffer = InBuffer
  UNREACHABLE = 16
  WORST_QUALITY = WORST
  Magnitude = 4
  Networks <- MCNetworks
INVARIANTS
  TypeOK
  TablesInOrder
  UsedBothWays
  NeverOptimistic
  NoLoops
  NoCrash
PROPERTIES
  DroppedInFlux
  ComesToRest
  DeliverySpec
CHECK_DEADLOCK FALSE
