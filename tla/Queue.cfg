SPECIFICATION Spec
CONSTANTS
  p1 = p1
  p2 = p2
  c1 = c1
  c2 = c2
  c3 = c3
  c4 = c4
  a = a
  b = b
  Producers = {p1, p2}
  Consumer = Consumer
  Cells = {c1, c2, c3, c4}
  Packets = {a, b}
  Priorities = {0, 1}
  None = None
INVARIANTS
  TypeOK
  ListShape
  PointersAlive
  PopsInPlace
PROPERTIES
  AbstractQueue
