SPECIFICATION Spec
CONSTANTS
  c1 = c1
  c2 = c2
  Clients = {c1, c2}
  Kinds = {"snapshot", "wait"}
  MaxLoops = 2
  MaxGen = 3
  MaxSeq = 1
SYMMETRY Symmetry
INVARIANTS OneConnection ConsumersServed ClosedIsQuiet IdleIsTimed NoMissedFrame
PROPERTIES GraceIsTheLast LeaseKept
CHECK_DEADLOCK FALSE
