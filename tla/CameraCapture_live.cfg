SPECIFICATION FairSpec
CONSTANTS
  Clients = {c1, c2}
  c1 = c1
  c2 = c2
  Kinds = {"wait"}
  MaxLoops = 2
  MaxGen = 2
  MaxSeq = 1
PROPERTIES IdleStops CloseEnds
CHECK_DEADLOCK FALSE
