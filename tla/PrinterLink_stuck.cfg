SPECIFICATION Spec
CONSTANTS
  MaxConn = 2
INVARIANTS
  SubscribedIsOnline
CHECK_DEADLOCK FALSE
