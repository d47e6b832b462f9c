SPECIFICATION Spec
CONSTANTS
  Keys = {nokey, a}
  NoKey = nokey
  nokey = nokey
  a = a
  Nil = Nil
  QueueCap = 2
  MaxAttempts = 2
  MaxReports = 3
  MaxWorkers = 2
INVARIANT PendingIsOngoing
CHECK_DEADLOCK FALSE
