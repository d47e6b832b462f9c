SPECIFICATION FairSpec
CONSTANTS
  Keys = {nokey, a}
  NoKey = nokey
  nokey = nokey
  a = a
  Nil = Nil
  QueueCap = 2
  MaxAttempts = 2
  MaxReports = 3
  MaxWorkers = 3
INVARIANTS JoinedAtReturn
PROPERTY WorkersEnd
CHECK_DEADLOCK FALSE
