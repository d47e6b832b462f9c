SPECIFICATION Spec
CONSTANTS
  Reported = {"IDLE", "PREPARE", "RUNNING", "PAUSE"}
  Numbers = {0, 2, 3}
  QueueCap = 1
  FirstLayerOn = TRUE
INVARIANT OneRetryPerJob
CHECK_DEADLOCK FALSE
