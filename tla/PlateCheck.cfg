SPECIFICATION Spec
CONSTANTS
  Reported = {"IDLE", "PREPARE", "RUNNING"}
  Numbers = {0, 2}
  QueueCap = 2
  FirstLayerOn = TRUE
INVARIANTS StopShown OneRetry
CHECK_DEADLOCK FALSE
PROPERTIES StopsOnce AttachedNotStopped CommandsFit
