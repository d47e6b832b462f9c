SPECIFICATION Spec
CONSTANTS
  MaxPrints = 2
  MaxLayer = 1
INVARIANTS QuietWhenOff PendingExplained NoLostWake
PROPERTY OnePause
