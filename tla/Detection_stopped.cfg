SPECIFICATION Spec
CONSTANTS
  MaxPrints = 2
  MaxLayer = 1
PROPERTY StoppedForPrint
