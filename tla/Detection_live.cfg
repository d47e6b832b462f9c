SPECIFICATION FairSpec
CONSTANTS
  MaxPrints = 1
  MaxLayer = 0
PROPERTIES CameraFreed InspectsAgain
