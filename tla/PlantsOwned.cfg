SPECIFICATION Spec
CONSTANTS
  worldWidth = 3
  poolCount = 1
  Elevated <- ThreeHeights
  cliffThreshold = 4
  RampWidths = {1}
  MaxRamps = 0
  Equators = {300}
  poolMultiplier = 100
  unitAttempts = 0
  MaxPlants = 1
INVARIANT PlantsAreNeutral
CHECK_DEADLOCK FALSE
