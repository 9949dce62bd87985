SPECIFICATION FairSpec
CONSTANTS
  worldWidth = 3
  poolCount = 2
  Elevated <- ThreeHeights
  cliffThreshold = 4
  RampWidths = {1, 2}
  MaxRamps = 1
  Equators = {1, 300}
  poolMultiplier = 100
  unitAttempts = 1
  MaxPlants = 1
INVARIANTS StartTypeOK WaterHeld PoolSizesRight PoolsKnown RockAtCliffs FertilityFades OrderOfVisitsFree ObjectsOnTheirTiles
PROPERTIES GroundOnlyRises SearchAdvances AllPoolsFilled WavesProgress
CHECK_DEADLOCK FALSE
