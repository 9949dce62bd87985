SPECIFICATION FairSpec
CONSTANTS
  worldWidth = 2
  Unit = unit
  Tree = tree
  Empty = empty
  speed <- Speeds
  MoveEnd = 1
  Scenarios <- AllScenarios
  MaxObjects = 3
INVARIANTS WorldTypeOK UnitsOnTheirTiles NoPhantoms
PROPERTIES TreesStay MovesEnd
