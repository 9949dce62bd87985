SPECIFICATION Spec
CONSTANTS
  worldWidth = 2
  Unit = unit
  Tree = tree
  Empty = empty
  speed <- Speeds
  MoveEnd = 1
  Scenarios <- SpawnOnly
  MaxObjects = 2
INVARIANTS SpawnTileStillFree
