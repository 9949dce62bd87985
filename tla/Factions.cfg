SPECIFICATION Spec
CONSTANTS
  User = {u1}
  NullUser = nu
  Tile = {home}
  StartTile = home
  FactionName = {neutral, f1, empty}
  EmptyName = empty
  Neutral = neutral
  Addr = {a1}
  FD = {3}
  NoAddr = noaddr
  NoSD = nosd
  NoSession = nosession
  Request <- WithFactions
  MaxBatch = 2
  ReuseAddr = FALSE
  NewFactionUpdated = FALSE
  MaxRestarts = 1
INVARIANTS FactionsAgree
SYMMETRY Symmetry
