SPECIFICATION Spec
CONSTANTS
  User = {u1}
  NullUser = nu
  Tile = {home}
  StartTile = home
  FactionName = {neutral, f1, f2}
  EmptyName = empty
  Neutral = neutral
  Addr = {a1}
  FD = {3}
  NoAddr = noaddr
  NoSD = nosd
  NoSession = nosession
  Request <- WithFactions
  MaxBatch = 1
  ReuseAddr = FALSE
  NewFactionUpdated = FALSE
  MaxRestarts = 0
INVARIANTS OneFactionPerUser
