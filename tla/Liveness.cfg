SPECIFICATION FairSpec
CONSTANTS
  User = {u1}
  NullUser = nu
  Tile = {home}
  StartTile = home
  FactionName = {neutral}
  EmptyName = empty
  Neutral = neutral
  Addr = {a1, a2}
  FD = {3}
  NoAddr = noaddr
  NoSD = nosd
  NoSession = nosession
  Request <- LoginLogout
  MaxBatch = 1
  ReuseAddr = FALSE
  NewFactionUpdated = TRUE
  MaxRestarts = 0
PROPERTIES Reaped RequestsRead
