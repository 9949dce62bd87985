SPECIFICATION Spec
CONSTANTS
  User = {u1, u2}
  NullUser = nu
  Tile = {home, away}
  StartTile = home
  FactionName = {neutral}
  EmptyName = empty
  Neutral = neutral
  Addr = {a1, a2}
  FD = {3}
  NoAddr = noaddr
  NoSD = nosd
  NoSession = nosession
  Request <- WithObserve
  MaxBatch = 1
  ReuseAddr = FALSE
  NewFactionUpdated = FALSE
  MaxRestarts = 1
INVARIANTS MappedIsLoggedIn
PROPERTIES LockedOutForever AccountsKept SavedOnLogout
SYMMETRY Symmetry
