SPECIFICATION Spec
CONSTANTS
  MainThread = {main}
  HandlerThread = {handler}
  WorldBroadcastThread = {world}
  FactionBroadcastThread = {factions}
INVARIANTS NoDeadlock NeverShared
