SPECIFICATION Spec
CONSTANTS
  Client = {c1, c2}
  Nobody = nobody
  Kind = {short, long}
  NoKind = nokind
  c1 = c1
  c2 = c2
  short = short
  long = long
  size <- Sizes
  TypeLength = 2
  maxRecvBufLen = 4
  MaxMessages <- Limits
INVARIANTS FramingTypeOK NothingOfOthers MessagesWhole EveryByteOnce
CHECK_DEADLOCK FALSE
