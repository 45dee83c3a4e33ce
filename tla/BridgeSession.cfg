SPECIFICATION GateSpec
CONSTANTS
  Payloads <- MCPayloads
  Channel <- MCChannel
  Size <- MCSize
  MaxUdpBytes = 2
  MaxBufferedBytes = 3
  GreetingBytes = 3
  ChunkBytes = 2
  IdleLimit = 2
  MaxMessages = 4
  MaxStream = 6
INVARIANTS
  OnlyGenuineTargets
  InOrderNoneLost
  GaplessClientStream
  PendingBytesExact
  NothingLeftBehind
  DeadlineCoversPreflight
PROPERTIES
  ClosedIsFinal
  ImplementsRelay
  GateSettles
CHECK_DEADLOCK FALSE
