SPECIFICATION Spec
CONSTANTS
  Payloads <- MCPayloads
  Channel <- MCChannel
  Size <- MCSize
  MaxUdpBytes = 2
  MaxBufferedBytes = 3
  GreetingBytes = 2
  ChunkBytes = 2
  IdleLimit = 1
  MaxMessages = 2
  MaxStream = 3
INVARIANT
  HeldUntilUdpConnected
CHECK_DEADLOCK FALSE
