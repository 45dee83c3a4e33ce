SPECIFICATION FairSpec
CONSTANTS
  Payloads <- MCPayloads
  Channel <- MCChannel
  Size <- MCSize
  MaxUdpBytes = 2
  MaxBufferedBytes = 3
  GreetingBytes = 2
  ChunkBytes = 2
  IdleLimit = 2
  MaxMessages = 2
  MaxStream = 3
PROPERTY
  ClosedByBrowserEnds
CHECK_DEADLOCK FALSE
