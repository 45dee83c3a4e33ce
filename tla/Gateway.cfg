SPECIFICATION MCSpec
CONSTANTS
  Conns <- MCConns
  Ips <- MCIps
  MaxSessions = 3
  MaxSessionsPerIp = 2
  Frames <- MCFrames
  MaskBytes = 1
  MaxOverhead = 3
  MaxFrameBytes = 3
  MaxContinuationFrames = 1
  MaxContinuationBytes = 2
  ParserTimeout = 2
  MaxFrames = 3
  Window = 3
  MaxUses = 2
  MaxWeight = 3
  Weights = {0, 1, 2}
  MaxTime = 8
INVARIANTS
  CountsExact
  DeadlineExact
  StoppedIsEmpty
  MessagesWhole
  MemoryBounded
  DeadlineWhileWaiting
  NoFrameOverstays
  SlidingBound
PROPERTIES
  IdleReaped
  ImplementsSlots
CHECK_DEADLOCK FALSE
