SPECIFICATION MCSpec
CONSTANTS
  Databases <- MCDatabases
  NoDatabase = NoDatabase
  EnvelopeBytes = 2
  MaxTransferBytes = 5
  MaxUncompressedBytes = 3
  MaxChunkBytes = 2
  MaxChunks = 3
  ServerChunk = 2
  MaxReplies = 2
  Layout <- WorldLayout
  Records <- RecordNames
  Kinds <- ObstacleKinds
  Outer <- OuterNames
  Limit <- MCLimit
  Sizes = {79, 84, 181}
  TextLengths = {1}
  Indices <- MCIndices
  Rewinds <- MCRewinds
INVARIANTS
  TransferBounded
  WorldExact
  NeverStalls
  KeptWithinBytes
  TotalBounded
  MeshSound
CHECK_DEADLOCK FALSE
