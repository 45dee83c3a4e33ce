SPECIFICATION MCSpec
CONSTANTS
  MaxPackets = 2
  MaxOrder = 2
  MaxHeld = 1
  Greetings = {"ok", "refused", "foreign", "full"}
  Scripts <- MCScripts
  VersionBytes = 8
  HeaderBytes = 4
  MaxPacketBytes = 9
  MaxStreamBytes = 22
  MaxPacketsPerPush = 3
  MaxPayload = 1020
  Counts = {0, 1, 2}
  Verbatim <- MCVerbatim
  Prefixed <- MCPrefixed
INVARIANTS
  GateMatchesPhysics
  PhaseAgrees
  AskedOnce
  ActsInPlay
  FramesExact
  NeverThrows
  RoundTrip
CHECK_DEADLOCK FALSE
