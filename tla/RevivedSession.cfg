SPECIFICATION Spec
CONSTANTS
  MaxPackets = 1
  MaxOrder = 1
INVARIANT EndsForGood
CHECK_DEADLOCK FALSE
