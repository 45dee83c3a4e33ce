SPECIFICATION KeyboardSpec
CONSTANTS
  MaxPackets = 1
  MaxOrder = 1
  MaxHeld = 1
INVARIANT ConfirmedShoots
CHECK_DEADLOCK FALSE
