SPECIFICATION Spec
CONSTANTS
  Targets = 1
  Connections = 3
  ConnectRates = {2}
  U32Values = 4
  MaxSlot = 2
  MaxCount = 0
INVARIANT ConnectRateIsKept
CHECK_DEADLOCK FALSE
