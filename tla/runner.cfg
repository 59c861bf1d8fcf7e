SPECIFICATION FairSpec
CONSTANTS
  Targets = 1
  Connections = 3
  ConnectRates = {0, 2, 3, 4}
  U32Values = 3
  MaxSlot = 1
  MaxCount = 1
INVARIANTS
  TypeOK
  ReportExact
  NobodyMissesShutdown
  OnePerSlot
PROPERTIES
  ReportIsFinal
  ReportIsPrinted
\* The program ends.
CHECK_DEADLOCK FALSE
