SPECIFICATION FairSpec
CONSTANTS
  SampleEvery = 2
  Configs <- MCPlain
  Servers <- MCPinging
  Window = 1
  MaxRounds = 3
  MaxExtra = 1
PROPERTIES
  DurationEndsWorker
CHECK_DEADLOCK FALSE
