SPECIFICATION FairSpec
CONSTANTS
  SampleEvery = 2
  Configs <- MCLifetime
  Servers <- MCSilentServer
  Window = 2
  MaxRounds = 3
  MaxBytes = 2
PROPERTY LifetimeIsKept
CHECK_DEADLOCK FALSE
