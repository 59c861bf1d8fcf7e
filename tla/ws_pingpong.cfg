SPECIFICATION FairSpec
CONSTANTS
  SampleEvery = 2
  Configs <- MCConfigs
  Servers <- MCServers
  Window = 2
  MaxRounds = 4
  MaxExtra = 2
INVARIANTS
  TypeOK
  LatencyLag
  RoundsAccountedFor
PROPERTIES
  ConnectionSpec
  WorkerEndsInTime
\* The worker ends.
CHECK_DEADLOCK FALSE
