SPECIFICATION FairSpec
CONSTANTS
  SampleEvery = 2
  Configs <- MCConfigs
  Servers <- MCServers
  Window = 1
  MaxRounds = 3
  MaxExtra = 2
INVARIANTS
  TypeOK
  LatencyLate
  RequestsNeverExceedRounds
  GracefulDrain
PROPERTIES
  ConnectionSpec
  WorkerEndsInTime
\* The worker ends.
CHECK_DEADLOCK FALSE
