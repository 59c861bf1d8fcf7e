SPECIFICATION FairSpec
CONSTANTS
  SampleEvery = 2
  Configs <- MCConfigs
  Servers <- MCServers
  Window = 2
  MaxSends = 3
  MaxBytes = 2
INVARIANTS
  TypeOK
  AnswerPairedWithEarlierSend
  PairingExactWhileClean
  RequestsAccountedFor
  GracefulDrain
PROPERTIES
  ConnectionSpec
  ShutdownEndsWorker
  LifetimeEndsWorker
\* The worker and the reader end.
CHECK_DEADLOCK FALSE
