SPECIFICATION FairSpec
CONSTANTS
  SampleEvery = 2
  Configs <- MCConfigs
  Servers <- MCServers
  Window = 2
  MaxRounds = 5
  MaxBytes = 2
INVARIANTS
  TypeOK
  AnswerIsOwn
  RoundsAccountedFor
  CountsNeverExceedAnswers
PROPERTIES
  ConnectionSpec
  ShutdownEndsWorker
  LifetimeEndsWorker
\* The worker ends.
CHECK_DEADLOCK FALSE
