SPECIFICATION FairSpec
CONSTANTS
  SampleEvery = 2
  Configs <- MCEmptyMessage
  Servers <- MCGoodServer
  Window = 2
  MaxSends = 3
  MaxBytes = 2
PROPERTY DurationEndsWorker
CHECK_DEADLOCK FALSE
