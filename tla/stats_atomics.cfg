SPECIFICATION Spec
CONSTANTS
  pingpong = pingpong
  pipeline = pipeline
  Recorders <- MCRecorders
  LatencyFirst <- MCLatencyFirst
  SampleEvery = 1
  MaxAnswers = 2
  MaxTime = 1
INVARIANTS
  TypeOK
  QpsNeverUnderflows
  LiveIntervalsAddUp
PROPERTIES
  CountersNeverDecrease
  StatsSpec
\* Workers, main and printer end.
CHECK_DEADLOCK FALSE
