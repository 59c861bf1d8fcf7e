SPECIFICATION Spec
CONSTANTS
  SampleEvery = 2
  Configs <- MCPlain
  Servers <- MCPinging
  Window = 2
  MaxRounds = 3
  MaxExtra = 1
INVARIANTS
  AnswerIsOwn
CHECK_DEADLOCK FALSE
