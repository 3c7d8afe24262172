SPECIFICATION PlainSpec
CONSTANTS
  NUM_READY_VARS = 2
  INT_MAX = 255
  Worlds <- MCWorlds
  Answers <- MCAnswers
  Errors <- MCErrors
  MAX_DEPTH = 3
  TICKS = 30
  MAX_ANSWERS = 3
  MAX_RESTARTS = 1
INVARIANTS RunsAsWritten StackFits TaskSurvives
PROPERTIES DecompileIsInverse EveryTaskStops
CHECK_DEADLOCK FALSE
