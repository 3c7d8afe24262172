\* A checkpointer that is still at work when the server shuts down.
SPECIFICATION Spec
CONSTANTS
  MaxGeneration = 2
  MaxVersion = 1
  MaxRestarts = 0
  Failures <- Nothing
  Kills <- Nothing
  None = None
INVARIANT DbShutdownFlushesAll
CHECK_DEADLOCK FALSE
