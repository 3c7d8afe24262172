\* Overlapping checkpoints, failures, deaths and one restart.
SPECIFICATION Spec
CONSTANTS
  MaxGeneration = 3
  MaxVersion = 2
  MaxRestarts = 1
  Failures <- AllFailures
  Kills <- Everybody
  None = None
INVARIANTS
  RestartLoads
  SavedIsLoaded
  SuccessIsTrue
  ShutdownSaves
  ZombiesAreReaped
CHECK_DEADLOCK FALSE
