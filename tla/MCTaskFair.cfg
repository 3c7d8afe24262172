\* Boots, hang-ups and ready tasks, under the fairness of the main loop.  A verb runs
\* as the first player, a wizard, or as the connection.
SPECIFICATION FairSpec
CONSTANTS
  Players = {1, 2}
  Wizards = {1}
  Handles = {1}
  Queues <- FiveQueues
  HiWat = 2
  TaskLimit <- NoLimit
  Forever = 9
  Verbs <- AliceAndConnection
  Builtins = {"fork", "read", "boot_player"}
  Typed = {"cmd", "blank"}
  Delays <- NoDelay
  MaxTime = 0
  Ids = {1, 2, 3}
  MaxInput = 1
PROPERTIES
  BootedIsClosed
  OrphanIsResumed
  ReadyTaskRuns
