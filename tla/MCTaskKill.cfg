\* Two programmers fork, suspend, kill and resume each other's tasks while the
\* clock ticks and a player is recycled.
SPECIFICATION Spec
CONSTANTS
  Players = {1, 2}
  Wizards = {1}
  Handles = {1}
  Queues <- FiveQueues
  HiWat = 2
  TaskLimit = 1
  Forever = 9
  Verbs = {1, 2}
  Builtins = {"fork", "suspend", "kill_task", "resume", "recycle"}
  Typed = {"cmd"}
  Delays <- NowOrNever
  MaxTime = 1
  Ids = {1, 2, 3}
  MaxInput = 1
INVARIANTS
  TypeOK
  RunningQueueIsFirst
  QueueLists
