\* Two connections log in as the same player, with background tasks of the
\* player and of the first connection queued, tasks that read a connection, and
\* tasks that are killed.
SPECIFICATION Spec
CONSTANTS
  Players = {1}
  Wizards = {1}
  Handles = {1, 2}
  Queues <- FiveQueues
  HiWat = 2
  TaskLimit <- NoLimit
  Forever = 9
  Verbs <- AliceAndConnection
  Builtins = {"fork", "kill_task", "read", "open_network_connection"}
  Typed = {"cmd"}
  Delays <- NoDelay
  MaxTime = 0
  Ids = {1, 2, 3}
  MaxInput = 1
INVARIANTS
  OneQueuePerPlayer
  ConnectionHasItsQueue
  BgAccounting
PROPERTIES
  TasksAreConserved
