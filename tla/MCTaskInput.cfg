\* Typed, forced, held, read and flushed input of one connection that may hang up.
SPECIFICATION Spec
CONSTANTS
  Players = {1}
  Wizards = {1}
  Handles = {1}
  Queues <- FiveQueues
  HiWat = 2
  TaskLimit <- NoLimit
  Forever = 9
  Verbs = {1}
  Builtins = {"read", "read_now", "kill_task", "hold_input", "force_input", "flush_input"}
  Typed = {"cmd", "oob"}
  Delays <- NoDelay
  MaxTime = 0
  Ids = {1, 2}
  MaxInput = 3
INVARIANTS
  NoPanic
  InputIsNeverStuck
