\* The checkpoint timer, a task's limit, a connect timeout and a failed dump,
\* interrupted by both signals.
SPECIFICATION Spec
CONSTANTS
  n1 = n1
  n2 = n2
  n3 = n3
  n4 = n4
  Nodes = {n1, n2, n3, n4}
  Null = Null
  Intervals = {1, 2}
  Timeouts = {1}
  Limits = {1}
  Retry = 1
  MaxTime = 2
  MaxIds = 4
INVARIANTS
  SignalsAreSafe
PROPERTIES
  ClockSpec
CHECK_DEADLOCK FALSE
