\* Two contexts, one thread at a time: lookups are given up, capped and refused.
SPECIFICATION FairSpec
CONSTANTS
  c1 = c1
  c2 = c2
  numeric = numeric
  host = host
  Contexts <- ContextSet
  Names <- BothNames
  Numeric <- NumericNames
  MAX_OUTSTANDING_LOOKUPS = 1
  None = None
INVARIANTS
  LiveWhileHeld
  ThreadsBounded
  SlotsReturned
  AnswerIsForTheQuestion
PROPERTIES
  LookupReturns
