\* Three object numbers, two calls of move() or recycle() in their verbs.
SPECIFICATION Spec
CONSTANTS
  s1 = s1
  s2 = s2
  Slots <- SlotSet
  MaxObject = 2
SYMMETRY SlotSymmetry
INVARIANTS
  ListsAgree
  NoLoops
  NoAssertionFails
PROPERTIES
  AncestryIsKept
CHECK_DEADLOCK FALSE
