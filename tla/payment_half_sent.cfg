SPECIFICATION Spec
CONSTANTS
  Instances = {p1, p2, p3}
  None = none
  MaxRequests = 3
  MaxLinks = 2
  Discipline <- AllButEndsIdle
  Cases <- OnlyAllButEndsIdle
SYMMETRY Symmetry
CHECK_DEADLOCK FALSE
INVARIANT ShownOnce
