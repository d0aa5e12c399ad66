SPECIFICATION Spec
CONSTANTS
  MaxNews = 3
  Discipline <- AllButQuietStop
  Cases <- OnlyAllButQuietStop
INVARIANTS
  NodeAtHand
CHECK_DEADLOCK FALSE
