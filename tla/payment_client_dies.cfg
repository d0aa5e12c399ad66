SPECIFICATION FairSpec
CONSTANTS
  Instances = {p1, p2, p3}
  None = none
  MaxRequests = 2
  MaxLinks = 1
  Discipline <- AllButClientLives
  Cases <- OnlyAllButClientLives

CHECK_DEADLOCK FALSE
PROPERTY HandlerReturns
