SPECIFICATION FairSpec
CONSTANTS
  Instances = {p1, p2, p3}
  None = none
  MaxRequests = 2
  MaxLinks = 2
  Discipline <- AllDisciplines
  Cases <- OnlyAllDisciplines
PROPERTY
  EachShown
CHECK_DEADLOCK FALSE
