SPECIFICATION FairSpec
CONSTANTS
  MaxNews = 3
  Discipline <- AllDisciplines
  Cases <- WellOrFailing
INVARIANTS
  TypeOK
  NodeKnown
  NodeAtHand
  NoThreadLeft
PROPERTIES
  WaitsEnd
CHECK_DEADLOCK FALSE
