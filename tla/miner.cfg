SPECIFICATION FairSpec
CONSTANTS
  Workers = {w1, w2}
  MaxThreads = 2
  MaxTemplate = 5
  MaxNonce = 4
INVARIANTS
  TypeOK
  NoThreadLeaked
  FullCrew
  DistinctNonces
PROPERTIES
  CallsReturn
  TemplateReachesAll
