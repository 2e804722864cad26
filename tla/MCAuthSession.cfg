\* Refresh rotation: four overlapping requests, four generations.
SPECIFICATION FairSpec
CONSTANTS
  MaxCalls = 4
  MaxGen = 3
  NoCall = NoCall
INVARIANTS
  TypeOK
  FamilyIsAChain
  AnswersAreTrue
  NoFalseAlarm
PROPERTIES
  ImplementsRefreshFamily
  EveryCallIsAnswered
CHECK_DEADLOCK FALSE
