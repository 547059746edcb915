CONSTANTS
  NS_MAX = 2
  COMMIT_SLOTS = 3
  Effects <- MCEffects
  Steps = {1, 2}
  Holdings <- MCHoldings
  Missions = {1, 2}
  IOFails = TRUE
SPECIFICATION FairSpec
INVARIANTS
  StoreSound
PROPERTIES
  HistoryKept
  ImplementsLog
  EveryRequestEnds
