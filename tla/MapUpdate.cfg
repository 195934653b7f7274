SPECIFICATION FairSpec
CONSTANTS
  Maps <- MCMaps
  EventsOf <- MCEventsOf
  NumCommon = 2
  LoopLimit = 2
  MaxLoads = 1
  MaxDrops = 1
INVARIANTS NoSkippedResume LostOnlyToMakeWay
PROPERTIES BudgetNotRenewed RunsEachUnitOnce FrameEnds
