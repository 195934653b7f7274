SPECIFICATION FairSpec
CONSTANTS
  Maps <- TwoMaps
  EventsOf <- TheirEvents
  PageOf <- TheirPages
  Common <- OneCommon
  TeleportsTo <- Ways
  CallDepth = 2
  LoopLimit = 2
INVARIANTS ForegroundOK NothingOverlooked
PROPERTIES ForegroundReturns Served
