SPECIFICATION Spec
CONSTANTS
  Routines = {"ask"}
  Code <- Fetching
  PageFor <- FetchPages
  CallLimit = 2
  LoopLimit = 4
  Patience = 5
  ScenesMeet = TRUE
  MaxIntrusions = 2
PROPERTIES YieldRepeatRepeats
CHECK_DEADLOCK FALSE
