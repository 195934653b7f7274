SPECIFICATION FairSpec
CONSTANTS
  Routines = {"talk", "spin", "help", "aside"}
  Code <- Scripts
  PageFor <- ScriptPages
  CallLimit = 2
  LoopLimit = 4
  Patience = 3
  ScenesMeet = FALSE
  MaxIntrusions = 5
PROPERTIES ImplementsScript OneCommandForScene UpdateReturns ScriptGoesOn
