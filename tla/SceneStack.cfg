SPECIFICATION FairSpec
CONSTANTS
  Modes = {"title", "hidden", "load", "battle"}
  MaxScenes = 7
INVARIANT ValidStack
PROPERTIES StartedOnce EnteredFirst FreshAfterTitle ExitEnds ResetReturns
CHECK_DEADLOCK FALSE
