SPECIFICATION FairSpec
CONSTANTS
  Ids = {p1}
  Width = 3
  Capacity = 2
  StepTime = 2
  MaxSends = 5
INVARIANT Faithful
PROPERTIES InOrder ComesToRest
