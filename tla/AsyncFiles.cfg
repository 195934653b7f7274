SPECIFICATION FairFilesSpec
CONSTANTS
  Files = {f1, f2}
  Clients = {c1, c2}
  MaxBinds = 3
INVARIANT CalledOnce
PROPERTIES NewestWins SameAnswer Answered ImportantArrive
CHECK_DEADLOCK FALSE
