SPECIFICATION FairSpec
CONSTANTS
  Foreground = "f"
  Parallels <- Order
  Changing = {"p"}
  Says <- Scripts
  MaxLines = 3
  OpenFrames = 2
  Waits = {0, 1}
  NoOne = "noone"
INVARIANTS Conversation
PROPERTIES SpeakersGoOn
