SPECIFICATION FairSpec
CONSTANTS
  Actors = {"a1", "a2"}
  Party <- Two
  Troop <- Monsters
  Ambush = {"m2"}
  AutoBattlers = {}
  Types <- Does
  Agility <- Fast
  AttackAll = {"a1"}
  Preemptive = {"a2"}
  Inflicted <- Suffers
  Pages = {"p"}
  Effects = {"leave", "join", "show", "hide", "flee", "gameover", "terminate"}
  MaxCommands = 1
  MaxStrays = 1
  Repeats = {2}
  NoOne = "noone"
INVARIANTS Orderly
PROPERTIES LeftOnce ImplementsRounds RoundEnds
