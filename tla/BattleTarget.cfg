SPECIFICATION Spec
CONSTANTS
  Actors = {"a1", "a2"}
  Party <- Two
  Troop <- Monsters
  Ambush = {}
  AutoBattlers = {}
  Types <- Casts
  Agility <- Fast
  AttackAll = {}
  Preemptive = {}
  Inflicted <- Suffers
  Pages = {"p"}
  Effects = {"leave", "join", "show", "hide", "flee", "gameover", "terminate"}
  MaxCommands = 1
  MaxStrays = 1
  Repeats = {2}
  NoOne = "noone"
INVARIANTS SkillHasTarget
