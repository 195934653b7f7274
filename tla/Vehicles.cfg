SPECIFICATION FairSpec
CONSTANTS
  Maps <- TwoMaps
  Terrain <- TheirTerrain
  Harbour <- Start
  Origin <- Shore
  SkillTargets <- Coast
  Height = 2
  MaxCommands = 3
INVARIANTS Riding OwnMusic NotStranded
PROPERTIES Released
