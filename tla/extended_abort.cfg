\* The service's operations on a game with walls.
CONSTANTS
  Width = 3
  Height = 3
  Ruleset = "modern"
  N = 2
  Kind <- MCKinds
  Table <- MCTable
  FrozenSet = {}
  Start <- MCStarts
  MaxTick = 100
  Team = {"red", "blue"}
  Configs <- MCWalled
SPECIFICATION SpecServed
INVARIANT AbortGoesThrough
CHECK_DEADLOCK FALSE
