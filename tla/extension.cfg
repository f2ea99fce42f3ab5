\* Whole games of a taught and a WILD worm on a bounded board: without extensions,
\* with fading trails, with walls, and in a seeded world.
CONSTANTS
  Width = 3
  Height = 3
  Ruleset = "modern"
  N = 2
  Kind <- MCKinds
  Table <- MCTable
  FrozenSet = {}
  Start <- MCStarts
  MaxTick = 100
  Team = {"red", "blue"}
  Configs <- MCConfigs
SPECIFICATION SpecExtended
INVARIANTS
  RefusedOnlyForCause
  ExpiryFreesBothEnds
  EnergyIsPaidPerTurn
  QuestionIsAnswerable
  StallNeedsAnIllegalRule
PROPERTIES
  OnlyExpiryTakesBack
CHECK_DEADLOCK FALSE
