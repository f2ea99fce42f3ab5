\* Two AUTO worms on a bounded board: nobody has to answer anything.
CONSTANTS
  Width = 3
  Height = 3
  Ruleset = "modern"
  N = 2
  Kind <- MCAuto
  Table <- MCTable
  FrozenSet = {}
  Start <- MCApart
  MaxTick = 100
SPECIFICATION ReplaySpec
INVARIANT NeverStuck
CHECK_DEADLOCK FALSE
