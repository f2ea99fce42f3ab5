\* Whole games of four worms, one of each kind, on a torus where the row above a
\* dot and the row below it differ.
CONSTANTS
  Width = 2
  Height = 4
  Ruleset = "classic"
  N = 4
  Kind <- MCFour
  Table <- MCTable
  FrozenSet = {}
  Start <- MCTogether
  MaxTick = 100
SPECIFICATION ReplaySpec
INVARIANTS
  TypeOK
  StateValidates
  CachedMasksAreFresh
  SlotOrder
  PendingIsCurrent
  OverAfterWholeScan
  ReplayReproducesState
PROPERTIES
  Permanent
  GameEnds
\* A game that is over stops.
CHECK_DEADLOCK FALSE
