\* A run that has stopped its match stops before the row is written, and is called again.
CONSTANTS
  Width = 2
  Height = 2
  Ruleset = "classic"
  N = 2
  Kind <- MCKind
  Table <- MCTable
  FrozenSet = {}
  Start <- MCTogether
  MaxTick = 100
  Controller <- MCController
  Reply <- MCReply
  Outside = {}
  MaxTurns = 4
  MaxCrashes = 1
  MaxFailures = 1
  Own <- MCOwn
  Others <- MCOthers
  MaxReports = 2
SPECIFICATION ExperimentSpec
INVARIANT
  NoWinnerIsFabricated
\* The reports have been given.
CHECK_DEADLOCK FALSE
