\* An experiment run three times and more: two reports, one stop, one refused write,
\* another definition and one with overlapping seeds.
CONSTANTS
  Width = 2
  Height = 2
  Ruleset = "classic"
  N = 2
  Kind <- MCKind
  Table <- MCTable
  FrozenSet = {}
  Start <- MCTogether
  MaxTick = 100
  Controller <- MCController
  Reply <- MCReply
  Outside = {}
  MaxTurns = 4
  MaxCrashes = 1
  MaxFailures = 1
  Own <- MCOwn
  Others <- MCOthers
  MaxReports = 2
SPECIFICATION ExperimentSpec
INVARIANTS
  TerminalRowIsTrue
  OutcomesAreCounted
  CapHolds
  ReportsTellTheGame
PROPERTIES
  FinishedIsFinal
  ExperimentCompletes
\* The reports have been given.
CHECK_DEADLOCK FALSE
