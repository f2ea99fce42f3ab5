\* Two clients, a reader, an export and a crash over short games on a board that fills up.
CONSTANTS
  Width = 2
  Height = 2
  Ruleset = "classic"
  N = 3
  Kind <- MCKind
  Table <- MCTable
  FrozenSet = {}
  Start <- MCTogether
  MaxTick = 100
  Client = {c1, c2}
  PauseStatus = {"paused"}
  MoveDir = {2}
  MaxEvents = 2
SPECIFICATION DiagnosticsSpec
INVARIANTS
  AtMostOnce
  ResumeAnswersTheRow
  BoardStaysSound
  
PROPERTIES
  LogOnlyGrows
SYMMETRY ClientSymmetry
