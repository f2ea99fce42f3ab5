CONSTANTS
  Width = 3
  Height = 2
  Ruleset = "classic"
  N = 2
  Kind <- MCKind
  Table <- MCTable
  FrozenSet = {}
  Start <- MCTogether
  MaxTick = 100
  Client = {c1, c2}
  PauseStatus = {"paused"}
  MoveDir = {0, 1}
  MaxEvents = 2
SPECIFICATION ServiceSpec
PROPERTY CompletionIsRecorded
