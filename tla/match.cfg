\* Short games of a session's worm, a policy's and a human's, with one crash and one refused write.
CONSTANTS
  Width = 2
  Height = 2
  Ruleset = "classic"
  N = 3
  Kind <- MCKind
  Table <- MCTable
  FrozenSet = {}
  Start <- MCTogether
  MaxTick = 100
  Controller <- MCController
  Reply <- MCReply
  Outside = {"Submit", "ResolveTimeout", "Disconnect", "Close"}
  MaxCrashes = 1
  MaxFailures = 1
SPECIFICATION MatchSpec
INVARIANTS
  MemoryIsStored
  OneOutcomePerDecision
  DeathsAreAccounted
PROPERTIES
  DeadlineIsKept
  PlaysWhatWasAccepted
\* A game that is over stops.
CHECK_DEADLOCK FALSE
