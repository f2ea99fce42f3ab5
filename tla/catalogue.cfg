\* Two runs of one experiment beside a posting client, two updates, a share and a match.
CONSTANTS
  Worm = {1, 2, 3}
  Key = {"k", "m"}
  TeamOf <- MCTeamOf
  Noise <- MCNoise
  Brain = {"a", "b"}
  Source <- MCSource
  First <- MCFirst
  Updater = {"u", "v"}
  Sharer = {"s"}
  Pupil = {"p"}
  Plays <- MCPlays
  Run = {"r", "q"}
  Derivations <- MCDerivations
  Page = 4
  Posted <- MCPosted
  Shared <- MCShared
  MaxRequests = 2
SPECIFICATION CatalogueSpec
INVARIANTS
  AppendsNeverFork
  RulesHaveASource
  RunsAgree
PROPERTIES
  FailsOnlyForCause
  RunsComplete
\* Every request may be answered and every run done.
CHECK_DEADLOCK FALSE
