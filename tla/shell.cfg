\* Two goroutines beside the event thread, and one game that is open or not.
CONSTANTS
  Worker = {w1, w2}
  Game = {g1}
  NoGame = NoGame
SPECIFICATION ShellSpec
INVARIANTS
  OneOwner
  NothingStranded
  LastPauseWins
PROPERTY IntentsAreServed
