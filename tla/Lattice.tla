------------------------------- MODULE Lattice -------------------------------
(***************************************************************************)
(* The board of internal/engine: dots, the six absolute directions, and    *)
(* the undirected edges between neighbouring dots.                         *)
(*                                                                         *)
(* The code has two boards.  A "classic" board is a torus whose rows are   *)
(* offset (NewClassic, NewToroidal); coordinates start at 1.  A "modern"   *)
(* board is a bounded axial parallelogram (New, NewBounded); coordinates   *)
(* start at 0 and a neighbour may lie off the board.                       *)
(***************************************************************************)
EXTENDS Integers

CONSTANTS Width, Height,     \* State.Width, State.Height
          Ruleset            \* State.Mode, which fixes State.Topology as well

\* newState clamps the dimensions to 1 or more, and Validate refuses a classic
\* torus of odd height.
ASSUME LatticeAssumption ==
  /\ Width \in Nat \ {0}
  /\ Height \in Nat \ {0}
  /\ Ruleset \in {"classic", "modern"}
  /\ Ruleset = "classic" => Height % 2 = 0

Classic == Ruleset = "classic"

\* E, SE, SW, W, NW, NE: absolute, clockwise.
Dir == 0 .. 5

Opposite(d) == (d + 3) % 6

Origin == IF Classic THEN 1 ELSE 0

Point == (Origin .. Origin + Width - 1) \X (Origin .. Origin + Height - 1)

InBounds(p) == p \in Point

Wrap(p) == <<((p[1] - Origin) % Width) + Origin, ((p[2] - Origin) % Height) + Origin>>

RowStep  == <<0, 1, 1, 0, -1, -1>>
AxialStep == <<1, 0, -1, -1, 0, 1>>
OddStep  == <<1, 1, 0, -1, 0, 1>>
EvenStep == <<1, 0, -1, -1, -1, 0>>

ColumnStep(p) ==
  IF Classic THEN IF p[2] % 2 = 1 THEN OddStep ELSE EvenStep
             ELSE AxialStep

Neighbor(p, d) ==
  LET q == <<p[1] + ColumnStep(p)[d + 1], p[2] + RowStep[d + 1]>>
  IN  IF Classic THEN Wrap(q) ELSE q

\* A trail is one canonical undirected record (NewEdge sorts its endpoints): a
\* set of two dots, so that no direction is part of its identity.
EdgeOf(p, d) == {p, Neighbor(p, d)}

\* The edges a trail may occupy: Step refuses a destination off the board.
Edge == {EdgeOf(p, d) : p \in Point, d \in Dir} \cap SUBSET Point

\* A local pattern: the set of directions whose spoke is occupied (the raw
\* six-bit mask of the code; Dir itself is 63).
Mask == SUBSET Dir

=============================================================================
