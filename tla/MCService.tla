------------------------------ MODULE MCService ------------------------------
(* An instance of the game service for TLC: two clients, an export and a short game.    *)
EXTENDS Diagnostics, TLC

\* The last worm asks; those before it walk ahead and never ask.
MCKind == [w \in Slot |-> IF w = N - 1 THEN "NEW" ELSE "WILD"]
MCTable == [w \in Slot |->
  [m \in Mask |-> IF m = Dir THEN DIE ELSE CHOOSE d \in Dir \ m : TRUE]]
MCTogether == [w \in Slot |-> <<1, 1>>]

\* Clients are interchangeable, and no liveness is checked here.
ClientSymmetry == Permutations(Client)
=============================================================================
