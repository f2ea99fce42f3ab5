------------------------------- MODULE MCEngine -------------------------------
(* Instances of the engine for TLC: controllers, rule tables and boards.     *)
EXTENDS EngineReplay

\* A complete generated table: the lowest free exit of every pattern.
FirstExit == [m \in Mask |-> IF m = Dir THEN DIE ELSE CHOOSE d \in Dir \ m : TRUE]

\* A loaded table: the highest free exit, and death on a dot with one spoke left.
LastExitOrDie ==
  [m \in Mask |-> IF Cardinality(m) >= 5 THEN DIE
                  ELSE CHOOSE d \in Dir \ m : \A e \in Dir \ m : e <= d]

MCTable == [w \in Slot |-> IF w = 1 THEN FirstExit ELSE LastExitOrDie]

\* Four slots, one of each way to find a move: asked, generated, chosen, loaded.
OneOfEach == <<"NEW", "WILD", "AUTO", "SAME">>
MCFour == [w \in Slot |-> OneOfEach[w + 1]]
MCAuto == [w \in Slot |-> "AUTO"]

\* Classic worms share their first dot; modern ones start apart, one of them on
\* the only dot of a 3 x 3 board that six spokes can surround.
MCTogether == [w \in Slot |-> <<1, 1>>]
MCApart == [w \in Slot |-> IF w = 0 THEN <<1, 1>> ELSE <<2, 2>>]
=============================================================================
