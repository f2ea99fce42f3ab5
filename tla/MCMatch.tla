------------------------------- MODULE MCMatch -------------------------------
(* An instance of a match for TLC: every worm asks at every new pattern.      *)
EXTENDS Match

MCKind == [w \in Slot |-> "NEW"]
MCTable == [w \in Slot |->
  [m \in Mask |-> IF m = Dir THEN DIE ELSE CHOOSE d \in Dir \ m : TRUE]]
MCTogether == [w \in Slot |-> <<1, 1>>]

\* The first slot has the session, the last one a human.
MCController == [w \in Slot |-> IF w = 0 THEN "session"
                                ELSE IF w = N - 1 THEN "human" ELSE "policy"]
MCReply == [w \in Slot |-> IF w = 0 THEN {Move(0), Resign, Fails}
                           ELSE IF w = N - 1 THEN {Move(0), Move(1), Resign}
                           ELSE {Move(1), Fails}]
=============================================================================
