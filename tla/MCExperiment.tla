----------------------------- MODULE MCExperiment -----------------------------
(* An instance of an experiment for TLC: policies that ask everything.        *)
EXTENDS Experiment

MCKind == [w \in Slot |-> "NEW"]
MCTable == [w \in Slot |->
  [m \in Mask |-> IF m = Dir THEN DIE ELSE CHOOSE d \in Dir \ m : TRUE]]
MCTogether == [w \in Slot |-> <<1, 1>>]
MCController == [w \in Slot |-> "policy"]
MCReply == [w \in Slot |-> {Move(0), Move(1), Resign, Fails}]

MCOwn == [name |-> "own", training |-> <<1>>, heldOut |-> <<2>>]

\* Another experiment, and one whose seeds overlap.
MCOthers == {[name |-> "other", training |-> <<1>>, heldOut |-> <<2>>],
             [name |-> "own", training |-> <<1>>, heldOut |-> <<1>>]}
=============================================================================
