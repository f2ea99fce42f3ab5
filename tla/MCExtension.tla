----------------------------- MODULE MCExtension -----------------------------
(* Instances of the extension for TLC: controllers, tables, configurations.  *)
EXTENDS ExtendedGame

FirstExit == [m \in Mask |-> IF m = Dir THEN DIE ELSE CHOOSE d \in Dir \ m : TRUE]
MCTable == [w \in Slot |-> FirstExit]
MCKinds == [w \in Slot |-> IF w = 0 THEN "NEW" ELSE "WILD"]
MCStarts == [w \in Slot |-> IF w = 0 THEN <<1, 1>> ELSE <<2, 2>>]

\* The one dot of a 3 x 3 board with six neighbours is worth three.
Heavy == [p \in Point |-> IF p = <<1, 1>> THEN 3 ELSE 1]

\* Trails that fade, teams, and energy for a few rounds.
Fading == [ClassicConfig EXCEPT !.enabled = TRUE, !.ttl = 9, !.limit = 9, !.weight = Heavy,
                        !.team = [w \in Slot |-> IF w = 0 THEN "red" ELSE "blue"]]

\* A barred corner and an edge that leads one way.
Walled == [ClassicConfig EXCEPT !.enabled = TRUE, !.barred[<<0, 0>>] = {"obstacle"}, !.limit = 6,
                        !.oneWay = [e \in Edge |-> IF e = {<<1, 1>>, <<2, 1>>} THEN 0 ELSE Free]]

Random == [ClassicConfig EXCEPT !.enabled = TRUE, !.rates = {"hole"}, !.limit = 2]

MCConfigs == {ClassicConfig, Fading, Walled, Random}
MCWalled == {Walled}
MCRandom == {Random}
=============================================================================
