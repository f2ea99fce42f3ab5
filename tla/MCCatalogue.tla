----------------------------- MODULE MCCatalogue -----------------------------
(* An instance of the catalogue for TLC: two brains, three worms, two keys.  *)
EXTENDS BrainCatalogue

MCTeamOf == [w \in 1 .. 3 |-> IF w = 3 THEN "red" ELSE Teamless]
MCNoise  == {<<1, 2, "k">>}

\* The second worm's table is a library without a rule under one key.
MCTables == <<[k |-> -1, m |-> 2], [k |-> 5], [k |-> 0, m |-> -3]>>

MCSource == [w \in 1 .. 3 |-> Fresh(w - 1)]
MCFirst  == [id \in {Fresh(n) : n \in 0 .. 2} |->
  VersionOf(IF id.fresh = 2 THEN "b" ELSE "a", IF id.fresh = 1 THEN 2 ELSE 1, NoVersion,
            MCTables[id.fresh + 1], "post")]

\* A slot of a match plays the version that is not the latest of its brain.
MCPlays == [p \in {"p"} |-> Fresh(0)]

\* A number that is next and one that leaves a gap.
MCPosted == {<<"a", 3, NoVersion>>, <<"a", 4, Fresh(0)>>}

\* A request for one recipient, and the library's use for all of them.
MCShared == {<<"seeded_noisy", <<1>>, "a">>, <<"all_worms", <<1, 2, 3>>, "b">>}

MCDerivations == <<<<"same_team", 1>>, <<"seeded_noisy", 1>>>>
=============================================================================
