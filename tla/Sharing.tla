------------------------------- MODULE Sharing -------------------------------
(***************************************************************************)
(* How worms learn from each other's tables: Derive of                     *)
(* internal/sharing/sharing.go.                                            *)
(*                                                                         *)
(* A worm is its label, and labels are numbers, for their order matters.   *)
(* A table maps the keys it has to values; the engine's table has every    *)
(* pattern as a key, a rule library only some.  What the seed decides, the *)
(* rules that are corrupted on their way, is the constant Noise.           *)
(***************************************************************************)
EXTENDS Integers, FiniteSets

CONSTANTS Worm,      \* the labels of the sources, in their order
          Key,       \* the keys of rule tables
          TeamOf,    \* the team of each worm, or Teamless
          Noise      \* {<<recipient, donor, key>>} the seed corrupts

Teamless == "teamless"       \* the empty string in the code

ASSUME SharingAssumption ==
  /\ Worm \subseteq Nat
  /\ IsFiniteSet(Worm)
  /\ DOMAIN TeamOf = Worm
  /\ Noise \subseteq Worm \X Worm \X Key

Policy == {"none", "same_team", "all_worms", "seeded_noisy"}

Value == -3 .. 5             \* the engine's actions: three sentinels, six spokes
Table == UNION {[keys -> Value] : keys \in SUBSET Key}

\* corrupt: the next spoke; a sentinel becomes a spoke.
Corrupt(v) == (v + 7) % 6

\* Fault: two worms without a team count as one team.
DonorsTeamless(policy, w) ==
  CASE policy = "none"      -> {}
    [] policy = "same_team" -> {v \in Worm \ {w} : TeamOf[v] = TeamOf[w]}
    [] OTHER                -> Worm \ {w}

\* The worms that w listens to.
Donors(policy, w) ==
  CASE policy = "none"      -> {}
    [] policy = "same_team" ->
         {v \in Worm \ {w} : TeamOf[v] # Teamless /\ TeamOf[v] = TeamOf[w]}
    [] OTHER                -> Worm \ {w}

\* What w hears from donor v under key k.
Heard(policy, tables, w, v, k) ==
  IF policy = "seeded_noisy" /\ <<w, v, k>> \in Noise
  THEN Corrupt(tables[v][k]) ELSE tables[v][k]

\* The donors that have a rule under k.
Tellers(policy, tables, w, k) == {v \in Donors(policy, w) : k \in DOMAIN tables[v]}

Earliest(tellers) == CHOOSE v \in tellers : \A u \in tellers : v <= u

\* Derive, for one recipient: of the donors the first in the order of the labels
\* is believed, and the recipient's own rule stays where no donor has one.
Derive(policy, tables, w) ==
  [k \in DOMAIN tables[w] \cup {k \in Key : Tellers(policy, tables, w, k) # {}} |->
     LET tellers == Tellers(policy, tables, w, k)
     IN  IF tellers = {} THEN tables[w][k]
         ELSE Heard(policy, tables, w, Earliest(tellers), k)]

=============================================================================
