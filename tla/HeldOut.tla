------------------------------- MODULE HeldOut -------------------------------
(***************************************************************************)
(* Training and held-out evaluation of a planner: RunHeldOut of            *)
(* internal/planner/experiment.go.                                         *)
(*                                                                         *)
(* A phase trains on the states of some seeds and then evaluates on those  *)
(* of others.  Without a factory of its own every state is a snapshot of   *)
(* the experiment's, so what could carry a lesson over is the rule tables  *)
(* behind a state: "fresh" as they were given, or "taught".                *)
(***************************************************************************)
EXTENDS Naturals, Sequences

Tables == {"fresh", "taught"}

\* ValidateSeedPartitions: no seed twice, and none on both sides.
ValidPartition(training, heldOut) ==
  \A i, j \in DOMAIN (training \o heldOut) :
    (training \o heldOut)[i] = (training \o heldOut)[j] => i = j

\* Where a phase is: the seeds it has trained on, the results it has, and the tables
\* that every snapshot is taken of.
NewPhase == [trained |-> << >>, results |-> << >>, tables |-> "fresh"]

\* The planner is trained on a snapshot, whose tables are its own.
Trained(phase, seed) == [phase EXCEPT !.trained = Append(@, seed)]

\* A held-out state is a fresh snapshot with every worm frozen, and counts when its
\* tables are afterwards what they were.
Evaluated(phase, seed) ==
  [phase EXCEPT !.results = Append(@, [seed |-> seed, tables |-> phase.tables])]

=============================================================================
