------------------------------ MODULE Experiment ------------------------------
(***************************************************************************)
(* Run and runPolicy of internal/experiment/experiment.go, for one policy  *)
(* on one board: a held-out evaluation of the planner, and a match that a  *)
(* tournament of one round plays (Tournament) and whose row keeps the      *)
(* result.                                                                 *)
(*                                                                         *)
(* The same experiment may be run again and again: after it was refused,   *)
(* after an error, after the process stopped, or to have its report once   *)
(* more.  What it wrote has identifiers of its own (the tournament's and   *)
(* the match's), by which the next run finds it.                           *)
(***************************************************************************)
EXTENDS Tournament, HeldOut

CONSTANTS
  Own,          \* the definition that the first run has
  Others,       \* definitions that are tried under the same identifier, once each
  MaxReports    \* bound on the reports that somebody asks for

\* Config and canonicalDefinition: the part of a definition that matters here.
Definition == [name : STRING, training : Seq(Nat), heldOut : Seq(Nat)]

ASSUME ExperimentAssumption ==
  /\ \A d \in Others \cup {Own} : d \in Definition
  /\ Own \notin Others /\ ValidPartition(Own.training, Own.heldOut)
  /\ MaxReports \in Nat \ {0}

VARIABLES
  definition,   \* the definition in the row of the tournament, or NoDefinition
  recorded,     \* the result in the row of the match, or NoResult
  run,          \* where Run is, under which definition, and what it has
  tried,        \* the other definitions that were tried
  reports       \* the reports that were given

experiment == <<tournament, definition, recorded, run, tried, reports>>

NoDefinition == [name |-> "none"]
NoResult     == [status |-> ""]

NotRunning == [at |-> "off"]

Running(place) == [run EXCEPT !.at = place]

\* Run ends without a report: what it held in memory is gone.
Leaves ==
  /\ run' = NotRunning
  /\ runner' = Off
  /\ memory' = Gone
  /\ session' = NewSession

ExperimentInit ==
  /\ game = InitialState
  /\ stored = [status |-> "absent", due |-> "none"]
  /\ outcomes = << >>
  /\ memory = Gone
  /\ session = NewSession
  /\ faults = [crashes |-> 0, failures |-> 0]
  /\ row = NoRow
  /\ runner = Off
  /\ definition = NoDefinition
  /\ recorded = NoResult
  /\ run = NotRunning
  /\ tried = {}
  /\ reports = << >>

------------------------------------------------------------------------------
(* Run: validation and the held-out phase.                                 *)

\* Validate comes before anything is read or written.
Begins(d) == [at     |-> IF ValidPartition(d.training, d.heldOut) THEN "train" ELSE "off",
              config |-> d, phase |-> NewPhase]

StartRun ==
  /\ run.at = "off"
  /\ Len(reports) < MaxReports
  /\ \E d \in {Own} \cup (IF definition = NoDefinition THEN {} ELSE Others \ tried) :
       /\ run' = IF Begins(d).at = "off" THEN NotRunning ELSE Begins(d)
       /\ tried' = IF d = Own THEN tried ELSE tried \cup {d}
  /\ UNCHANGED <<tournament, definition, recorded, reports>>

Train ==
  /\ run.at = "train"
  /\ LET next == Len(run.phase.trained) + 1 IN
       run' = IF next > Len(run.config.training) THEN Running("evaluate")
              ELSE [run EXCEPT !.phase = Trained(@, run.config.training[next])]
  /\ UNCHANGED <<tournament, definition, recorded, tried, reports>>

Evaluate ==
  /\ run.at = "evaluate"
  /\ LET next == Len(run.phase.results) + 1 IN
       run' = IF next > Len(run.config.heldOut) THEN Running("ensure")
              ELSE [run EXCEPT !.phase = Evaluated(@, run.config.heldOut[next])]
  /\ UNCHANGED <<tournament, definition, recorded, tried, reports>>

\* A callback of the configuration returns an error, or changes tables that are frozen
\* (counted with the refused writes).
PhaseFails ==
  /\ run.at \in {"train", "evaluate"}
  /\ faults.failures < MaxFailures
  /\ faults' = [faults EXCEPT !.failures = @ + 1]
  /\ Leaves
  /\ UNCHANGED <<game, stored, outcomes, row, definition, recorded, tried, reports>>

------------------------------------------------------------------------------
(* runPolicy.                                                              *)

\* Fault: the tournament of an earlier run is in the way.
MayEnsureOnce(d) == definition = NoDefinition

MayEnsure(d) == definition \in {NoDefinition, d}

\* ensureTournament: found with the same payload, or created.
Ensure ==
  /\ run.at = "ensure"
  /\ \/ /\ MayEnsure(run.config)
        /\ definition' = IF definition = NoDefinition THEN run.config ELSE definition
        /\ run' = Running("load")
        /\ UNCHANGED <<memory, session, runner, faults>>
     \/ /\ ~MayEnsure(run.config)
        /\ Leaves
        /\ UNCHANGED <<definition, faults>>
     \/ /\ definition = NoDefinition
        /\ faults.failures < MaxFailures
        /\ faults' = [faults EXCEPT !.failures = @ + 1]
        /\ Leaves
        /\ UNCHANGED definition
  /\ UNCHANGED <<game, stored, outcomes, row, recorded, tried, reports>>

\* What TournamentRunner makes of the tournament's report, which is the row's; the
\* report of an active row has no scores yet.
ResultOf(r) ==
  [status  |-> r.status,
   scores  |-> IF r.status = "active" THEN << >> ELSE r.scores,
   winners |-> IF r.status = "active" THEN {} ELSE r.winners,
   turns   |-> r.report.turns]

\* Fault: an active row is a result, too.
IsTerminalMatchAnyRow(r) == r # NoRow

IsTerminalMatch(r) == r.status \in {"finished", "stopped"}

\* What loadMatch makes of the row: the recorded result, or else the tournament's report.
Loaded == CASE recorded # NoResult -> recorded
            [] recorded = NoResult /\ row # NoRow -> ResultOf(row)
            [] OTHER -> NoResult

\* A report, which Run has given: the result, and the planner's part.
Given(result) ==
  /\ reports' = Append(reports, [config  |-> run.config, result |-> result,
                                 trained |-> run.phase.trained,
                                 planner |-> run.phase.results])
  /\ Leaves

\* loadMatch: the result of a row that is terminal is reported as it is, and any other
\* row is a checkpoint.
LoadMatch ==
  /\ run.at = "load"
  /\ IF IsTerminalMatch(row)
     THEN Given(Loaded)
     ELSE run' = Running("call") /\ UNCHANGED <<memory, session, runner, reports>>
  /\ UNCHANGED <<game, stored, outcomes, faults, row, definition, recorded, tried>>

\* TournamentRunner.Run.
CallRunner ==
  /\ run.at = "call"
  /\ RunAgain
  /\ run' = Running("play")
  /\ UNCHANGED <<definition, recorded, tried, reports>>

\* An error of the tournament is one of the experiment.
Play ==
  /\ run.at = "play"
  /\ runner.at \notin {"off", "done"}
  /\ RunOn
  /\ run' = IF runner' = Off THEN NotRunning ELSE run
  /\ UNCHANGED <<definition, recorded, tried, reports>>

\* Fault: a result is always a finished one.
StatusOfFinished(result) == "finished"

StatusOfResult(result) == IF result.status = "" THEN "finished" ELSE result.status

\* augmentStoredMatch adds the result to the row; the write may be refused.
AugmentStoredMatch ==
  /\ run.at = "play"
  /\ runner.at = "done"
  /\ \/ /\ recorded' = ResultOf(row)
        /\ row' = [row EXCEPT !.status = StatusOfResult(ResultOf(row))]
        /\ run' = Running("create")
        /\ UNCHANGED <<memory, session, runner, faults>>
     \/ /\ faults.failures < MaxFailures
        /\ faults' = [faults EXCEPT !.failures = @ + 1]
        /\ Leaves
        /\ UNCHANGED <<recorded, row>>
  /\ UNCHANGED <<game, stored, outcomes, definition, tried, reports>>

\* CreateMatch finds the identifier taken, by the row that the tournament made, and the
\* result that row holds is reported.
CreateMatch ==
  /\ run.at = "create"
  /\ Given(Loaded)
  /\ UNCHANGED <<game, stored, outcomes, faults, row, definition, recorded, tried>>

\* The process stops.
CrashExperiment ==
  /\ run.at # "off"
  /\ faults.crashes < MaxCrashes
  /\ faults' = [faults EXCEPT !.crashes = @ + 1]
  /\ Leaves
  /\ UNCHANGED <<game, stored, outcomes, row, definition, recorded, tried, reports>>

TimePasses == Time /\ UNCHANGED <<definition, recorded, run, tried, reports>>

RunExperiment ==
  \/ StartRun \/ Train \/ Evaluate \/ PhaseFails \/ Ensure \/ LoadMatch \/ CallRunner \/ Play
  \/ AugmentStoredMatch \/ CreateMatch

ExperimentNext == RunExperiment \/ CrashExperiment \/ TimePasses

\* Run goes on, controllers return (their context ends at the deadline), and somebody
\* runs the experiment again until it has the reports: WF_experiment(RunExperiment).
\* It is written out, since RunExperiment is enabled until then, and time and crashes
\* alone cannot go on for ever.
ExperimentFairness == []<>(Len(reports) = MaxReports) \/ []<><<TRUE>>_experiment

ExperimentSpec == ExperimentInit /\ [][ExperimentNext]_experiment /\ ExperimentFairness

------------------------------------------------------------------------------
(* Properties.                                                             *)

\* Every report tells the same story, and a true one, whichever run gives it and
\* whatever went wrong before: it is given under the definition that is stored, of a
\* match that is terminal, with the scores of the stored game and the winners of the row
\* (TerminalRowIsTrue says whose they are); and the planner was evaluated on each held-out
\* seed once, on tables that no training had touched.
ReportsTellTheGame ==
  \A i \in DOMAIN reports :
    LET r == reports[i] IN
      /\ r.config = definition
      /\ Terminated /\ game.over
      /\ r.result.status = row.status
      /\ r.result.scores = game.score
      /\ r.result.winners = row.winners
      /\ r.result.turns = row.report.turns
      /\ r.trained = definition.training
      /\ r.planner = [j \in DOMAIN definition.heldOut |->
                        [seed |-> definition.heldOut[j], tables |-> "fresh"]]

\* The match has a row and its game no snapshot: NewMatch was interrupted between its two
\* writes, a later run took the game as made, and was interrupted before its first turn
\* was stored.  ResumeMatch can only fail from then on.
Stranded ==
  row.status = "active" /\ ~HasSnapshot /\ faults.crashes + faults.failures >= 2

\* Somebody who keeps asking gets the reports, whatever the controllers do: with that one
\* exception no stop, no refused write and no other definition under the same identifier
\* leaves something behind that every later run would fail on.
ExperimentCompletes == <>(Len(reports) = MaxReports) \/ <>[]Stranded

=============================================================================
