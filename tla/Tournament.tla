------------------------------ MODULE Tournament ------------------------------
(***************************************************************************)
(* One round of a tournament of internal/tournament/tournament.go: Run and *)
(* runRound drive a stored match to its end and keep a row about it.       *)
(*                                                                         *)
(* The runner, the match and its controllers live in one process, which    *)
(* may stop at any write; Run is then called again and resumes the match.  *)
(* A controller that is missing is a seeded random one, so no decision is  *)
(* left to a human.  Who calls Run is in Experiment.                       *)
(*                                                                         *)
(* NewMatch makes a match with two writes, the game's row and the first    *)
(* snapshot.  `stored.status` says how far it has come: "absent", "new"    *)
(* when there is a row and no snapshot (the row itself says "active"), and *)
(* from then on what the Match has stored.                                 *)
(***************************************************************************)
EXTENDS Match

CONSTANT MaxTurns       \* the turn cap of the tournament

ASSUME TournamentAssumption ==
  /\ MaxTurns \in Nat \ {0}
  /\ \A w \in Slot : Controller[w] # "human"

VARIABLES
  row,       \* the row of the match in tournament_matches, or NoRow
  runner     \* where Run is, and the report it keeps

tournament == <<game, stored, outcomes, memory, session, faults, row, runner>>

NoRow == [status |-> "absent"]

\* The counters of a MatchReport.
EmptyReport == [turns |-> 0, timeouts |-> 0, errors |-> 0, resigns |-> 0]

Off == [at |-> "off"]

At(place, report) == [at |-> place, report |-> report]

\* A write may be refused, and Run then returns the error; the match it held is gone
\* with it.
Refused ==
  /\ faults.failures < MaxFailures
  /\ faults' = [faults EXCEPT !.failures = @ + 1]
  /\ runner' = Off
  /\ memory' = Gone
  /\ session' = NewSession
  /\ UNCHANGED <<stored, row>>

\* A write of the runner itself.
Writes(new, next) ==
  \/ /\ row' = new
     /\ runner' = next
     /\ UNCHANGED <<stored, memory, session, faults>>
  \/ Refused

\* A write of NewMatch.
Makes(status, next) ==
  \/ /\ stored' = [stored EXCEPT !.status = status]
     /\ runner' = next
     /\ UNCHANGED <<memory, session, faults, row>>
  \/ Refused

------------------------------------------------------------------------------
(* Run and runRound.                                                       *)

\* CreateMatch of the store: a row starts active, with the report it is given.
NewRow(report) == [status |-> "active", report |-> report]

\* NewMatch: CreateGame, and then the first snapshot.
CreateGame ==
  /\ runner.at = "game"
  /\ Makes("new", At("snapshot", runner.report))
  /\ UNCHANGED <<game, outcomes>>

FirstSnapshot ==
  /\ runner.at = "snapshot"
  /\ Makes("active", At("create", runner.report))
  /\ UNCHANGED <<game, outcomes>>

\* The row of a new match is created when the match is.
CreateRow ==
  /\ runner.at = "create"
  /\ Writes(NewRow(runner.report), At("loop", runner.report))
  /\ UNCHANGED <<game, outcomes>>

\* Fault: the counters start again.
ResumedAfresh(r) == EmptyReport

\* What a resumed run takes from the row.
Resumed(r) == r.report

Skipped(r) == r.status \in {"finished", "stopped"}

\* LoadLatestVerifiedSnapshot finds one.
HasSnapshot == stored.status \notin {"absent", "new"}

\* A terminal row is skipped.
SkipRound ==
  /\ Skipped(row)
  /\ runner' = At("done", row.report)
  /\ UNCHANGED memory

\* An active row: ResumeMatch, which fails without a snapshot.
ResumeRound ==
  /\ row.status = "active"
  /\ IF HasSnapshot
     THEN runner' = At("loop", Resumed(row)) /\ memory' = Restored
     ELSE runner' = At("failed", EmptyReport) /\ UNCHANGED memory

\* No row: NewMatch takes a game that is already there as made, with a snapshot or not.
NewRound ==
  /\ row = NoRow
  /\ runner' = At(IF stored.status = "absent" THEN "game" ELSE "create", EmptyReport)
  /\ memory' = InMemory(InitialState, "none")

\* Run is called again.
RunAgain ==
  /\ runner = Off
  /\ SkipRound \/ ResumeRound \/ NewRound
  /\ UNCHANGED <<game, stored, outcomes, session, faults, row>>

Capped(report) == report.turns >= MaxTurns

\* The head of the loop.
LeaveLoop ==
  /\ runner.at = "loop"
  /\ memory.state.over
  /\ runner' = At("finished", runner.report)
  /\ UNCHANGED <<game, stored, outcomes, memory, session, faults, row>>

\* Stop at the cap, or after an error; when it fails so does Run.
StopMatch ==
  /\ \/ runner.at = "loop" /\ ~memory.state.over /\ Capped(runner.report)
     \/ runner.at = "error"
  /\ IF memory.state.over
     THEN /\ runner' = At("stopped", runner.report)
          /\ UNCHANGED <<game, stored, outcomes, memory, session, faults>>
     ELSE /\ Stop
          /\ runner' = IF game' # game THEN At("stopped", runner.report)
                       ELSE At("failed", runner.report)
  /\ UNCHANGED row

\* Fault: a timeout is counted as an error of the controller.
TurnedTimeless(report, kind) ==
  [report EXCEPT !.turns = @ + 1,
                 !.errors = @ + (IF kind \in {"timeout", "disconnect", "error"} THEN 1 ELSE 0),
                 !.resigns = @ + (IF kind = "resigned" THEN 1 ELSE 0)]

Turned(report, kind) ==
  [turns    |-> report.turns + 1,
   timeouts |-> report.timeouts + (IF kind = "timeout" THEN 1 ELSE 0),
   errors   |-> report.errors + (IF kind \in {"disconnect", "error"} THEN 1 ELSE 0),
   resigns  |-> report.resigns + (IF kind = "resigned" THEN 1 ELSE 0)]

AfterError(report) == At("error", Turned(report, "error"))

\* One call of Advance.  It may end with the round, or go on to a controller.
BeginTurn ==
  /\ runner.at = "loop"
  /\ ~memory.state.over
  /\ ~Capped(runner.report)
  /\ \/ RunRound
     \/ AskAgain
     \/ /\ CanAdvance(memory.state) /\ AdvanceOutcomes(memory.state) = {}
        /\ UNCHANGED match
  /\ runner' = IF memory'.phase = "calling" THEN At("turn", runner.report)
               ELSE IF game' # game THEN At("save", Turned(runner.report, "none"))
               ELSE AfterError(runner.report)
  /\ UNCHANGED row

\* The controller is called and decides.
CallController ==
  /\ runner.at = "turn"
  /\ Decide \/ Begin \/ SessionDecides
  /\ UNCHANGED <<row, runner>>

\* Advance returns: with an outcome, or with an error.
EndTurn ==
  /\ runner.at = "turn"
  /\ Conclude
  /\ runner' = IF outcomes' # outcomes
               THEN At("save", Turned(runner.report, outcomes'[Len(outcomes')].kind))
               ELSE AfterError(runner.report)
  /\ UNCHANGED row

\* The report is stored after each turn.
SaveReport ==
  /\ runner.at = "save"
  /\ Writes([row EXCEPT !.report = runner.report], At("loop", runner.report))
  /\ UNCHANGED <<game, outcomes>>

\* Winners: the highest score, whoever has it.
Winners(s) == {w \in Slot : \A v \in Slot : s.score[v] <= s.score[w]}

\* Fault: the leader of a stopped match is its winner.
FinalRowLeader(status, report, s) ==
  [status |-> status, report |-> report, scores |-> s.score, winners |-> Winners(s)]

\* The last write: scores, and the winners of a match that was not stopped.
FinalRow(status, report, s) ==
  [status |-> status, report |-> report, scores |-> s.score,
   winners |-> IF status = "finished" THEN Winners(s) ELSE {}]

Finish ==
  /\ runner.at \in {"finished", "stopped"}
  /\ Writes(FinalRow(runner.at, runner.report, memory.state), At("done", runner.report))
  /\ UNCHANGED <<game, outcomes>>

\* Run has returned an error.
GiveUp ==
  /\ runner.at = "failed"
  /\ runner' = Off
  /\ memory' = Gone
  /\ session' = NewSession
  /\ UNCHANGED <<game, stored, outcomes, faults, row>>

\* Time passes, also for a match that nobody runs.
Time == (Expire \/ ExpireAtRest) /\ UNCHANGED <<row, runner>>

\* runRound and the loop in Run, up to its report or its error.
RunOn ==
  \/ CreateGame \/ FirstSnapshot \/ CreateRow \/ LeaveLoop \/ StopMatch \/ BeginTurn
  \/ CallController
  \/ EndTurn \/ SaveReport \/ Finish \/ GiveUp

------------------------------------------------------------------------------
(* Properties.                                                             *)

Count(kind) == Cardinality({i \in DOMAIN outcomes : outcomes[i].kind = kind})

Terminated == row.status \in {"finished", "stopped"}

\* A match that runRound reports as finished or stopped is over, and its row has the
\* scores and the winners of the stored game: none of a match it reports as stopped, and
\* the leaders of one it reports as finished.  That one was played to the last death, or
\* it was stopped and the run that stopped it did not come as far as the row: the next
\* run finds it over and takes it for finished (NoWinnerIsFabricated).
TerminalRowIsTrue ==
  Terminated =>
    /\ game.over
    /\ row.scores = game.score
    /\ row.winners = IF row.status = "finished" THEN Winners(game) ELSE {}
    /\ row.status = "finished" =>
         \/ \A w \in Slot : ~game.alive[w]
         \/ stored.status = "stopped" /\ faults.crashes + faults.failures > 0

\* The comment on Stop: a match is stopped without fabricating a winner.
NoWinnerIsFabricated ==
  Terminated /\ stored.status = "stopped" => row.status = "stopped" /\ row.winners = {}

\* Run skips a row that is finished or stopped: from then on the row, the game and its
\* outcomes never change, however often Run is called again.
FinishedIsFinal ==
  [][Terminated => row' = row /\ game' = game /\ outcomes' = outcomes]_tournament

\* The report counts each outcome of the chain once.  A crash between the outcome and
\* the report loses a count, and nothing is ever counted twice.
OutcomesAreCounted ==
  Terminated =>
    /\ row.report.timeouts <= Count("timeout")
    /\ row.report.resigns <= Count("resigned")
    /\ faults.crashes = 0 /\ faults.failures = 0 =>
         /\ row.report.timeouts = Count("timeout")
         /\ row.report.resigns = Count("resigned")

\* The cap holds across restarts: a match has at most as many outcomes as turns, and
\* one more for every interruption of a turn.
CapHolds == Len(outcomes) <= MaxTurns + faults.crashes + faults.failures

=============================================================================
