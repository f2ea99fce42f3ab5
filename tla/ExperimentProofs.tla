--------------------------- MODULE ExperimentProofs ---------------------------
(***************************************************************************)
(* The safety of a tournament's match and of the experiment that plays it, *)
(* for every board, turn cap and number of runs, stops of the process and  *)
(* refused writes.                                                         *)
(*                                                                         *)
(* The invariant has three layers: the match (MatchProofs), the runner and *)
(* the row it keeps, and the experiment around both.                       *)
(***************************************************************************)
EXTENDS Experiment, MatchProofs

------------------------------------------------------------------------------
(* The runner's invariant, in parts.                                           *)

MatchReport == [turns : Nat, timeouts : Nat, errors : Nat, resigns : Nat]

Row == {NoRow}
  \cup [status : {"active"}, report : MatchReport]
  \cup [status : {"finished", "stopped"}, report : MatchReport,
        scores : [Slot -> Nat], winners : SUBSET Slot]

\* NewMatch is at work, and the match has no row yet.
Making == {"game", "snapshot", "create"}

Place == Making \cup {"loop", "turn", "save", "error", "finished", "stopped", "failed",
                     "done"}

TournamentTypes ==
  /\ row \in Row
  /\ runner \in {Off} \cup [at : Place, report : MatchReport]
  /\ faults \in [crashes : Nat, failures : Nat]

\* What a run may have lost the count of.
Interruptions == faults.crashes + faults.failures

\* A match without a row has not begun: it may be made anew.
Untouched ==
  row = NoRow => /\ game = InitialState
                 /\ stored.due = "none"
                 /\ outcomes = << >>
                 /\ runner.at \in {"off"} \cup Making

\* What the runner holds at each place.
RunnerAgrees ==
  /\ runner.at \notin {"off", "done", "failed"} => memory # Gone
  /\ runner.at \in Making => row = NoRow /\ runner.report = EmptyReport
  /\ runner.at \in {"loop", "turn"} => runner.report = row.report
  /\ runner.at = "turn" => ~Capped(runner.report)
  /\ runner.at = "save" => runner.report.turns = row.report.turns + 1
  /\ runner.at \in {"finished", "stopped"} => game.over
  /\ runner.at = "failed" => Interruptions > 0
  /\ runner.at = "done" => Terminated /\ runner.report = row.report

GameStatus == {"absent", "new", "active", "pending", "finished", "stopped"}

\* Only Stop, or a scan or a termination without survivors, ends a game.
StatusTells ==
  /\ stored \in [status : GameStatus, due : Due]
  /\ game.over => stored.status = "stopped" \/ \A w \in Slot : ~game.alive[w]

\* The status that a handler other than Stop leaves.
Unstopped == stored'.status = stored.status \/ stored'.status # "stopped"

\* A match that was stopped has a row that says so, or is about to have one, or the run
\* that stopped it was interrupted.
StopShows ==
  stored.status = "stopped" =>
    Interruptions > 0 \/ runner.at = "stopped" \/ row.status = "stopped"

\* A terminal row has nobody at work on its match, and says what the game says.
RowIsTrue ==
  Terminated => /\ runner.at \in {"off", "done"}
                /\ game.over
                /\ row.scores = game.score
                /\ row.winners = IF row.status = "finished" THEN Winners(game) ELSE {}

\* Each outcome is paid for with a turn of the row, an interruption, or the turn that
\* is about to be saved.
Paid ==
  row # NoRow =>
    /\ Len(outcomes) <= row.report.turns + Interruptions
                          + (IF runner.at = "save" THEN 1 ELSE 0)
    /\ row.report.turns <= MaxTurns
    /\ runner.at \notin {"off", "failed"} \cup Making =>
         row.report.turns <= runner.report.turns /\ runner.report.turns <= MaxTurns

AtMost(report) == report.timeouts <= Count("timeout") /\ report.resigns <= Count("resigned")

Exactly(report) == report.timeouts = Count("timeout") /\ report.resigns = Count("resigned")

\* Nothing is counted twice, and without an interruption everything is counted.
Tallied ==
  /\ row # NoRow => AtMost(row.report)
  /\ runner # Off => AtMost(runner.report)
  /\ Interruptions = 0 =>
       /\ runner # Off => Exactly(runner.report)
       /\ runner = Off => row = NoRow \/ (Terminated /\ Exactly(row.report))

Bookkeeping == Untouched /\ RunnerAgrees /\ StopShows /\ RowIsTrue /\ Paid /\ Tallied

TournamentInv == MatchInv /\ StatusTells /\ TournamentTypes /\ Bookkeeping

------------------------------------------------------------------------------
(* Counting outcomes by their kind.                                            *)

OfKind(outs, kind) == {i \in DOMAIN outs : outs[i].kind = kind}

\* One outcome more is one more of its kind, and none of another.
LEMMA OneOutcomeMore ==
  ASSUME NEW outs \in Seq(OutcomeRecord), NEW o \in OutcomeRecord, NEW kind
  PROVE  /\ Cardinality(OfKind(outs, kind)) \in Nat
         /\ Cardinality(OfKind(Append(outs, o), kind)) =
              Cardinality(OfKind(outs, kind)) + (IF o.kind = kind THEN 1 ELSE 0)
  <1> DEFINE n == Len(outs)
             S == OfKind(outs, kind)
             T == OfKind(Append(outs, o), kind)
  <1>1. IsFiniteSet(S) /\ Cardinality(S) \in Nat
    <2>1. n \in Nat /\ S \subseteq 1 .. n
      BY DEF OfKind
    <2>2. IsFiniteSet(1 .. n)
      BY <2>1, FS_Interval
    <2> QED
      BY <2>1, <2>2, FS_Subset, FS_CardinalityType
  <1>2. n + 1 \notin S
    BY DEF OfKind
  <1>3. T = IF o.kind = kind THEN S \cup {n + 1} ELSE S
    <2>1. /\ DOMAIN Append(outs, o) = DOMAIN outs \cup {n + 1}
          /\ \A i \in DOMAIN outs : Append(outs, o)[i] = outs[i]
          /\ Append(outs, o)[n + 1] = o
      OBVIOUS
    <2> QED
      BY <2>1 DEF OfKind
  <1>4. Cardinality(S \cup {n + 1}) = Cardinality(S) + 1
    BY <1>1, <1>2, FS_AddElement
  <1> HIDE DEF S, T
  <1>5. Cardinality(T) = Cardinality(S) + (IF o.kind = kind THEN 1 ELSE 0)
    BY <1>1, <1>3, <1>4
  <1> QED
    BY <1>1, <1>5 DEF S, T

------------------------------------------------------------------------------
(* What one method of the match does, as its runner sees it.                   *)

\* The writes that were refused are counted.
FaultsGrow ==
  \/ UNCHANGED faults
  \/ faults' = [faults EXCEPT !.failures = @ + 1]

\* Persist keeps its word about the status.
LEMMA PersistDoes ==
  ASSUME NEW s, NEW due, NEW status, NEW new, NEW next, NEW back,
         Persist(s, due, status, new, next, back),
         StatusTells, due \in Due, status \in GameStatus,
         s.over => status = "stopped" \/ \A w \in Slot : ~s.alive[w]
  PROVE  /\ StatusTells' /\ (status # "stopped" => Unstopped)
         /\ \/ /\ game' = s /\ outcomes' = outcomes \o new /\ memory' = next
               /\ UNCHANGED faults
            \/ /\ memory' = back /\ UNCHANGED <<game, stored, outcomes>>
               /\ faults' = [faults EXCEPT !.failures = @ + 1]
BY DEF Persist, StatusTells, Unstopped

\* A round is stored without an outcome.
LEMMA RoundDoes ==
  ASSUME MatchInv, StatusTells, RunRound, memory # Gone
  PROVE  /\ MatchInv' /\ StatusTells' /\ Unstopped /\ FaultsGrow
         /\ outcomes' = outcomes /\ memory' # Gone
  <1>1. MatchInv'
    BY RoundHolds
  <1>2. PICK d \in Dates(stored.due) : memory = InMemory(game, d)
    BY DEF RunRound, Idle, MatchInv, Holds, Gone, Calling, Waiting, HasReply
  <1>3. memory.state = game /\ memory.due = d
    BY <1>2 DEF InMemory
  <1>4. PICK t \in AdvanceOutcomes(game) :
           LET s   == Quiet(t)
               due == IF Pending(s) THEN Asked(d) ELSE d
           IN  Persist(s, due, StatusOf(s), << >>,
                       IF Automated(s) THEN Calling(s, due, due) ELSE InMemory(s, due),
                       memory)
    BY <1>3 DEF RunRound
  <1> DEFINE s    == Quiet(t)
             due  == IF Pending(s) THEN Asked(d) ELSE d
             next == IF Automated(s) THEN Calling(s, due, due) ELSE InMemory(s, due)
             status == StatusOf(s)
             new == << >>
  <1>5. Good(game) /\ CanAdvance(game) /\ outcomes \in Seq(OutcomeRecord)
    BY <1>3 DEF MatchInv, Story, RunRound
  <1>6. Runs(game, t) /\ ScanEnded(t)
    BY <1>5, AdvanceLeads
  <1>7. /\ s.over => \A w \in Slot : ~s.alive[w]
        /\ status \in GameStatus /\ status # "stopped" /\ due \in Due
    <2>1. s.over = t.over /\ s.alive = t.alive
      BY <1>6, QuietLeads DEF Runs, Leads, SameGame
    <2>2. status \in {"active", "pending", "finished"}
      BY DEF StatusOf
    <2>3. due \in Due
      BY DEF Dates, Due, Asked, Later, MatchInv
    <2> HIDE DEF s, due, status
    <2> QED
      BY <1>6, <2>1, <2>2, <2>3 DEF ScanEnded, GameStatus
  <1>8. next # Gone
    BY DEF Calling, InMemory, Gone
  <1>9. Persist(s, due, status, new, next, memory)
    BY <1>4
  <1> HIDE DEF s, due, next, status, new
  <1>10. /\ StatusTells' /\ Unstopped
         /\ \/ /\ game' = s /\ outcomes' = outcomes \o new /\ memory' = next
               /\ UNCHANGED faults
            \/ /\ memory' = memory /\ UNCHANGED <<game, stored, outcomes>>
               /\ faults' = [faults EXCEPT !.failures = @ + 1]
    <2>1. s.over => status = "stopped" \/ \A w \in Slot : ~s.alive[w]
      BY <1>7
    <2>2. due \in Due /\ status \in GameStatus /\ status # "stopped"
      BY <1>7
    <2> QED
      BY <1>9, <2>1, <2>2, PersistDoes
  <1>11. outcomes' = outcomes
    BY <1>5, <1>10 DEF new
  <1> QED
    BY <1>1, <1>8, <1>10, <1>11 DEF FaultsGrow

\* Asking and hearing change only what the process holds.
LEMMA AskingDoes ==
  ASSUME MatchInv, StatusTells, memory # Gone,
         AskAgain \/ Decide \/ Begin \/ SessionDecides \/ Expire
  PROVE  /\ MatchInv' /\ StatusTells' /\ UNCHANGED <<game, outcomes, faults>>
         /\ memory' # Gone /\ stored'.status = stored.status
         /\ stored.due = "none" => stored'.due = "none"
  <1>1. MatchInv'
    BY AskingHolds
  <1>2. UNCHANGED <<game, outcomes, faults>>
    BY DEF AskAgain, Decide, Begin, SessionDecides, Expire
  <1>3. CASE AskAgain \/ Decide \/ Begin \/ SessionDecides
    <2>1. UNCHANGED stored
      BY <1>3 DEF AskAgain, Decide, Begin, SessionDecides
    <2>2. memory' # Gone
      BY <1>3 DEF AskAgain, Decide, Begin, SessionDecides, Respond, Replied, Calling, Gone
    <2> QED
      BY <1>1, <1>2, <2>1, <2>2 DEF StatusTells
  <1>4. CASE Expire
    <2>1. /\ stored' = [stored EXCEPT !.due = Later(@)] /\ stored'.status = stored.status
          /\ stored' \in [status : GameStatus, due : Due]
      BY <1>4 DEF Expire, StatusTells, Later, Due
    <2>2. stored.due = "none" => stored'.due = "none"
      BY <2>1 DEF Later
    <2>3. memory' # Gone
      <3>1. "phase" \in DOMAIN memory /\ memory.phase # "gone"
        BY DEF MatchInv, Holds, InMemory, Calling, Waiting, HasReply
      <3>2. memory'.phase = memory.phase
        BY <1>4, <3>1 DEF Expire
      <3> QED
        BY <3>1, <3>2 DEF Gone
    <2> QED
      BY <1>1, <1>2, <2>1, <2>2, <2>3 DEF StatusTells
  <1> QED
    BY <1>3, <1>4

\* A conclusion adds at most one outcome.
LEMMA ConcludeDoes ==
  ASSUME MatchInv, StatusTells, memory # Gone, Conclude
  PROVE  /\ MatchInv' /\ StatusTells' /\ Unstopped /\ FaultsGrow
         /\ memory' # Gone
         /\ outcomes' = outcomes \/ \E o \in OutcomeRecord : outcomes' = Append(outcomes, o)
  <1>1. MatchInv'
    BY EndingHolds
  <1>2. Pending(game) /\ Good(game) /\ ~game.over /\ outcomes \in Seq(OutcomeRecord)
    BY DEF Conclude, MatchInv, Story, Holds, Gone, InMemory
  <1>3. PICK d, b \in Dates(stored.due) :
           \E r : memory = HasReply(game, d, b, r)
    BY DEF Conclude, MatchInv, Holds, Gone, InMemory, Calling, Waiting
  <1> DEFINE back == InMemory(game, b)
             r == memory.reply
  <1>4. Judge(game, d, r, back)
    BY <1>3 DEF Conclude, HasReply
  <1>5. back # Gone
    BY DEF InMemory, Gone
  <1> HIDE DEF back, r
  <1>6. ASSUME NEW s, NEW o, NEW status,
               s.over => \A w \in Slot : ~s.alive[w],
               status \in GameStatus, status # "stopped",
               Persist(s, "none", status, <<o>>, InMemory(s, "none"), back)
        PROVE  /\ StatusTells' /\ Unstopped /\ FaultsGrow /\ memory' # Gone
               /\ outcomes' = outcomes \/ outcomes' = outcomes \o <<o>>
    <2>1. InMemory(s, "none") # Gone
      BY DEF InMemory, Gone
    <2> DEFINE new  == <<o>>
               next == InMemory(s, "none")
    <2>2. Persist(s, "none", status, new, next, back)
      BY <1>6
    <2>2a. "none" \in Due
      BY DEF Due
    <2> HIDE DEF new, next
    <2>3. /\ StatusTells' /\ Unstopped
          /\ \/ /\ game' = s /\ outcomes' = outcomes \o new /\ memory' = next
                /\ UNCHANGED faults
             \/ /\ memory' = back /\ UNCHANGED <<game, stored, outcomes>>
                /\ faults' = [faults EXCEPT !.failures = @ + 1]
      BY <1>6, <2>2, <2>2a, PersistDoes
    <2> QED
      BY <1>5, <2>1, <2>3 DEF FaultsGrow, new, next
  <1>7. ASSUME NEW kind, Terminate(game, kind, back)
        PROVE  /\ StatusTells' /\ Unstopped /\ FaultsGrow /\ memory' # Gone
               /\ outcomes' = outcomes \/ outcomes' = outcomes \o <<Outcome(game, kind)>>
    <2> DEFINE s == Ended(game)
               status == StatusOf(s)
               o == Outcome(game, kind)
    <2>1. s.over => \A w \in Slot : ~s.alive[w]
      <3> DEFINE w0 == game.pending.slot
                 u == [game EXCEPT !.alive[w0] = FALSE, !.pending = NoDecision, !.slot = w0 + 1]
                 dead == \A w \in Slot : ~u.alive[w]
      <3>1. s = [u EXCEPT !.over = dead]
        BY DEF Ended
      <3>2. "over" \in DOMAIN u /\ "alive" \in DOMAIN u
        BY <1>2 DEF Good, State
      <3> HIDE DEF u, s
      <3>3. s.over = dead /\ s.alive = u.alive
        BY <3>1, <3>2
      <3> QED
        BY <3>3
    <2>1a. status \in GameStatus /\ status # "stopped"
      BY DEF StatusOf, GameStatus
    <2>2. Persist(s, "none", status, <<o>>, InMemory(s, "none"), back)
      BY <1>7 DEF Terminate
    <2> HIDE DEF s, status, o
    <2> QED
      BY <1>6, <2>1, <2>1a, <2>2 DEF o
  <1>8. ASSUME Playable(game, r), Accept(game, r.dir, back)
        PROVE  /\ StatusTells' /\ Unstopped /\ FaultsGrow /\ memory' # Gone
               /\ outcomes' = outcomes \/ outcomes' = outcomes \o <<Outcome(game, "accepted")>>
    <2>1. PICK t \in SubmitOutcomes(game, r.dir) :
             Persist(Quiet(t), "none", StatusOf(t), <<Outcome(game, "accepted")>>,
                     InMemory(Quiet(t), "none"), back)
      BY <1>8 DEF Accept
    <2>2. r.dir \in Dir /\ CanSubmit(game, r.dir)
      BY <1>8 DEF Playable, CanSubmit, LegalMoves
    <2>3. Runs(game, t) /\ ScanEnded(t)
      BY <1>2, <2>2, SubmitLeads
    <2> DEFINE s == Quiet(t)
               status == StatusOf(t)
               o == Outcome(game, "accepted")
    <2>4. s.over => \A w \in Slot : ~s.alive[w]
      <3>1. s.alive = t.alive /\ s.over = t.over
        BY <2>3, QuietLeads DEF Runs, Leads, SameGame
      <3> QED
        BY <2>3, <3>1 DEF ScanEnded
    <2>4a. status \in GameStatus /\ status # "stopped"
      BY DEF StatusOf, GameStatus
    <2>5. Persist(s, "none", status, <<o>>, InMemory(s, "none"), back)
      BY <2>1
    <2> HIDE DEF s, status, o
    <2> QED
      BY <1>6, <2>4, <2>4a, <2>5 DEF o
  <1>9. /\ StatusTells' /\ Unstopped /\ FaultsGrow /\ memory' # Gone
        /\ \/ outcomes' = outcomes
           \/ \E kind \in {"accepted", "timeout", "disconnect", "resigned"} :
                outcomes' = outcomes \o <<Outcome(game, kind)>>
    <2>1. \/ \E kind \in {"timeout", "disconnect", "resigned"} : Terminate(game, kind, back)
          \/ Playable(game, r) /\ Accept(game, r.dir, back)
          \/ memory' = back /\ UNCHANGED <<game, stored, outcomes, faults>>
      BY <1>4 DEF Judge
    <2>2. CASE memory' = back /\ UNCHANGED <<game, stored, outcomes, faults>>
      BY <1>5, <2>2 DEF StatusTells, Unstopped, FaultsGrow
    <2> QED
      BY <1>7, <1>8, <2>1, <2>2
  <1>10. \A kind \in {"accepted", "timeout", "disconnect", "resigned"} :
           Outcome(game, kind) \in OutcomeRecord
    <2>1. game.pending \in Decision /\ game.pending # NoDecision
      BY <1>2 DEF Good, State, Pending
    <2> QED
      BY <2>1 DEF Outcome, OutcomeRecord, Decision
  <1>11. \A o : outcomes \o <<o>> = Append(outcomes, o)
    BY <1>2
  <1> QED
    BY <1>1, <1>9, <1>10, <1>11

\* Stop ends the game, or is refused.
LEMMA StopDoes ==
  ASSUME MatchInv, StatusTells, memory # Gone, Stop
  PROVE  /\ MatchInv' /\ StatusTells' /\ memory' # Gone /\ outcomes' = outcomes
         /\ \/ game'.over /\ game' # game /\ UNCHANGED faults
            \/ game' = game /\ stored' = stored /\ faults' = [faults EXCEPT !.failures = @ + 1]
  <1>1. MatchInv'
    BY OtherHolds
  <1>2. PICK d \in Dates(stored.due) : memory = InMemory(game, d)
    BY DEF Stop, Idle, MatchInv, Holds, Gone, Calling, Waiting, HasReply
  <1> DEFINE t == [game EXCEPT !.pending = NoDecision, !.over = TRUE]
             next == InMemory(t, "none")
             status == "stopped"
             new == << >>
  <1>3. Persist(t, "none", status, new, next, memory) /\ ~game.over
    BY <1>2 DEF Stop, InMemory
  <1>4. outcomes \in Seq(OutcomeRecord) /\ game \in State
    BY DEF MatchInv, Story, Good
  <1>5. t.over
    BY <1>4 DEF State
  <1>6. next # Gone
    BY DEF InMemory, Gone
  <1>6a. status = "stopped" /\ status \in GameStatus /\ "none" \in Due
    BY DEF GameStatus, Due
  <1> HIDE DEF t, next, status, new
  <1>7. /\ StatusTells'
        /\ \/ /\ game' = t /\ outcomes' = outcomes \o new /\ memory' = next
              /\ UNCHANGED faults
           \/ /\ memory' = memory /\ UNCHANGED <<game, stored, outcomes>>
              /\ faults' = [faults EXCEPT !.failures = @ + 1]
    BY <1>3, <1>6a, PersistDoes
  <1>8. outcomes' = outcomes
    BY <1>4, <1>7 DEF new
  <1> QED
    BY <1>1, <1>3, <1>5, <1>6, <1>7, <1>8

------------------------------------------------------------------------------
(* The runner's steps.                                                         *)

\* One interruption more.
Interrupted ==
  \/ faults' = [faults EXCEPT !.failures = @ + 1]
  \/ faults' = [faults EXCEPT !.crashes = @ + 1]

\* Interruptions are counted, and never fewer.
LEMMA InterruptionsGrow ==
  ASSUME faults \in [crashes : Nat, failures : Nat], UNCHANGED faults \/ Interrupted
  PROVE  /\ faults' \in [crashes : Nat, failures : Nat]
         /\ Interruptions \in Nat /\ Interruptions' \in Nat
         /\ UNCHANGED faults => Interruptions' = Interruptions
         /\ Interrupted => Interruptions' = Interruptions + 1
BY DEF Interruptions, Interrupted

\* What the type invariant says of the fields.
LEMMA TypeFacts ==
  ASSUME TournamentInv
  PROVE  /\ Interruptions \in Nat
         /\ row # NoRow => /\ row.report \in MatchReport
                           /\ row.status \in {"active", "finished", "stopped"}
         /\ row = NoRow => row.status = "absent"
         /\ runner # Off => /\ runner.report \in MatchReport /\ runner.at \in Place
                            /\ runner = At(runner.at, runner.report)
         /\ runner = Off => runner.at = "off"
         /\ outcomes \in Seq(OutcomeRecord) /\ Len(outcomes) \in Nat
         /\ Count("timeout") \in Nat /\ Count("resigned") \in Nat
         /\ game \in State /\ (memory # Gone => memory.state = game)
  <1>1. outcomes \in Seq(OutcomeRecord) /\ game \in State
    BY DEF TournamentInv, MatchInv, Story, Good
  <1>2. \A kind : Count(kind) \in Nat
    <2>1. \A kind : Count(kind) = Cardinality(OfKind(outcomes, kind))
      BY DEF Count, OfKind
    <2>2. CASE OutcomeRecord = {}
      <3>1. outcomes = << >>
        BY <1>1, <2>2
      <3>2. \A kind : OfKind(outcomes, kind) = {}
        BY <3>1 DEF OfKind
      <3> QED
        BY <2>1, <3>2, FS_EmptySet
    <2>3. CASE OutcomeRecord # {}
      BY <1>1, <2>1, <2>3, OneOutcomeMore
    <2> QED
      BY <2>2, <2>3
  <1>3. memory # Gone => memory.state = game
    BY DEF TournamentInv, MatchInv, Holds, Gone, InMemory, Calling, Waiting, HasReply
  <1>4. row # NoRow => /\ row.report \in MatchReport
                       /\ row.status \in {"active", "finished", "stopped"}
    BY DEF TournamentInv, TournamentTypes, Row
  <1>5. runner # Off => /\ runner.report \in MatchReport /\ runner.at \in Place
                        /\ runner = At(runner.at, runner.report)
    BY DEF TournamentInv, TournamentTypes, At
  <1> QED
    BY <1>1, <1>2, <1>3, <1>4, <1>5 DEF NoRow, Off, TournamentInv, TournamentTypes, Interruptions

\* Nothing that the runner or its match holds has changed.
LEMMA SameTournament ==
  ASSUME TournamentInv, UNCHANGED <<game, stored, outcomes, memory, faults, row, runner>>
  PROVE  TournamentInv'
BY DEF TournamentInv, MatchInv, StatusTells, TournamentTypes, Bookkeeping, Untouched,
       RunnerAgrees, StopShows, RowIsTrue, Paid, Tallied, AtMost, Exactly, Count,
        Interruptions, Terminated

\* The run is dropped with what it held in memory: after an interruption, or when
\* there is nothing left to count.
LEMMA DroppedHolds ==
  ASSUME TournamentInv,
         UNCHANGED <<game, stored, outcomes, row>>, runner' = Off, memory' = Gone,
         \/ Interrupted
         \/ UNCHANGED faults /\ runner.at \in {"off", "done", "failed"}
  PROVE  TournamentInv'
  <1> USE TypeFacts
  <1>1. /\ faults' \in [crashes : Nat, failures : Nat]
        /\ Interruptions \in Nat /\ Interruptions' \in Nat
        /\ Interrupted => Interruptions' = Interruptions + 1
        /\ UNCHANGED faults => Interruptions' = Interruptions
    BY InterruptionsGrow DEF TournamentInv, TournamentTypes
  <1>2. TournamentTypes'
    BY <1>1 DEF TournamentTypes, TournamentInv
  <1>3. MatchInv' /\ StatusTells'
    BY DEF TournamentInv, MatchInv, StatusTells, Holds
  <1>4. Untouched' /\ RunnerAgrees' /\ StopShows'
    <2>1. runner'.at = "off" /\ runner'.at \notin Making
      BY DEF Off, Making
    <2>2. Untouched' /\ RunnerAgrees'
      BY <2>1 DEF TournamentInv, Bookkeeping, Untouched, RunnerAgrees
    <2>3. StopShows'
      BY <1>1, <2>1 DEF TournamentInv, Bookkeeping, StopShows
    <2> QED
      BY <2>2, <2>3
  <1>5. RowIsTrue'
    BY DEF TournamentInv, Bookkeeping, RowIsTrue, Terminated, Off
  <1>6. Paid'
    <2> SUFFICES ASSUME row # NoRow
                 PROVE  /\ Len(outcomes') <= row'.report.turns + Interruptions'
                                               + (IF runner'.at = "save" THEN 1 ELSE 0)
                        /\ row'.report.turns <= MaxTurns
                        /\ runner'.at = "off"
      BY DEF Paid
    <2>1. row.report.turns \in Nat /\ Len(outcomes) \in Nat
      BY DEF MatchReport
    <2>2. /\ Len(outcomes) <= row.report.turns + Interruptions
                                 + (IF runner.at = "save" THEN 1 ELSE 0)
          /\ row.report.turns <= MaxTurns
      BY DEF TournamentInv, Bookkeeping, Paid
    <2>3. runner.at = "save" => Interruptions' >= Interruptions + 1
      BY <1>1
    <2>4. runner'.at = "off" /\ row' = row /\ outcomes' = outcomes
      BY DEF Off
    <2> QED
      BY <1>1, <2>1, <2>2, <2>3, <2>4
  <1>7. Tallied'
    <2>1. Count("timeout")' = Count("timeout") /\ Count("resigned")' = Count("resigned")
      BY DEF Count
    <2>2. row # NoRow => AtMost(row.report)
      BY DEF TournamentInv, Bookkeeping, Tallied
    <2>3. ASSUME Interruptions' = 0
          PROVE  row = NoRow \/ (Terminated /\ Exactly(row.report))
      <3>1. UNCHANGED faults /\ Interruptions = 0 /\ runner.at \in {"off", "done"}
        BY <1>1, <2>3 DEF TournamentInv, Bookkeeping, RunnerAgrees
      <3>2. CASE runner = Off
        BY <3>1, <3>2 DEF TournamentInv, Bookkeeping, Tallied
      <3>3. CASE runner # Off
        <4>1. runner.at = "done"
          BY <3>1, <3>3 DEF Place, Making
        <4> QED
          BY <3>1, <3>3, <4>1 DEF TournamentInv, Bookkeeping, RunnerAgrees, Tallied
      <3> QED
        BY <3>2, <3>3
    <2> QED
      BY <2>1, <2>2, <2>3 DEF Tallied, AtMost, Exactly, Terminated
  <1> QED
    BY <1>2, <1>3, <1>4, <1>5, <1>6, <1>7 DEF TournamentInv, Bookkeeping

\* A run at work has its match in memory, and a row that is not terminal.
LEMMA AtWork ==
  ASSUME TournamentInv, runner.at \notin {"off", "done"}
  PROVE  /\ runner # Off /\ ~Terminated
         /\ runner.at # "failed" => memory # Gone /\ memory.state = game
         /\ runner.at \notin Making => row # NoRow /\ row.status = "active"
  <1>1. runner.at # "failed" => memory # Gone
    BY DEF TournamentInv, Bookkeeping, RunnerAgrees
  <1>2. ~Terminated
    BY DEF TournamentInv, Bookkeeping, RowIsTrue
  <1>3. runner.at \notin Making => row # NoRow
    BY DEF TournamentInv, Bookkeeping, Untouched
  <1> QED
    BY <1>1, <1>2, <1>3, TypeFacts DEF Off, Terminated

\* The runner goes from one place to the next and keeps its counts.
LEMMA MovesOn ==
  ASSUME TournamentInv, runner.at \in {"loop", "turn", "error"},
         MatchInv', StatusTells', memory' # Gone,
         UNCHANGED <<row, outcomes>>, UNCHANGED faults \/ Interrupted,
         NEW place \in Place \ (Making \cup {"done"}), NEW report \in MatchReport,
         runner' = At(place, report),
         report.timeouts = runner.report.timeouts, report.resigns = runner.report.resigns,
         place \in {"loop", "turn"} => report = row.report,
         place = "turn" => ~Capped(report),
         place = "save" => report.turns = row.report.turns + 1,
         row.report.turns <= report.turns, report.turns <= MaxTurns,
         place \in {"finished", "stopped"} => game'.over,
         place = "failed" => Interrupted, place = "stopped" \/ Unstopped \/ Interrupted
  PROVE  TournamentInv'
  <1> USE TypeFacts, AtWork
  <1>1. /\ faults' \in [crashes : Nat, failures : Nat]
        /\ Interruptions \in Nat /\ Interruptions' \in Nat
        /\ Interrupted => Interruptions' = Interruptions + 1
        /\ UNCHANGED faults => Interruptions' = Interruptions
    BY InterruptionsGrow DEF TournamentInv, TournamentTypes
  <1>2. /\ runner'.at = place /\ runner'.report = report /\ runner' # Off /\ row # NoRow
        /\ place \notin Making /\ runner.at \notin Making /\ row.status = "active"
    BY DEF At, Off, Place, Making
  <1>3. TournamentTypes'
    BY <1>1 DEF TournamentTypes, TournamentInv, At
  <1>4. Untouched' /\ RunnerAgrees' /\ StopShows'
    <2>1. Untouched' /\ RunnerAgrees'
      BY <1>1, <1>2 DEF Untouched, RunnerAgrees, Capped
    <2>2. StopShows'
      BY <1>1, <1>2 DEF TournamentInv, Bookkeeping, StopShows, Unstopped
    <2> QED
      BY <2>1, <2>2
  <1>5. RowIsTrue'
    BY DEF RowIsTrue, Terminated
  <1>6. Paid'
    <2>1. row.report.turns \in Nat /\ Len(outcomes) \in Nat
      BY <1>2 DEF MatchReport
    <2>2. Len(outcomes) <= row.report.turns + Interruptions /\ row.report.turns <= MaxTurns
      BY <1>2, <2>1 DEF TournamentInv, Bookkeeping, Paid
    <2> QED
      BY <1>1, <1>2, <2>1, <2>2 DEF Paid
  <1>7. Tallied'
    <2>1. Count("timeout")' = Count("timeout") /\ Count("resigned")' = Count("resigned")
      BY DEF Count
    <2>2. AtMost(row.report) /\ AtMost(runner.report)
          /\ (Interruptions = 0 => Exactly(runner.report))
      BY <1>2 DEF TournamentInv, Bookkeeping, Tallied
    <2>3. Interruptions' = 0 => Interruptions = 0
      BY <1>1
    <2> QED
      BY <1>2, <2>1, <2>2, <2>3 DEF Tallied, AtMost, Exactly
  <1> QED
    BY <1>3, <1>4, <1>5, <1>6, <1>7 DEF TournamentInv, Bookkeeping

\* The row of a new game and its first snapshot.
LEMMA MakingHolds ==
  ASSUME TournamentInv, CreateGame \/ FirstSnapshot
  PROVE  TournamentInv'
  <1> USE TypeFacts, AtWork
  <1>1. /\ runner.at \in {"game", "snapshot"} /\ UNCHANGED <<game, outcomes>>
        /\ row = NoRow /\ runner.report = EmptyReport /\ runner # Off /\ memory # Gone
    BY DEF CreateGame, FirstSnapshot, TournamentInv, Bookkeeping, RunnerAgrees, Making
  <1>2. ASSUME NEW status \in {"new", "active"}, NEW place \in {"snapshot", "create"},
               stored' = [stored EXCEPT !.status = status],
               runner' = At(place, runner.report),
               UNCHANGED <<memory, session, faults, row>>
        PROVE  TournamentInv'
    <2>1. /\ stored' \in [status : GameStatus, due : Due]
          /\ stored'.due = stored.due /\ stored'.status = status
      BY <1>2 DEF TournamentInv, StatusTells, GameStatus
    <2>2. /\ runner'.at = place /\ runner'.report = EmptyReport /\ runner' # Off
          /\ place \in Place /\ place \in Making
      BY <1>1, <1>2 DEF At, Off, Place, Making
    <2>3. TournamentTypes'
      BY <1>1, <1>2, <2>2 DEF TournamentInv, TournamentTypes, At
    <2>4. MatchInv'
      BY <1>1, <1>2, <2>1 DEF TournamentInv, MatchInv
    <2>5. StatusTells'
      <3>1. ~game.over
        BY <1>1 DEF TournamentInv, Bookkeeping, Untouched, InitialState
      <3> QED
        BY <1>1, <2>1, <3>1 DEF StatusTells
    <2>6. Untouched' /\ RunnerAgrees' /\ StopShows' /\ RowIsTrue' /\ Paid'
      BY <1>1, <1>2, <2>1, <2>2
         DEF Untouched, RunnerAgrees, StopShows, RowIsTrue, Paid, Terminated, Making, NoRow,
             TournamentInv, Bookkeeping
    <2>7. Tallied'
      BY <1>1, <1>2, <2>2 DEF Tallied, AtMost, Exactly, Count, Interruptions, TournamentInv,
                              Bookkeeping
    <2> QED
      BY <2>3, <2>4, <2>5, <2>6, <2>7 DEF TournamentInv, Bookkeeping
  <1>3. CASE Refused
    BY <1>1, <1>3, DroppedHolds DEF Interrupted, Refused
  <1> QED
    BY <1>2, <1>3 DEF CreateGame, FirstSnapshot, Makes

\* The row of a new match.
LEMMA CreateRowHolds ==
  ASSUME TournamentInv, CreateRow
  PROVE  TournamentInv'
  <1> USE TypeFacts, AtWork
  <1>1. /\ runner.at = "create" /\ UNCHANGED <<game, outcomes>>
        /\ row = NoRow /\ runner.report = EmptyReport /\ outcomes = << >>
    BY DEF CreateRow, TournamentInv, Bookkeeping, RunnerAgrees, Untouched, Making
  <1>2. CASE /\ row' = NewRow(runner.report) /\ runner' = At("loop", runner.report)
             /\ UNCHANGED <<stored, memory, session, faults>>
    <2>1. runner'.at = "loop" /\ runner'.report = EmptyReport /\ runner' # Off
          /\ row'.status = "active" /\ row'.report = EmptyReport /\ row' # NoRow
      BY <1>1, <1>2 DEF At, Off, NewRow, NoRow
    <2>2. EmptyReport \in MatchReport
      BY DEF EmptyReport, MatchReport
    <2>3. TournamentTypes'
      BY <1>1, <1>2, <2>2 DEF TournamentTypes, TournamentInv, At, NewRow, Row, Place
    <2>4. MatchInv' /\ StatusTells'
      BY <1>1, <1>2 DEF TournamentInv, MatchInv, StatusTells
    <2>5. Untouched' /\ RunnerAgrees' /\ RowIsTrue' /\ StopShows'
      <3>1. Interruptions' = Interruptions /\ row.status = "absent"
        BY <1>1, <1>2 DEF Interruptions
      <3> QED
        BY <1>1, <1>2, <2>1, <3>1 DEF Untouched, RunnerAgrees, RowIsTrue, Terminated, Making,
                                      StopShows, TournamentInv, Bookkeeping
    <2>6. Paid'
      BY <1>1, <1>2, <2>1, TournamentAssumption DEF Paid, EmptyReport, Interruptions
    <2>7. Tallied'
      <3>1. Count("timeout")' = 0 /\ Count("resigned")' = 0
        <4>1. \A kind : OfKind(outcomes, kind) = {}
          BY <1>1 DEF OfKind
        <4>2. \A kind : Count(kind) = Cardinality(OfKind(outcomes, kind))
          BY DEF Count, OfKind
        <4>3. Count("timeout") = 0 /\ Count("resigned") = 0
          BY <4>1, <4>2, FS_EmptySet
        <4> QED
          BY <1>1, <4>3 DEF Count
      <3> QED
        BY <2>1, <3>1 DEF Tallied, AtMost, Exactly, EmptyReport
    <2> QED
      BY <2>3, <2>4, <2>5, <2>6, <2>7 DEF TournamentInv, Bookkeeping
  <1>3. CASE /\ faults' = [faults EXCEPT !.failures = @ + 1]
             /\ runner' = Off /\ memory' = Gone /\ UNCHANGED <<stored, row>>
    BY <1>1, <1>3, DroppedHolds DEF Interrupted
  <1> QED
    BY <1>2, <1>3 DEF CreateRow, Writes, Refused

\* The report of a turn is stored.
LEMMA SaveReportHolds ==
  ASSUME TournamentInv, SaveReport
  PROVE  TournamentInv'
  <1> USE TypeFacts, AtWork
  <1>1. /\ runner.at = "save" /\ UNCHANGED <<game, outcomes>>
        /\ row # NoRow /\ row.status = "active" /\ runner.report \in MatchReport
        /\ runner.report.turns = row.report.turns + 1
    BY DEF SaveReport, TournamentInv, Bookkeeping, RunnerAgrees, Making
  <1>2. CASE /\ row' = [row EXCEPT !.report = runner.report]
             /\ runner' = At("loop", runner.report)
             /\ UNCHANGED <<stored, memory, session, faults>>
    <2>1. row \in [status : {"active"}, report : MatchReport]
      BY <1>1 DEF TournamentInv, TournamentTypes, Row
    <2>2. row' \in [status : {"active"}, report : MatchReport]
          /\ row'.status = "active" /\ row'.report = runner.report /\ row' # NoRow
      BY <1>1, <1>2, <2>1 DEF NoRow
    <2>3. runner'.at = "loop" /\ runner'.report = runner.report /\ runner' # Off
      BY <1>2 DEF At, Off
    <2>4. TournamentTypes'
      BY <1>1, <1>2, <2>2 DEF TournamentTypes, TournamentInv, At, Row, Place
    <2>5. MatchInv' /\ StatusTells'
      BY <1>1, <1>2 DEF TournamentInv, MatchInv, StatusTells
    <2>6. Untouched' /\ RunnerAgrees' /\ RowIsTrue' /\ StopShows'
      BY <1>1, <1>2, <2>2, <2>3
         DEF Untouched, RunnerAgrees, RowIsTrue, Terminated, TournamentInv, Bookkeeping, Making,
             StopShows, Interruptions
    <2>7. Paid'
      <3>1. row.report.turns \in Nat /\ Len(outcomes) \in Nat
        BY <1>1 DEF MatchReport
      <3>2. /\ Len(outcomes) <= row.report.turns + Interruptions + 1
            /\ runner.report.turns <= MaxTurns
        BY <1>1 DEF TournamentInv, Bookkeeping, Paid, Making
      <3>3. Interruptions' = Interruptions /\ Interruptions \in Nat
        BY <1>2 DEF Interruptions
      <3> QED
        BY <1>1, <2>2, <2>3, <3>1, <3>2, <3>3, TournamentAssumption DEF Paid
    <2>8. Tallied'
      BY <1>1, <1>2, <2>2, <2>3 DEF Tallied, AtMost, Exactly, Count, Interruptions,
                                    TournamentInv, Bookkeeping
    <2> QED
      BY <2>4, <2>5, <2>6, <2>7, <2>8 DEF TournamentInv, Bookkeeping
  <1>3. CASE /\ faults' = [faults EXCEPT !.failures = @ + 1]
             /\ runner' = Off /\ memory' = Gone /\ UNCHANGED <<stored, row>>
    BY <1>1, <1>3, DroppedHolds DEF Interrupted
  <1> QED
    BY <1>2, <1>3 DEF SaveReport, Writes, Refused

\* The last write of a match.
LEMMA FinishHolds ==
  ASSUME TournamentInv, Finish
  PROVE  TournamentInv'
  <1> USE TypeFacts, AtWork
  <1> DEFINE last == FinalRow(runner.at, runner.report, memory.state)
  <1>1. /\ runner.at \in {"finished", "stopped"} /\ UNCHANGED <<game, outcomes>>
        /\ row # NoRow /\ row.status = "active" /\ runner.report \in MatchReport
        /\ game.over /\ memory.state = game /\ runner # Off
    BY DEF Finish, TournamentInv, Bookkeeping, RunnerAgrees, Making
  <1>2. CASE /\ row' = last /\ runner' = At("done", runner.report)
             /\ UNCHANGED <<stored, memory, session, faults>>
    <2>1. /\ last.status = runner.at /\ last.report = runner.report
          /\ last.scores = game.score
          /\ last.winners = IF runner.at = "finished" THEN Winners(game) ELSE {}
          /\ last # NoRow
      BY <1>1 DEF FinalRow, NoRow
    <2>2. last \in [status : {"finished", "stopped"}, report : MatchReport,
                    scores : [Slot -> Nat], winners : SUBSET Slot]
      <3>1. game.score \in [Slot -> Nat]
        BY DEF State
      <3> QED
        BY <1>1, <3>1 DEF FinalRow, Winners
    <2> HIDE DEF last
    <2>3. runner'.at = "done" /\ runner'.report = runner.report /\ runner' # Off
      BY <1>2 DEF At, Off
    <2>4. TournamentTypes'
      BY <1>1, <1>2, <2>2 DEF TournamentTypes, TournamentInv, At, Row, Place
    <2>5. MatchInv' /\ StatusTells'
      BY <1>1, <1>2 DEF TournamentInv, MatchInv, StatusTells
    <2>6. Terminated'
      BY <1>1, <1>2, <2>1 DEF Terminated
    <2>7. Untouched' /\ RunnerAgrees' /\ StopShows'
      BY <1>1, <1>2, <2>1, <2>3, <2>6 DEF Untouched, RunnerAgrees, StopShows, Making,
                                          Interruptions, TournamentInv, Bookkeeping
    <2>8. RowIsTrue'
      BY <1>1, <1>2, <2>1, <2>3 DEF RowIsTrue, Winners
    <2>9. Paid'
      <3>1. row.report.turns \in Nat /\ Len(outcomes) \in Nat /\ runner.report.turns \in Nat
        BY <1>1 DEF MatchReport
      <3>2. /\ Len(outcomes) <= row.report.turns + Interruptions
            /\ row.report.turns <= runner.report.turns /\ runner.report.turns <= MaxTurns
        BY <1>1, <3>1 DEF TournamentInv, Bookkeeping, Paid, Making
      <3>3. Interruptions' = Interruptions /\ Interruptions \in Nat
        BY <1>2 DEF Interruptions
      <3> QED
        BY <1>1, <1>2, <2>1, <2>3, <3>1, <3>2, <3>3, TournamentAssumption DEF Paid
    <2>10. Tallied'
      BY <1>1, <1>2, <2>1, <2>3 DEF Tallied, AtMost, Exactly, Count, Interruptions,
                                    TournamentInv, Bookkeeping
    <2> QED
      BY <2>4, <2>5, <2>7, <2>8, <2>9, <2>10 DEF TournamentInv, Bookkeeping
  <1>3. CASE /\ faults' = [faults EXCEPT !.failures = @ + 1]
             /\ runner' = Off /\ memory' = Gone /\ UNCHANGED <<stored, row>>
    BY <1>1, <1>3, DroppedHolds DEF Interrupted
  <1> QED
    BY <1>2, <1>3 DEF Finish, Writes, Refused

\* A turn more in the report, of one kind at most.
LEMMA TurnedType ==
  ASSUME NEW report \in MatchReport, NEW kind
  PROVE  LET r == Turned(report, kind) IN
         /\ r \in MatchReport
         /\ r.turns = report.turns + 1
         /\ r.timeouts = report.timeouts + (IF kind = "timeout" THEN 1 ELSE 0)
         /\ r.resigns = report.resigns + (IF kind = "resigned" THEN 1 ELSE 0)
         /\ kind \notin {"timeout", "resigned"} =>
              r.timeouts = report.timeouts /\ r.resigns = report.resigns
BY DEF Turned, MatchReport

\* The match is over, or is stopped.
LEMMA LeavingHolds ==
  ASSUME TournamentInv, LeaveLoop \/ StopMatch
  PROVE  TournamentInv'
  <1> USE TypeFacts, AtWork
  <1>1. /\ runner.at \in {"loop", "error"} /\ row # NoRow /\ UNCHANGED row
        /\ memory # Gone /\ memory.state = game /\ runner.report \in MatchReport
    BY DEF LeaveLoop, StopMatch, Making
  <1>2. row.report.turns <= runner.report.turns /\ runner.report.turns <= MaxTurns
    BY <1>1 DEF TournamentInv, Bookkeeping, Paid, Making
  <1>3. CASE UNCHANGED <<game, stored, outcomes, memory, session, faults>>
    <2>1. game.over /\ \E place \in {"finished", "stopped"} : runner' = At(place, runner.report)
      <3>1. CASE LeaveLoop
        BY <1>1, <3>1 DEF LeaveLoop
      <3>2. CASE StopMatch
        <4>1. CASE memory.state.over
          BY <1>1, <3>2, <4>1 DEF StopMatch
        <4>2. CASE ~memory.state.over
          <5>1. Stop
            BY <3>2, <4>2 DEF StopMatch
          <5>2. FALSE
            <6>1. \/ game' # game
                  \/ faults' = [faults EXCEPT !.failures = @ + 1]
              BY <1>1, <5>1, StopDoes DEF TournamentInv
            <6>2. faults' # [faults EXCEPT !.failures = @ + 1]
              BY <1>3 DEF TournamentInv, TournamentTypes
            <6> QED
              BY <1>3, <6>1, <6>2
          <5> QED
            BY <5>2
        <4> QED
          BY <4>1, <4>2
      <3> QED
        BY <3>1, <3>2
    <2>2. PICK place \in {"finished", "stopped"} : runner' = At(place, runner.report)
      BY <2>1
    <2>3. MatchInv' /\ StatusTells' /\ Unstopped /\ memory' # Gone
      BY <1>1, <1>3 DEF TournamentInv, MatchInv, StatusTells, Unstopped
    <2>4. /\ place \in Place \ (Making \cup {"done"})
          /\ place \notin {"loop", "turn", "save", "failed"}
      BY DEF Place, Making
    <2> QED
      BY <1>1, <1>2, <1>3, <2>1, <2>2, <2>3, <2>4, MovesOn
  <1>4. CASE ~UNCHANGED <<game, stored, outcomes, memory, session, faults>>
    <2>1. Stop /\ runner' = IF game' # game THEN At("stopped", runner.report)
                            ELSE At("failed", runner.report)
      BY <1>4 DEF LeaveLoop, StopMatch
    <2>2. /\ MatchInv' /\ StatusTells' /\ memory' # Gone /\ outcomes' = outcomes
          /\ \/ game'.over /\ game' # game /\ UNCHANGED faults
             \/ game' = game /\ stored' = stored /\ faults' = [faults EXCEPT !.failures = @ + 1]
      BY <1>1, <2>1, StopDoes DEF TournamentInv
    <2>3. CASE game'.over /\ game' # game /\ UNCHANGED faults
      <3>1. runner' = At("stopped", runner.report)
        BY <2>1, <2>3
      <3>2. "stopped" \in Place \ (Making \cup {"done"})
        BY DEF Place, Making
      <3> QED
        BY <1>1, <1>2, <2>2, <2>3, <3>1, <3>2, MovesOn
    <2>4. CASE game' = game /\ faults' = [faults EXCEPT !.failures = @ + 1]
      <3>1. runner' = At("failed", runner.report)
        BY <2>1, <2>4
      <3>2. "failed" \in Place \ (Making \cup {"done"})
        BY DEF Place, Making
      <3>3. Interrupted
        BY <2>4 DEF Interrupted
      <3> QED
        BY <1>1, <1>2, <2>2, <2>4, <3>1, <3>2, <3>3, MovesOn
    <2> QED
      BY <2>2, <2>3, <2>4
  <1> QED
    BY <1>3, <1>4

\* One call of Advance begins.
LEMMA BeginTurnHolds ==
  ASSUME TournamentInv, BeginTurn
  PROVE  TournamentInv'
  <1> USE TypeFacts, AtWork
  <1>1. /\ runner.at = "loop" /\ row # NoRow /\ UNCHANGED row
        /\ memory # Gone /\ memory.state = game /\ runner.report \in MatchReport
        /\ ~Capped(runner.report) /\ runner.report = row.report
    BY DEF BeginTurn, TournamentInv, Bookkeeping, RunnerAgrees, Making
  <1>2. row.report.turns \in Nat /\ row.report.turns < MaxTurns
    BY <1>1, TournamentAssumption DEF Capped, MatchReport
  <1>3. /\ MatchInv' /\ StatusTells' /\ Unstopped /\ memory' # Gone /\ outcomes' = outcomes
        /\ UNCHANGED faults \/ Interrupted
    <2>1. CASE RunRound
      BY <1>1, <2>1, RoundDoes DEF TournamentInv, FaultsGrow, Interrupted
    <2>2. CASE AskAgain
      BY <1>1, <2>2, AskingDoes DEF TournamentInv, Unstopped
    <2>3. CASE UNCHANGED match
      BY <1>1, <2>3 DEF match, TournamentInv, MatchInv, StatusTells, Unstopped
    <2> QED
      BY <2>1, <2>2, <2>3 DEF BeginTurn
  <1>4. CASE runner' = At("turn", runner.report)
    <2>1. "turn" \in Place \ (Making \cup {"done"})
      BY DEF Place, Making
    <2>2. row.report.turns <= runner.report.turns /\ runner.report.turns <= MaxTurns
      BY <1>1, <1>2, TournamentAssumption
    <2> QED
      BY <1>1, <1>2, <1>3, <1>4, <2>1, <2>2, MovesOn
  <1>5. ASSUME NEW place \in {"save", "error"}, NEW kind \in {"none", "error"},
               runner' = At(place, Turned(runner.report, kind))
        PROVE  TournamentInv'
    <2> DEFINE report == Turned(runner.report, kind)
    <2>1. place \in Place \ (Making \cup {"done"}) /\ place \in {"save", "error"}
      BY <1>5 DEF Place, Making
    <2>2. /\ report \in MatchReport /\ report.turns = row.report.turns + 1
          /\ report.timeouts = runner.report.timeouts /\ report.resigns = runner.report.resigns
      BY <1>1, TurnedType
    <2>3. row.report.turns <= report.turns /\ report.turns <= MaxTurns
      BY <1>2, <2>2, TournamentAssumption
    <2>4. runner' = At(place, report)
      BY <1>5
    <2> HIDE DEF report
    <2> QED
      BY <1>1, <1>3, <2>1, <2>2, <2>3, <2>4, MovesOn
  <1> QED
    BY <1>4, <1>5 DEF BeginTurn, AfterError

\* The controller is asked.
LEMMA CallControllerHolds ==
  ASSUME TournamentInv, CallController
  PROVE  TournamentInv'
  <1> USE TypeFacts, AtWork
  <1>1. /\ runner.at = "turn" /\ row # NoRow /\ UNCHANGED <<row, runner>>
        /\ memory # Gone /\ runner.report \in MatchReport
        /\ ~Capped(runner.report) /\ runner.report = row.report
        /\ runner' = At("turn", runner.report)
    BY DEF CallController, TournamentInv, Bookkeeping, RunnerAgrees, Making
  <1>2. row.report.turns <= runner.report.turns /\ runner.report.turns <= MaxTurns
    BY <1>1 DEF TournamentInv, Bookkeeping, Paid, Making
  <1>3. /\ MatchInv' /\ StatusTells' /\ Unstopped /\ memory' # Gone
        /\ UNCHANGED <<outcomes, faults>>
    BY <1>1, AskingDoes DEF TournamentInv, CallController, Unstopped
  <1>4. "turn" \in Place \ (Making \cup {"done"})
    BY DEF Place, Making
  <1> QED
    BY <1>1, <1>2, <1>3, <1>4, MovesOn

\* Advance returns.
LEMMA EndTurnHolds ==
  ASSUME TournamentInv, EndTurn
  PROVE  TournamentInv'
  <1> USE TypeFacts, AtWork
  <1>1. /\ runner.at = "turn" /\ row # NoRow /\ row.status = "active" /\ UNCHANGED row
        /\ memory # Gone /\ runner # Off
        /\ runner.report \in MatchReport /\ ~Capped(runner.report)
        /\ runner.report = row.report
    BY DEF EndTurn, TournamentInv, Bookkeeping, RunnerAgrees, Making
  <1>2. row.report.turns \in Nat /\ row.report.turns + 1 <= MaxTurns
    BY <1>1, TournamentAssumption DEF Capped, MatchReport
  <1>3. /\ MatchInv' /\ StatusTells' /\ Unstopped /\ FaultsGrow /\ memory' # Gone
        /\ outcomes' = outcomes \/ \E o \in OutcomeRecord : outcomes' = Append(outcomes, o)
    BY <1>1, ConcludeDoes DEF EndTurn, TournamentInv
  <1>4. UNCHANGED faults \/ Interrupted
    BY <1>3 DEF FaultsGrow, Interrupted
  <1>5. CASE outcomes' = outcomes
    <2> DEFINE report == Turned(runner.report, "error")
    <2>1. runner' = At("error", report)
      BY <1>5 DEF EndTurn, AfterError
    <2>2. /\ report \in MatchReport /\ report.turns = row.report.turns + 1
          /\ report.timeouts = runner.report.timeouts /\ report.resigns = runner.report.resigns
      BY <1>1, TurnedType
    <2>3. row.report.turns <= report.turns /\ report.turns <= MaxTurns
      BY <1>2, <2>2, TournamentAssumption
    <2>4. "error" \in Place \ (Making \cup {"done"})
      BY DEF Place, Making
    <2> HIDE DEF report
    <2> QED
      BY <1>1, <1>3, <1>4, <1>5, <2>1, <2>2, <2>3, <2>4, MovesOn
  <1>6. CASE outcomes' # outcomes
    <2>1. PICK o \in OutcomeRecord : outcomes' = Append(outcomes, o)
      BY <1>3, <1>6
    <2> DEFINE report == Turned(runner.report, o.kind)
    <2>2. outcomes'[Len(outcomes')] = o /\ Len(outcomes') = Len(outcomes) + 1
      BY <2>1
    <2>3. runner' = At("save", report)
      BY <1>6, <2>2 DEF EndTurn
    <2>4. /\ report \in MatchReport
          /\ report.turns = row.report.turns + 1
          /\ report.timeouts = row.report.timeouts + (IF o.kind = "timeout" THEN 1 ELSE 0)
          /\ report.resigns = row.report.resigns + (IF o.kind = "resigned" THEN 1 ELSE 0)
      BY <1>1, TurnedType
    <2> HIDE DEF report
    <2>5. runner'.at = "save" /\ runner'.report = report /\ runner' # Off
      BY <2>3 DEF At, Off
    <2>6. /\ faults' \in [crashes : Nat, failures : Nat]
          /\ Interruptions \in Nat /\ Interruptions' \in Nat
          /\ Interruptions' >= Interruptions
      BY <1>4, InterruptionsGrow DEF TournamentInv, TournamentTypes
    <2>7. TournamentTypes'
      BY <1>1, <2>3, <2>4, <2>6 DEF TournamentTypes, TournamentInv, At, Place
    <2>8. Untouched' /\ RunnerAgrees' /\ RowIsTrue' /\ StopShows'
      <3>1. Untouched' /\ RunnerAgrees' /\ RowIsTrue'
        BY <1>1, <1>3, <2>4, <2>5 DEF Untouched, RunnerAgrees, RowIsTrue, Terminated, Making
      <3>2. StopShows'
        BY <1>1, <1>3, <2>6 DEF StopShows, Unstopped, TournamentInv, Bookkeeping
      <3> QED
        BY <3>1, <3>2
    <2>9. Paid'
      <3>1. Len(outcomes) <= row.report.turns + Interruptions
        BY <1>1, <1>2 DEF TournamentInv, Bookkeeping, Paid
      <3>2. Len(outcomes') <= row'.report.turns + Interruptions' + 1
        BY <1>1, <1>2, <2>2, <2>6, <3>1
      <3>3. row'.report.turns <= report.turns /\ report.turns <= MaxTurns
            /\ row'.report.turns <= MaxTurns
        BY <1>1, <1>2, <2>4, TournamentAssumption
      <3> QED
        BY <2>5, <3>2, <3>3 DEF Paid
    <2>10. Tallied'
      <3>1. \A kind : /\ Count(kind)' = Cardinality(OfKind(Append(outcomes, o), kind))
                      /\ Count(kind) = Cardinality(OfKind(outcomes, kind))
        BY <2>1 DEF Count, OfKind
      <3>2. /\ Count("timeout")' = Count("timeout") + (IF o.kind = "timeout" THEN 1 ELSE 0)
            /\ Count("resigned")' = Count("resigned") + (IF o.kind = "resigned" THEN 1 ELSE 0)
        BY <3>1, OneOutcomeMore
      <3>3. AtMost(row.report) /\ (Interruptions = 0 => Exactly(row.report))
        BY <1>1 DEF TournamentInv, Bookkeeping, Tallied
      <3>4. Interruptions' = 0 => Interruptions = 0
        BY <2>6
      <3>5. row.report.timeouts \in Nat /\ row.report.resigns \in Nat
        BY <1>1 DEF MatchReport
      <3> QED
        BY <1>1, <2>4, <2>5, <3>2, <3>3, <3>4, <3>5 DEF Tallied, AtMost, Exactly
    <2> QED
      BY <1>3, <2>7, <2>8, <2>9, <2>10 DEF TournamentInv, Bookkeeping
  <1> QED
    BY <1>5, <1>6

\* Run is called again.
LEMMA RunAgainHolds ==
  ASSUME TournamentInv, RunAgain
  PROVE  TournamentInv'
  <1> USE TypeFacts
  <1>1. /\ runner = Off /\ runner.at = "off"
        /\ UNCHANGED <<game, stored, outcomes, session, faults, row>>
    BY DEF RunAgain
  <1>2. Interruptions' = Interruptions /\ Count("timeout")' = Count("timeout")
        /\ Count("resigned")' = Count("resigned")
    BY <1>1 DEF Interruptions, Count
  <1>3. StatusTells'
    BY <1>1 DEF TournamentInv, StatusTells
  <1>4. /\ row # NoRow => Len(outcomes) <= row.report.turns + Interruptions
                           /\ row.report.turns <= MaxTurns
        /\ row # NoRow => row.report.turns \in Nat /\ AtMost(row.report)
    BY <1>1 DEF TournamentInv, Bookkeeping, Paid, Tallied, MatchReport
  <1>4a. StopShows'
    BY <1>1, <1>2 DEF TournamentInv, Bookkeeping, StopShows
  <1>5. CASE SkipRound
    <2>1. runner' = At("done", row.report) /\ UNCHANGED memory /\ row # NoRow /\ Terminated
      BY <1>5 DEF SkipRound, Skipped, Terminated
    <2>2. runner'.at = "done" /\ runner'.report = row.report /\ runner' # Off
      BY <2>1 DEF At, Off
    <2>3. TournamentTypes'
      BY <1>1, <2>1 DEF TournamentTypes, TournamentInv, At, Place
    <2>4. MatchInv'
      BY <1>1, <2>1 DEF TournamentInv, MatchInv
    <2>5. Untouched' /\ RunnerAgrees'
      BY <1>1, <2>1, <2>2 DEF Untouched, RunnerAgrees, Terminated, Making
    <2>6. RowIsTrue'
      BY <1>1, <2>1, <2>2 DEF RowIsTrue, Terminated, TournamentInv, Bookkeeping, Winners
    <2>7. Paid'
      BY <1>1, <1>2, <1>4, <2>2 DEF Paid
    <2>8. Tallied'
      BY <1>1, <1>2, <1>4, <2>1, <2>2 DEF Tallied, AtMost, Exactly, TournamentInv, Bookkeeping
    <2> QED
      BY <1>3, <1>4a, <2>3, <2>4, <2>5, <2>6, <2>7, <2>8 DEF TournamentInv, Bookkeeping
  <1>6. CASE ResumeRound /\ HasSnapshot
    <2>1. runner' = At("loop", row.report) /\ memory' = InMemory(game, stored.due)
          /\ row # NoRow /\ ~Terminated
      BY <1>6 DEF ResumeRound, Terminated, Resumed, Restored
    <2>2. runner'.at = "loop" /\ runner'.report = row.report /\ runner' # Off
      BY <2>1 DEF At, Off
    <2>3. TournamentTypes'
      BY <1>1, <2>1 DEF TournamentTypes, TournamentInv, At, Place
    <2>4. MatchInv'
      <3>1. stored.due \in Dates(stored.due)
        BY DEF TournamentInv, MatchInv, Dates
      <3> QED
        BY <1>1, <2>1, <3>1 DEF TournamentInv, MatchInv, Holds
    <2>5. memory' # Gone
      BY <2>1 DEF InMemory, Gone
    <2>6. Untouched' /\ RunnerAgrees' /\ RowIsTrue'
      BY <1>1, <2>1, <2>2, <2>5 DEF Untouched, RunnerAgrees, RowIsTrue, Terminated, Making
    <2>7. Paid'
      BY <1>1, <1>2, <1>4, <2>2 DEF Paid
    <2>8. Tallied'
      BY <1>1, <1>2, <1>4, <2>1, <2>2 DEF Tallied, AtMost, Exactly, TournamentInv, Bookkeeping
    <2> QED
      BY <1>3, <1>4a, <2>3, <2>4, <2>6, <2>7, <2>8 DEF TournamentInv, Bookkeeping
  <1>6a. CASE ResumeRound /\ ~HasSnapshot
    <2>1. runner' = At("failed", EmptyReport) /\ UNCHANGED memory /\ row # NoRow /\ ~Terminated
      BY <1>6a DEF ResumeRound, Terminated
    <2>2. runner'.at = "failed" /\ runner'.report = EmptyReport /\ runner' # Off
      BY <2>1 DEF At, Off
    <2>3. EmptyReport \in MatchReport
      BY DEF EmptyReport, MatchReport
    <2>4. TournamentTypes'
      BY <1>1, <2>1, <2>3 DEF TournamentTypes, TournamentInv, At, Place
    <2>5. MatchInv'
      BY <1>1, <2>1 DEF TournamentInv, MatchInv
    <2>6. Interruptions > 0
      BY <1>1, <2>1 DEF TournamentInv, Bookkeeping, Tallied
    <2>7. Untouched' /\ RunnerAgrees' /\ RowIsTrue' /\ Paid'
      BY <1>1, <1>2, <1>4, <2>1, <2>2, <2>6
         DEF Untouched, RunnerAgrees, RowIsTrue, Paid, Terminated, Making
    <2>8. Tallied'
      BY <1>1, <1>2, <1>4, <2>2, <2>6 DEF Tallied, AtMost, Exactly, EmptyReport
    <2> QED
      BY <1>3, <1>4a, <2>4, <2>5, <2>7, <2>8 DEF TournamentInv, Bookkeeping
  <1>7. CASE NewRound
    <2>1. PICK place \in {"game", "create"} :
            runner' = At(place, EmptyReport) /\ memory' = InMemory(InitialState, "none")
      BY <1>7 DEF NewRound
    <2>2. row = NoRow /\ place \in Making /\ place \in Place
      BY <1>7 DEF NewRound, Making, Place
    <2>3. game = InitialState /\ stored.due = "none" /\ outcomes = << >>
      BY <2>2 DEF TournamentInv, Bookkeeping, Untouched
    <2>4. runner'.at = place /\ runner'.report = EmptyReport /\ runner' # Off
      BY <2>1, <2>2 DEF At, Off, Making
    <2>5. EmptyReport \in MatchReport
      BY DEF EmptyReport, MatchReport
    <2>6. TournamentTypes'
      BY <1>1, <2>1, <2>2, <2>5 DEF TournamentTypes, TournamentInv, At
    <2>7. MatchInv'
      <3>1. "none" \in Dates(stored.due) /\ memory' = InMemory(game, "none")
        BY <2>1, <2>3 DEF Dates, Due
      <3> QED
        BY <1>1, <3>1 DEF TournamentInv, MatchInv, Holds
    <2>8. memory' # Gone
      BY <2>1 DEF InMemory, Gone
    <2>9. Untouched' /\ RunnerAgrees' /\ RowIsTrue' /\ Paid'
      BY <1>1, <2>2, <2>3, <2>4, <2>8
         DEF Untouched, RunnerAgrees, RowIsTrue, Terminated, Paid, NoRow, Making
    <2>10. Tallied'
      <3>1. \A kind : OfKind(outcomes, kind) = {}
        BY <2>3 DEF OfKind
      <3>2. \A kind : Count(kind) = Cardinality(OfKind(outcomes, kind))
        BY DEF Count, OfKind
      <3>3. Count("timeout") = 0 /\ Count("resigned") = 0
        BY <3>1, <3>2, FS_EmptySet
      <3> QED
        BY <1>1, <1>2, <2>2, <2>4, <3>3 DEF Tallied, AtMost, Exactly, EmptyReport
    <2> QED
      BY <1>3, <1>4a, <2>6, <2>7, <2>9, <2>10 DEF TournamentInv, Bookkeeping
  <1> QED
    BY <1>5, <1>6, <1>6a, <1>7 DEF RunAgain, ResumeRound

\* Deadlines pass beside the runner.
LEMMA TimeHolds ==
  ASSUME TournamentInv, Time
  PROVE  TournamentInv' /\ UNCHANGED <<row, runner, game, outcomes, faults>>
  <1>1. UNCHANGED <<row, runner>>
    BY DEF Time
  <1>2. /\ MatchInv' /\ StatusTells' /\ UNCHANGED <<game, outcomes, faults>>
        /\ memory # Gone => memory' # Gone
        /\ stored'.status = stored.status
        /\ stored.due = "none" => stored'.due = "none"
    <2>1. CASE Expire
      <3>1. memory # Gone
        BY <2>1 DEF Expire
      <3> QED
        BY <2>1, <3>1, AskingDoes DEF TournamentInv
    <2>2. CASE ExpireAtRest
      <3>1. MatchInv'
        BY <2>2, OtherHolds DEF TournamentInv
      <3>2. stored' = [stored EXCEPT !.due = "passed"] /\ stored.due = "ahead"
            /\ UNCHANGED <<game, outcomes, faults, memory>>
        BY <2>2 DEF ExpireAtRest
      <3>3. stored'.status = stored.status /\ stored' \in [status : GameStatus, due : Due]
        BY <3>2 DEF TournamentInv, StatusTells, Due
      <3> QED
        BY <3>1, <3>2, <3>3 DEF TournamentInv, StatusTells
    <2> QED
      BY <2>1, <2>2 DEF Time
  <1>3. TournamentTypes'
    BY <1>1, <1>2 DEF TournamentInv, TournamentTypes
  <1>4. Untouched' /\ RunnerAgrees' /\ StopShows'
    BY <1>1, <1>2 DEF TournamentInv, Bookkeeping, Untouched, RunnerAgrees, Interruptions,
                      Terminated, StopShows
  <1>5. RowIsTrue'
    BY <1>1, <1>2 DEF TournamentInv, Bookkeeping, RowIsTrue, Terminated, Winners
  <1>6. Paid' /\ Tallied'
    BY <1>1, <1>2 DEF TournamentInv, Bookkeeping, Paid, Tallied, AtMost, Exactly, Count,
                      Interruptions, Terminated
  <1> QED
    BY <1>1, <1>2, <1>3, <1>4, <1>5, <1>6 DEF TournamentInv, Bookkeeping

\* Run goes on, up to its report or its error; a terminal row has no run at work.
LEMMA RunOnHolds ==
  ASSUME TournamentInv, RunOn
  PROVE  TournamentInv' /\ ~Terminated /\ runner.at \notin {"off", "done"}
  <1>1. runner.at \notin {"off", "done"}
    BY DEF RunOn, CreateGame, FirstSnapshot, CreateRow, LeaveLoop, StopMatch, BeginTurn,
           CallController, EndTurn, SaveReport, Finish, GiveUp
  <1>2. ~Terminated
    BY <1>1, AtWork
  <1>3. CASE GiveUp
    <2>1. /\ UNCHANGED <<game, stored, outcomes, row>> /\ runner' = Off /\ memory' = Gone
          /\ UNCHANGED faults /\ runner.at \in {"off", "done", "failed"}
      BY <1>3 DEF GiveUp
    <2> QED
      BY <1>1, <1>2, <2>1, DroppedHolds
  <1> QED
    BY <1>1, <1>2, <1>3, MakingHolds, CreateRowHolds, LeavingHolds, BeginTurnHolds,
        CallControllerHolds,
       EndTurnHolds, SaveReportHolds, FinishHolds DEF RunOn

------------------------------------------------------------------------------
(* The experiment's invariant.                                                 *)

Result == [seed : Nat, tables : Tables]

PhaseRecord == [trained : Seq(Nat), results : Seq(Result), tables : Tables]

RunPlace == {"train", "evaluate", "ensure", "load", "call", "play", "create"}

MatchResult == [status : {"finished", "stopped"}, scores : [Slot -> Nat],
                winners : SUBSET Slot, turns : Nat]

Report == [config : Definition, result : MatchResult, trained : Seq(Nat),
           planner : Seq(Result)]

ExperimentTypes ==
  /\ definition \in {NoDefinition} \cup Definition
  /\ run \in {NotRunning} \cup [at : RunPlace, config : Definition, phase : PhaseRecord]
  /\ reports \in Seq(Report)

\* A phase has gone through the seeds in their order, on tables nothing has touched.
PhaseAgrees(p, d) ==
  /\ p.tables = "fresh"
  /\ Len(p.trained) <= Len(d.training)
  /\ \A j \in DOMAIN p.trained : p.trained[j] = d.training[j]
  /\ Len(p.results) <= Len(d.heldOut)
  /\ \A j \in DOMAIN p.results : p.results[j] = [seed |-> d.heldOut[j], tables |-> "fresh"]

\* Where Run is tells what it has done, under which definition, and whether a match is
\* at work for it.
RunAgrees ==
  /\ run # NotRunning => PhaseAgrees(run.phase, run.config)
  /\ run.at \notin {"off", "train"} => Len(run.phase.trained) = Len(run.config.training)
  /\ run.at \notin {"off", "train", "evaluate"} =>
       Len(run.phase.results) = Len(run.config.heldOut)
  /\ run.at \in {"load", "call", "play", "create"} => run.config = definition
  /\ run.at \notin {"play", "create"} => runner = Off
  /\ run.at = "create" => runner.at = "done"

\* The rows of the tournament and of the match belong together.
StoreAgrees ==
  /\ definition = NoDefinition => row = NoRow
  /\ recorded # NoResult => Terminated /\ recorded = ResultOf(row)

ExperimentInv ==
  TournamentInv /\ ExperimentTypes /\ RunAgrees /\ StoreAgrees /\ ReportsTellTheGame

\* What one report says of the stored rows.
TellsTheGame(r) ==
  /\ r.config = definition
  /\ Terminated /\ game.over
  /\ r.result.status = row.status
  /\ r.result.scores = game.score
  /\ r.result.winners = row.winners
  /\ r.result.turns = row.report.turns
  /\ r.trained = definition.training
  /\ r.planner = [j \in DOMAIN definition.heldOut |->
                    [seed |-> definition.heldOut[j], tables |-> "fresh"]]

\* A terminal row, as TournamentRunner tells it.
LEMMA TerminalResult ==
  ASSUME TournamentInv, Terminated
  PROVE  LET r == ResultOf(row) IN
         /\ r \in MatchResult /\ r # NoResult
         /\ r.status = row.status /\ r.scores = game.score
         /\ r.winners = row.winners /\ r.turns = row.report.turns
         /\ game.over /\ row # NoRow /\ [row EXCEPT !.status = StatusOfResult(r)] = row
  <1>1. row \in [status : {"finished", "stopped"}, report : MatchReport,
                 scores : [Slot -> Nat], winners : SUBSET Slot]
    BY DEF Terminated, TournamentInv, TournamentTypes, Row, NoRow
  <1>2. row.scores = game.score /\ game.over
    BY DEF TournamentInv, Bookkeeping, RowIsTrue
  <1> DEFINE r == ResultOf(row)
  <1>3. r = [status |-> row.status, scores |-> row.scores, winners |-> row.winners,
             turns |-> row.report.turns]
    BY <1>1 DEF ResultOf
  <1> HIDE DEF r
  <1>4. r \in MatchResult
    BY <1>1, <1>3 DEF MatchResult, MatchReport
  <1>5. r.status = row.status /\ r.status # ""
    BY <1>1, <1>3
  <1>6. StatusOfResult(r) = row.status
    BY <1>5 DEF StatusOfResult
  <1>7. [row EXCEPT !.status = StatusOfResult(r)] = row
    BY <1>1, <1>6
  <1>8. row # NoRow /\ r # NoResult
    <2>1. NoResult.status = "" /\ NoRow.status = "absent"
      BY DEF NoResult, NoRow
    <2>2. row # NoRow
      BY <1>1, <2>1
    <2> QED
      BY <1>5, <2>1, <2>2
  <1>9. r.scores = game.score /\ r.winners = row.winners /\ r.turns = row.report.turns
    BY <1>2, <1>3
  <1> QED
    BY <1>2, <1>4, <1>5, <1>7, <1>8, <1>9 DEF r

\* A report that is given is true, and the run is over.
LEMMA GivenHolds ==
  ASSUME ExperimentInv, Terminated, run.at \in {"load", "create"}, Given(Loaded),
         UNCHANGED <<game, stored, outcomes, faults, row, definition, recorded, tried>>
  PROVE  ExperimentInv'
  <1>1. /\ runner' = Off /\ memory' = Gone /\ run' = NotRunning
        /\ runner.at \in {"off", "done"}
    BY DEF Given, Leaves, ExperimentInv, RunAgrees, Off
  <1>2. TournamentInv'
    BY <1>1, DroppedHolds DEF ExperimentInv
  <1> DEFINE r == [config  |-> run.config, result |-> ResultOf(row),
                   trained |-> run.phase.trained, planner |-> run.phase.results]
  <1>3. Loaded = ResultOf(row)
    BY TerminalResult DEF ExperimentInv, StoreAgrees, Loaded
  <1>4. reports' = Append(reports, r)
    BY <1>3 DEF Given
  <1>5. /\ run \in [at : RunPlace, config : Definition, phase : PhaseRecord]
        /\ run.config = definition /\ definition # NoDefinition
        /\ PhaseAgrees(run.phase, run.config)
        /\ Len(run.phase.trained) = Len(run.config.training)
        /\ Len(run.phase.results) = Len(run.config.heldOut)
    BY TerminalResult DEF ExperimentInv, ExperimentTypes, RunAgrees, StoreAgrees, NotRunning
  <1>6. r \in Report
    BY <1>5, TerminalResult DEF ExperimentInv, Report, PhaseRecord
  <1>7. r.trained = definition.training
    BY <1>5 DEF PhaseAgrees, PhaseRecord, Definition
  <1>8. r.planner = [j \in DOMAIN definition.heldOut |->
                      [seed |-> definition.heldOut[j], tables |-> "fresh"]]
    BY <1>5 DEF PhaseAgrees, PhaseRecord, Definition
  <1>9. TellsTheGame(r)
    BY <1>5, <1>7, <1>8, TerminalResult DEF ExperimentInv, TellsTheGame
  <1> HIDE DEF r
  <1>10. reports \in Seq(Report) /\ \A i \in DOMAIN reports : TellsTheGame(reports[i])
    BY DEF ExperimentInv, ExperimentTypes, ReportsTellTheGame, TellsTheGame
  <1>11. reports' \in Seq(Report) /\ \A i \in DOMAIN reports' : TellsTheGame(reports'[i])
    BY <1>4, <1>6, <1>9, <1>10
  <1>12. ReportsTellTheGame'
    BY <1>11 DEF ReportsTellTheGame, TellsTheGame, Terminated
  <1>13. ExperimentTypes' /\ RunAgrees' /\ StoreAgrees'
    BY <1>1, <1>11 DEF ExperimentInv, ExperimentTypes, RunAgrees, StoreAgrees, NotRunning,
                       Terminated
  <1> QED
    BY <1>2, <1>12, <1>13 DEF ExperimentInv

\* A run that is dropped leaves the stored rows and the reports as they are.
LEMMA LeavesHolds ==
  ASSUME ExperimentInv, Leaves,
         UNCHANGED <<game, stored, outcomes, row, definition, recorded, reports>>,
         \/ Interrupted
         \/ UNCHANGED faults /\ runner = Off
  PROVE  ExperimentInv'
  <1>1. runner' = Off /\ memory' = Gone /\ run' = NotRunning
    BY DEF Leaves
  <1>2. runner = Off => runner.at = "off"
    BY DEF Off
  <1>3. TournamentInv'
    BY <1>1, <1>2, DroppedHolds DEF ExperimentInv
  <1>4. ExperimentTypes' /\ RunAgrees' /\ StoreAgrees'
    BY <1>1 DEF ExperimentInv, ExperimentTypes, RunAgrees, StoreAgrees, NotRunning, Terminated
  <1>5. ReportsTellTheGame'
    BY DEF ExperimentInv, ReportsTellTheGame, Terminated
  <1> QED
    BY <1>3, <1>4, <1>5 DEF ExperimentInv

\* A phase agrees with its definition also after one seed more.
LEMMA TrainedAgrees ==
  ASSUME NEW p \in PhaseRecord, NEW d \in Definition, PhaseAgrees(p, d),
         ~(Len(p.trained) + 1 > Len(d.training))
  PROVE  LET q == Trained(p, d.training[Len(p.trained) + 1])
         IN  q \in PhaseRecord /\ PhaseAgrees(q, d)
  <1> DEFINE next == Len(p.trained) + 1
             seed == d.training[next]
             q == Trained(p, seed)
  <1>1. /\ p.trained \in Seq(Nat) /\ p.results \in Seq(Result)
        /\ d.training \in Seq(Nat) /\ d.heldOut \in Seq(Nat)
    BY DEF PhaseRecord, Definition
  <1>2. next \in DOMAIN d.training /\ seed \in Nat
    BY <1>1
  <1> HIDE DEF seed
  <1>3. /\ q.trained = Append(p.trained, seed) /\ q.results = p.results
        /\ q.tables = p.tables /\ q \in PhaseRecord
    <2> DEFINE more == Append(p.trained, seed)
    <2>1. more \in Seq(Nat) /\ q = [p EXCEPT !.trained = more]
      BY <1>1, <1>2 DEF Trained
    <2> HIDE DEF more, q
    <2> QED
      BY <2>1 DEF PhaseRecord, more
  <1> HIDE DEF q
  <1>4. \A j \in DOMAIN q.trained : q.trained[j] = d.training[j]
    <2>1. \A j \in DOMAIN p.trained : p.trained[j] = d.training[j]
      BY DEF PhaseAgrees
    <2>2. DOMAIN q.trained = DOMAIN p.trained \cup {next}
          /\ q.trained[next] = seed
          /\ \A j \in DOMAIN p.trained : q.trained[j] = p.trained[j]
      <3>1. \A s \in Seq(Nat), e \in Nat :
               /\ DOMAIN Append(s, e) = DOMAIN s \cup {Len(s) + 1}
               /\ Append(s, e)[Len(s) + 1] = e
               /\ \A j \in DOMAIN s : Append(s, e)[j] = s[j]
        OBVIOUS
      <3> QED
        BY <1>1, <1>2, <1>3, <3>1
    <2> QED
      BY <2>1, <2>2 DEF seed
  <1>5. Len(q.trained) = next
    BY <1>1, <1>2, <1>3
  <1>6. PhaseAgrees(q, d)
    BY <1>1, <1>3, <1>4, <1>5 DEF PhaseAgrees
  <1> QED
    BY <1>3, <1>6 DEF q, seed

\* The same for a held-out seed.
LEMMA EvaluatedAgrees ==
  ASSUME NEW p \in PhaseRecord, NEW d \in Definition, PhaseAgrees(p, d),
         ~(Len(p.results) + 1 > Len(d.heldOut))
  PROVE  LET q == Evaluated(p, d.heldOut[Len(p.results) + 1])
         IN  /\ q \in PhaseRecord /\ PhaseAgrees(q, d)
             /\ q.trained = p.trained
  <1> DEFINE next == Len(p.results) + 1
             seed == d.heldOut[next]
             r == [seed |-> seed, tables |-> p.tables]
             q == Evaluated(p, seed)
  <1>1. /\ p.trained \in Seq(Nat) /\ p.results \in Seq(Result)
        /\ d.training \in Seq(Nat) /\ d.heldOut \in Seq(Nat)
    BY DEF PhaseRecord, Definition
  <1>2. next \in DOMAIN d.heldOut /\ seed \in Nat
    BY <1>1
  <1>3. r \in Result /\ r = [seed |-> seed, tables |-> "fresh"]
    BY <1>2 DEF Result, PhaseRecord, PhaseAgrees
  <1>4. q = [p EXCEPT !.results = Append(@, r)]
    BY DEF Evaluated
  <1> HIDE DEF r, q, seed
  <1>5. /\ q.results = Append(p.results, r) /\ q.trained = p.trained
        /\ q.tables = p.tables /\ q \in PhaseRecord
    <2> DEFINE more == Append(p.results, r)
    <2>1. more \in Seq(Result) /\ q = [p EXCEPT !.results = more]
      BY <1>1, <1>3, <1>4
    <2> HIDE DEF more
    <2> QED
      BY <2>1 DEF PhaseRecord, more
  <1>6. \A j \in DOMAIN q.results :
           q.results[j] = [seed |-> d.heldOut[j], tables |-> "fresh"]
    <2>1. \A j \in DOMAIN p.results :
             p.results[j] = [seed |-> d.heldOut[j], tables |-> "fresh"]
      BY DEF PhaseAgrees
    <2>2. DOMAIN q.results = DOMAIN p.results \cup {next}
          /\ q.results[next] = r /\ \A j \in DOMAIN p.results : q.results[j] = p.results[j]
      BY <1>1, <1>3, <1>5
    <2> QED
      BY <1>3, <2>1, <2>2 DEF seed
  <1>7. Len(q.results) = next
    BY <1>1, <1>3, <1>5
  <1>8. PhaseAgrees(q, d)
    BY <1>1, <1>5, <1>6, <1>7 DEF PhaseAgrees
  <1> QED
    BY <1>5, <1>8 DEF q, seed

\* Validation, training and evaluation leave all that is stored, and no match is at work.
LEMMA PhaseHolds ==
  ASSUME ExperimentInv, StartRun \/ Train \/ Evaluate
  PROVE  ExperimentInv' /\ UNCHANGED <<row, game, outcomes>>
  <1>1. UNCHANGED <<game, stored, outcomes, memory, session, faults, row, runner,
                    definition, recorded, reports>>
    BY DEF StartRun, Train, Evaluate, tournament
  <1>2. TournamentInv'
    BY <1>1, SameTournament DEF ExperimentInv
  <1>3. ReportsTellTheGame' /\ StoreAgrees'
    BY <1>1 DEF ExperimentInv, ReportsTellTheGame, StoreAgrees, Terminated
  <1>4. CASE StartRun
    <2>1. PICK d \in {Own} \cup Others :
             run' = IF Begins(d).at = "off" THEN NotRunning ELSE Begins(d)
      BY <1>4 DEF StartRun
    <2>2. d \in Definition /\ run.at = "off" /\ runner = Off
      BY <1>4, ExperimentAssumption DEF StartRun, ExperimentInv, RunAgrees
    <2>3. run' = NotRunning \/ run' = [at |-> "train", config |-> d, phase |-> NewPhase]
      BY <2>1 DEF Begins
    <2>4. NewPhase \in PhaseRecord /\ PhaseAgrees(NewPhase, d)
      BY <2>2 DEF NewPhase, PhaseRecord, Tables, PhaseAgrees, Definition
    <2>5. ExperimentTypes'
      BY <1>1, <2>2, <2>3, <2>4 DEF ExperimentInv, ExperimentTypes, RunPlace
    <2>6. RunAgrees'
      BY <1>1, <2>2, <2>3, <2>4 DEF RunAgrees, NotRunning
    <2> QED
      BY <1>1, <1>2, <1>3, <2>5, <2>6 DEF ExperimentInv
  <1>5. ASSUME run.at \in {"train", "evaluate"},
               NEW place \in {"train", "evaluate", "ensure"},
               NEW p \in PhaseRecord, run' = [run EXCEPT !.at = place, !.phase = p],
               PhaseAgrees(p, run.config),
               place # "train" => Len(p.trained) = Len(run.config.training),
               place = "ensure" => Len(p.results) = Len(run.config.heldOut)
        PROVE  ExperimentInv'
    <2>1. run \in [at : RunPlace, config : Definition, phase : PhaseRecord]
      BY <1>5 DEF ExperimentInv, ExperimentTypes, NotRunning
    <2>2. /\ run' \in [at : RunPlace, config : Definition, phase : PhaseRecord]
          /\ run'.at = place /\ run'.phase = p /\ run'.config = run.config
      BY <1>5, <2>1 DEF RunPlace
    <2>3. runner = Off
      BY <1>5 DEF ExperimentInv, RunAgrees
    <2>4. ExperimentTypes'
      BY <1>1, <2>2 DEF ExperimentInv, ExperimentTypes
    <2>5. RunAgrees'
      BY <1>1, <1>5, <2>2, <2>3 DEF RunAgrees
    <2> QED
      BY <1>2, <1>3, <2>4, <2>5 DEF ExperimentInv
  <1>6. ASSUME run.at \in {"train", "evaluate"}
        PROVE  /\ run.phase \in PhaseRecord /\ run.config \in Definition
               /\ PhaseAgrees(run.phase, run.config)
               /\ run \in [at : RunPlace, config : Definition, phase : PhaseRecord]
    BY <1>6 DEF ExperimentInv, ExperimentTypes, RunAgrees, NotRunning
  <1>7. CASE Train
    <2> DEFINE p == run.phase
               d == run.config
               next == Len(p.trained) + 1
    <2>1. run.at = "train"
      BY <1>7 DEF Train
    <2>2. p \in PhaseRecord /\ d \in Definition /\ PhaseAgrees(p, d)
      BY <1>6, <2>1
    <2>3. CASE next > Len(d.training)
      <3>1. run' = [run EXCEPT !.at = "evaluate", !.phase = p]
        BY <1>6, <1>7, <2>1, <2>3 DEF Train, Running
      <3>2. Len(p.trained) = Len(d.training)
        BY <2>2, <2>3 DEF PhaseRecord, Definition, PhaseAgrees
      <3> QED
        BY <1>1, <1>5, <2>1, <2>2, <3>1, <3>2
    <2>4. CASE ~(next > Len(d.training))
      <3> DEFINE q == Trained(p, d.training[next])
      <3>1. run' = [run EXCEPT !.phase = q]
        BY <1>7, <2>4 DEF Train
      <3>2. q \in PhaseRecord /\ PhaseAgrees(q, d)
        BY <2>2, <2>4, TrainedAgrees
      <3> HIDE DEF q
      <3>3. run' = [run EXCEPT !.at = "train", !.phase = q]
        BY <1>6, <2>1, <3>1
      <3> QED
        BY <1>1, <1>5, <2>1, <3>2, <3>3
    <2> QED
      BY <2>3, <2>4
  <1>8. CASE Evaluate
    <2> DEFINE p == run.phase
               d == run.config
               next == Len(p.results) + 1
    <2>1. run.at = "evaluate"
      BY <1>8 DEF Evaluate
    <2>2. /\ p \in PhaseRecord /\ d \in Definition /\ PhaseAgrees(p, d)
          /\ Len(p.trained) = Len(d.training)
      BY <1>6, <2>1 DEF ExperimentInv, RunAgrees
    <2>3. CASE next > Len(d.heldOut)
      <3>1. run' = [run EXCEPT !.at = "ensure", !.phase = p]
        BY <1>6, <1>8, <2>1, <2>3 DEF Evaluate, Running
      <3>2. Len(p.results) = Len(d.heldOut)
        BY <2>2, <2>3 DEF PhaseRecord, Definition, PhaseAgrees
      <3> QED
        BY <1>1, <1>5, <2>1, <2>2, <3>1, <3>2
    <2>4. CASE ~(next > Len(d.heldOut))
      <3> DEFINE q == Evaluated(p, d.heldOut[next])
      <3>1. run' = [run EXCEPT !.phase = q]
        BY <1>8, <2>4 DEF Evaluate
      <3>2. q \in PhaseRecord /\ PhaseAgrees(q, d) /\ Len(q.trained) = Len(d.training)
        BY <2>2, <2>4, EvaluatedAgrees
      <3> HIDE DEF q
      <3>3. run' = [run EXCEPT !.at = "evaluate", !.phase = q]
        BY <1>6, <2>1, <3>1
      <3> QED
        BY <1>1, <1>5, <2>1, <3>2, <3>3
    <2> QED
      BY <2>3, <2>4
  <1> QED
    BY <1>1, <1>4, <1>7, <1>8

\* The definition is stored once and for all, and only without one may the tournament
\* be created.
LEMMA EnsureHolds ==
  ASSUME ExperimentInv, Ensure
  PROVE  ExperimentInv' /\ UNCHANGED <<row, game, outcomes>>
  <1>1. /\ run.at = "ensure" /\ UNCHANGED <<game, stored, outcomes, row, recorded, tried, reports>>
        /\ runner = Off /\ run # NotRunning
    BY DEF Ensure, ExperimentInv, RunAgrees, NotRunning
  <1>2. CASE /\ MayEnsure(run.config)
             /\ definition' = IF definition = NoDefinition THEN run.config ELSE definition
             /\ run' = Running("load") /\ UNCHANGED <<memory, session, runner, faults>>
    <2>1. /\ run \in [at : RunPlace, config : Definition, phase : PhaseRecord]
          /\ PhaseAgrees(run.phase, run.config)
          /\ Len(run.phase.trained) = Len(run.config.training)
          /\ Len(run.phase.results) = Len(run.config.heldOut)
      BY <1>1 DEF ExperimentInv, ExperimentTypes, RunAgrees
    <2>2. /\ run' \in [at : RunPlace, config : Definition, phase : PhaseRecord]
          /\ run'.at = "load" /\ run'.phase = run.phase /\ run'.config = run.config
      BY <1>2, <2>1 DEF Running, RunPlace
    <2>3. definition' = run.config
      BY <1>2 DEF MayEnsure
    <2>4. TournamentInv'
      BY <1>1, <1>2, SameTournament DEF ExperimentInv
    <2>5. ExperimentTypes'
      BY <1>1, <2>1, <2>2, <2>3 DEF ExperimentInv, ExperimentTypes
    <2>6. RunAgrees'
      BY <1>1, <1>2, <2>1, <2>2, <2>3 DEF RunAgrees
    <2>7. StoreAgrees'
      <3>1. run.config # NoDefinition
        <4>1. run.config \in Definition
          BY <2>1
        <4>2. DOMAIN run.config = {"name", "training", "heldOut"}
          BY <4>1 DEF Definition
        <4>3. DOMAIN NoDefinition = {"name"}
          BY DEF NoDefinition
        <4> QED
          BY <4>2, <4>3
      <3> QED
        BY <1>1, <2>3, <3>1 DEF ExperimentInv, StoreAgrees, Terminated
    <2>8. ReportsTellTheGame'
      <3>1. CASE definition = NoDefinition
        <4>1. ~Terminated
          BY <3>1 DEF ExperimentInv, StoreAgrees, Terminated, NoRow
        <4>2. DOMAIN reports = {}
          BY <4>1 DEF ExperimentInv, ReportsTellTheGame
        <4> QED
          BY <1>1, <4>2 DEF ReportsTellTheGame
      <3>2. CASE definition # NoDefinition
        <4>1. definition' = definition
          BY <1>2, <3>2
        <4> QED
          BY <1>1, <4>1 DEF ExperimentInv, ReportsTellTheGame, Terminated
      <3> QED
        BY <3>1, <3>2
    <2> QED
      BY <1>1, <2>4, <2>5, <2>6, <2>7, <2>8 DEF ExperimentInv
  <1>3. CASE Leaves /\ UNCHANGED <<definition, faults>>
    BY <1>1, <1>3, LeavesHolds
  <1>4. CASE /\ faults' = [faults EXCEPT !.failures = @ + 1] /\ Leaves
             /\ UNCHANGED definition
    BY <1>1, <1>4, LeavesHolds DEF Interrupted
  <1> QED
    BY <1>2, <1>3, <1>4 DEF Ensure

\* A change of place alone.
LEMMA PlaceHolds ==
  ASSUME ExperimentInv, TournamentInv', NEW place \in {"call", "play"},
         run.at \in {"load", "call", "play"}, run' = Running(place),
         place = "call" => runner' = Off,
         UNCHANGED <<definition, recorded, reports>>,
         recorded # NoResult \/ reports # << >> => UNCHANGED <<game, row>>
  PROVE  ExperimentInv'
  <1>1. /\ run \in [at : RunPlace, config : Definition, phase : PhaseRecord]
        /\ PhaseAgrees(run.phase, run.config)
        /\ Len(run.phase.trained) = Len(run.config.training)
        /\ Len(run.phase.results) = Len(run.config.heldOut)
        /\ run.config = definition
    BY DEF ExperimentInv, ExperimentTypes, RunAgrees, NotRunning
  <1>2. /\ run' \in [at : RunPlace, config : Definition, phase : PhaseRecord]
        /\ run'.at = place /\ run'.phase = run.phase /\ run'.config = run.config
    BY <1>1 DEF Running, RunPlace
  <1>3. ExperimentTypes'
    BY <1>2 DEF ExperimentInv, ExperimentTypes
  <1>4. RunAgrees'
    BY <1>1, <1>2 DEF RunAgrees
  <1>5. definition # NoDefinition
    <2>1. DOMAIN definition = {"name", "training", "heldOut"}
      BY <1>1 DEF Definition
    <2>2. DOMAIN NoDefinition = {"name"}
      BY DEF NoDefinition
    <2> QED
      BY <2>1, <2>2
  <1>6. StoreAgrees'
    BY <1>5 DEF ExperimentInv, StoreAgrees, Terminated, ResultOf
  <1>7. ReportsTellTheGame'
    <2>1. CASE reports = << >>
      BY <2>1 DEF ReportsTellTheGame
    <2>2. CASE reports # << >>
      BY <2>2 DEF ExperimentInv, ReportsTellTheGame, Terminated
    <2> QED
      BY <2>1, <2>2
  <1> QED
    BY <1>3, <1>4, <1>6, <1>7 DEF ExperimentInv

\* Without a terminal row there is no result and no report.
LEMMA NothingReported ==
  ASSUME ExperimentInv, ~Terminated
  PROVE  recorded = NoResult /\ reports = << >>
  <1>1. reports \in Seq(Report) /\ DOMAIN reports = {}
    BY DEF ExperimentInv, ExperimentTypes, ReportsTellTheGame
  <1>2. reports = << >>
    BY <1>1
  <1> QED
    BY <1>2 DEF ExperimentInv, StoreAgrees

\* The match is looked up and run.
LEMMA CallHolds ==
  ASSUME ExperimentInv, LoadMatch \/ CallRunner
  PROVE  ExperimentInv' /\ UNCHANGED <<row, game, outcomes>>
  <1>1. CASE LoadMatch /\ IsTerminalMatch(row)
    BY <1>1, GivenHolds DEF LoadMatch, IsTerminalMatch, Terminated
  <1>2. CASE LoadMatch /\ ~IsTerminalMatch(row)
    <2>1. /\ run.at = "load" /\ run' = Running("call")
          /\ UNCHANGED <<game, stored, outcomes, memory, session, faults, row, runner,
                         definition, recorded, reports>>
      BY <1>2 DEF LoadMatch
    <2>2. TournamentInv'
      BY <2>1, SameTournament DEF ExperimentInv
    <2>3. runner' = Off
      BY <2>1 DEF ExperimentInv, RunAgrees
    <2> QED
      BY <2>1, <2>2, <2>3, PlaceHolds
  <1>3. CASE CallRunner
    <2>1. /\ run.at = "call" /\ RunAgain /\ run' = Running("play")
          /\ UNCHANGED <<definition, recorded, reports>>
      BY <1>3 DEF CallRunner
    <2>2. UNCHANGED <<row, game, outcomes>>
      BY <2>1 DEF RunAgain
    <2>3. TournamentInv'
      BY <2>1, RunAgainHolds DEF ExperimentInv
    <2> QED
      BY <2>1, <2>2, <2>3, PlaceHolds
  <1> QED
    BY <1>1, <1>2, <1>3

\* The tournament goes on under the experiment; nothing of the match is reported yet.
LEMMA PlayHolds ==
  ASSUME ExperimentInv, Play
  PROVE  ExperimentInv' /\ ~Terminated
  <1>1. TournamentInv' /\ ~Terminated
    BY RunOnHolds DEF ExperimentInv, Play
  <1>2. recorded = NoResult /\ reports = << >>
    BY <1>1, NothingReported
  <1>3. /\ run.at = "play" /\ UNCHANGED <<definition, recorded, tried, reports>>
        /\ run' = IF runner' = Off THEN NotRunning ELSE run
    BY DEF Play
  <1>4. CASE runner' # Off
    <2>1. run' = Running("play")
      <3>1. run \in [at : RunPlace, config : Definition, phase : PhaseRecord]
        BY <1>3 DEF ExperimentInv, ExperimentTypes, NotRunning
      <3> QED
        BY <1>3, <1>4, <3>1 DEF Running
    <2> QED
      BY <1>1, <1>2, <1>3, <2>1, PlaceHolds
  <1>5. CASE runner' = Off
    <2>1. run' = NotRunning
      BY <1>3, <1>5
    <2>2. ExperimentTypes' /\ RunAgrees'
      BY <1>3, <1>5, <2>1 DEF ExperimentInv, ExperimentTypes, RunAgrees, NotRunning
    <2>3. ReportsTellTheGame'
      BY <1>2, <1>3 DEF ReportsTellTheGame
    <2>4. StoreAgrees'
      <3>1. definition # NoDefinition
        <4>1. definition \in Definition
          BY <1>3 DEF ExperimentInv, ExperimentTypes, RunAgrees, NotRunning
        <4>2. DOMAIN definition = {"name", "training", "heldOut"}
          BY <4>1 DEF Definition
        <4>3. DOMAIN NoDefinition = {"name"}
          BY DEF NoDefinition
        <4> QED
          BY <4>2, <4>3
      <3> QED
        BY <1>2, <1>3, <3>1 DEF StoreAgrees
    <2> QED
      BY <1>1, <2>2, <2>3, <2>4 DEF ExperimentInv
  <1> QED
    BY <1>1, <1>4, <1>5

\* The result is added to the row, which stays what it is, and then reported.
LEMMA ResultHolds ==
  ASSUME ExperimentInv, AugmentStoredMatch \/ CreateMatch
  PROVE  ExperimentInv' /\ UNCHANGED <<row, game, outcomes>>
  <1>1. runner.at = "done" /\ Terminated
    BY DEF AugmentStoredMatch, CreateMatch, ExperimentInv, RunAgrees, TournamentInv,
           Bookkeeping, RunnerAgrees
  <1>2. CASE CreateMatch
    BY <1>1, <1>2, GivenHolds DEF CreateMatch
  <1>3. CASE /\ run.at = "play" /\ recorded' = ResultOf(row)
             /\ row' = [row EXCEPT !.status = StatusOfResult(ResultOf(row))]
             /\ run' = Running("create")
             /\ UNCHANGED <<game, stored, outcomes, memory, session, runner, faults,
                            definition, tried, reports>>
    <2>1. row' = row
      <3>1. [row EXCEPT !.status = StatusOfResult(ResultOf(row))] = row
        BY <1>1, TerminalResult DEF ExperimentInv
      <3> QED
        BY <1>3, <3>1
    <2>2. TournamentInv'
      <3>1. UNCHANGED <<game, stored, outcomes, memory, faults, row, runner>>
        BY <1>3, <2>1
      <3> QED
        BY <3>1, SameTournament DEF ExperimentInv
    <2>3. /\ run \in [at : RunPlace, config : Definition, phase : PhaseRecord]
          /\ PhaseAgrees(run.phase, run.config)
          /\ Len(run.phase.trained) = Len(run.config.training)
          /\ Len(run.phase.results) = Len(run.config.heldOut)
          /\ run.config = definition
      BY <1>3 DEF ExperimentInv, ExperimentTypes, RunAgrees, NotRunning
    <2>4. /\ run' \in [at : RunPlace, config : Definition, phase : PhaseRecord]
          /\ run'.at = "create" /\ run'.phase = run.phase /\ run'.config = run.config
      BY <1>3, <2>3 DEF Running, RunPlace
    <2>5. ExperimentTypes' /\ RunAgrees'
      BY <1>1, <1>3, <2>3, <2>4 DEF ExperimentInv, ExperimentTypes, RunAgrees
    <2>6. StoreAgrees'
      BY <1>1, <1>3, <2>1 DEF ExperimentInv, StoreAgrees, Terminated, ResultOf
    <2>7. ReportsTellTheGame'
      BY <1>1, <1>3, <2>1 DEF ExperimentInv, ReportsTellTheGame, Terminated
    <2> QED
      BY <1>3, <2>1, <2>2, <2>5, <2>6, <2>7 DEF ExperimentInv
  <1>4. CASE /\ faults' = [faults EXCEPT !.failures = @ + 1] /\ Leaves
             /\ UNCHANGED <<recorded, row, game, stored, outcomes, definition, tried, reports>>
    BY <1>4, LeavesHolds DEF Interrupted
  <1> QED
    BY <1>2, <1>3, <1>4 DEF AugmentStoredMatch

\* Time passes beside everything.
LEMMA TimePassesHolds ==
  ASSUME ExperimentInv, TimePasses
  PROVE  ExperimentInv' /\ UNCHANGED <<row, game, outcomes>>
  <1>1. TournamentInv' /\ UNCHANGED <<row, runner, game, outcomes, faults>>
    BY TimeHolds DEF ExperimentInv, TimePasses
  <1>2. UNCHANGED <<definition, recorded, run, tried, reports>>
    BY DEF TimePasses
  <1>3. ExperimentTypes' /\ RunAgrees' /\ StoreAgrees' /\ ReportsTellTheGame'
    BY <1>1, <1>2 DEF ExperimentInv, ExperimentTypes, RunAgrees, StoreAgrees,
                      ReportsTellTheGame, Terminated, ResultOf
  <1> QED
    BY <1>1, <1>3 DEF ExperimentInv

------------------------------------------------------------------------------
(* Every step, and every run.                                                  *)

\* From a terminal row on, nothing moves.
Final == Terminated => row' = row /\ game' = game /\ outcomes' = outcomes

\* One step of the experiment, or of what it drives, keeps the invariant and what
\* is final.
LEMMA ExperimentStep ==
  ASSUME ExperimentInv, [ExperimentNext]_experiment
  PROVE  ExperimentInv' /\ Final
  <1>1. CASE PhaseFails
    <2>1. /\ UNCHANGED <<game, stored, outcomes, row, definition, recorded, reports>>
          /\ Leaves /\ Interrupted
      BY <1>1 DEF PhaseFails, Interrupted
    <2> QED
      BY <2>1, LeavesHolds DEF Final
  <1>2. CASE CrashExperiment
    <2>1. /\ UNCHANGED <<game, stored, outcomes, row, definition, recorded, reports>>
          /\ Leaves /\ Interrupted
      BY <1>2 DEF CrashExperiment, Interrupted
    <2> QED
      BY <2>1, LeavesHolds DEF Final
  <1>3. CASE UNCHANGED experiment
    <2>1. UNCHANGED <<game, stored, outcomes, memory, session, faults, row, runner,
                      definition, recorded, run, tried, reports>>
      BY <1>3 DEF experiment, tournament
    <2>2. TournamentInv'
      BY <2>1, SameTournament DEF ExperimentInv
    <2>3. ExperimentTypes' /\ RunAgrees' /\ StoreAgrees' /\ ReportsTellTheGame'
      BY <2>1 DEF ExperimentInv, ExperimentTypes, RunAgrees, StoreAgrees, ReportsTellTheGame,
                  Terminated, ResultOf
    <2> QED
      BY <2>1, <2>2, <2>3 DEF ExperimentInv, Final
  <1>4. CASE StartRun \/ Train \/ Evaluate
    BY <1>4, PhaseHolds DEF Final
  <1>5. CASE Ensure
    BY <1>5, EnsureHolds DEF Final
  <1>6. CASE LoadMatch \/ CallRunner
    BY <1>6, CallHolds DEF Final
  <1>7. CASE Play
    BY <1>7, PlayHolds DEF Final
  <1>8. CASE AugmentStoredMatch \/ CreateMatch
    BY <1>8, ResultHolds DEF Final
  <1>9. CASE TimePasses
    BY <1>9, TimePassesHolds DEF Final
  <1> QED
    BY <1>1, <1>2, <1>3, <1>4, <1>5, <1>6, <1>7, <1>8, <1>9 DEF ExperimentNext, RunExperiment

\* Nothing is stored and nothing runs.
LEMMA ExperimentBegins == ExperimentInit => ExperimentInv
  <1> SUFFICES ASSUME ExperimentInit PROVE ExperimentInv
    OBVIOUS
  <1>1. Good(game) /\ game.pending = NoDecision /\ ~game.over
    BY InitGood DEF ExperimentInit, InitialState
  <1>2. outcomes = << >> /\ outcomes \in Seq(OutcomeRecord) /\ stored.due = "none"
        /\ stored = [status |-> "absent", due |-> "none"] /\ memory = Gone
        /\ row = NoRow /\ runner = Off
        /\ game = InitialState
    BY DEF ExperimentInit
  <1>3. MatchInv
    BY <1>1, <1>2 DEF MatchInv, Story, Holds, Due, Pending, Once
  <1>4. StatusTells /\ TournamentTypes
    BY <1>1, <1>2 DEF StatusTells, TournamentTypes, Row, ExperimentInit, GameStatus, Due
  <1>5. Bookkeeping
    BY <1>2 DEF Bookkeeping, Untouched, RunnerAgrees, StopShows, RowIsTrue, Paid, Tallied,
                Terminated, NoRow, Off, Making
  <1>6. ExperimentTypes /\ RunAgrees /\ StoreAgrees /\ ReportsTellTheGame
    BY <1>2 DEF ExperimentInit, ExperimentTypes, RunAgrees, StoreAgrees, ReportsTellTheGame,
                NotRunning
  <1> QED
    BY <1>3, <1>4, <1>5, <1>6 DEF ExperimentInv, TournamentInv

\* The fairness is not needed.
LEMMA AlwaysExperimentInv == ExperimentSpec => []ExperimentInv
  <1>1. ExperimentInv /\ [ExperimentNext]_experiment => ExperimentInv'
    BY ExperimentStep
  <1> QED
    BY <1>1, ExperimentBegins, PTL DEF ExperimentSpec

------------------------------------------------------------------------------
(* The theorems.                                                               *)

\* A row that calls its match finished or stopped has the scores and, when it says
\* finished, the leaders of the stored game, which is over: played to the last death, or
\* stopped by a run that was then interrupted.  This after any number of restarts,
\* refused writes and repeated runs.
THEOREM TerminalRowsAreTrue == ExperimentSpec => []TerminalRowIsTrue
  <1>1. ASSUME ExperimentInv, Terminated, row.status = "finished"
        PROVE  (\A w \in Slot : ~game.alive[w])
                 \/ (stored.status = "stopped" /\ faults.crashes + faults.failures > 0)
    <2>1. game.over /\ runner.at # "stopped"
      BY <1>1 DEF ExperimentInv, TournamentInv, Bookkeeping, RowIsTrue
    <2> QED
      BY <1>1, <2>1 DEF ExperimentInv, TournamentInv, Bookkeeping, StatusTells, StopShows,
                        Interruptions
  <1>2. ExperimentInv => TerminalRowIsTrue
    BY <1>1 DEF ExperimentInv, TournamentInv, Bookkeeping, RowIsTrue, TerminalRowIsTrue
  <1> QED
    BY <1>2, AlwaysExperimentInv, PTL

\* From a terminal row on, the row, the game and its outcomes stay, however often the
\* experiment is run again.
THEOREM FinishedStaysFinal == ExperimentSpec => FinishedIsFinal
  <1>1. ExperimentInv /\ [ExperimentNext]_experiment => [Final]_tournament
    BY ExperimentStep
  <1> QED
    BY <1>1, AlwaysExperimentInv, PTL DEF ExperimentSpec, FinishedIsFinal, Final

\* For every cap: each outcome beyond it was paid for with an interruption of a turn.
THEOREM CapAlwaysHolds == ExperimentSpec => []CapHolds
  <1>1. ASSUME ExperimentInv PROVE CapHolds
    <2>1. /\ Interruptions \in Nat /\ Len(outcomes) \in Nat
          /\ row # NoRow => row.report \in MatchReport
          /\ runner # Off => runner.report \in MatchReport
          /\ runner = Off => runner.at = "off"
      BY <1>1, TypeFacts DEF ExperimentInv
    <2>2. CASE row = NoRow
      <3>1. Len(outcomes) = 0
        BY <1>1, <2>2 DEF ExperimentInv, TournamentInv, Bookkeeping, Untouched
      <3>2. faults.crashes \in Nat /\ faults.failures \in Nat
        BY <1>1 DEF ExperimentInv, TournamentInv, TournamentTypes
      <3> QED
        BY <3>1, <3>2, TournamentAssumption DEF CapHolds
    <2>3. CASE row # NoRow
      <3>1. /\ Len(outcomes) <= row.report.turns + Interruptions
                                   + (IF runner.at = "save" THEN 1 ELSE 0)
            /\ row.report.turns <= MaxTurns
            /\ runner.at = "save" => /\ runner.report.turns = row.report.turns + 1
                                     /\ runner.report.turns <= MaxTurns
        BY <1>1, <2>3 DEF ExperimentInv, TournamentInv, Bookkeeping, Paid, RunnerAgrees
      <3>2. row.report.turns \in Nat
        BY <2>1, <2>3 DEF MatchReport
      <3>3. Len(outcomes) <= MaxTurns + Interruptions
        BY <2>1, <3>1, <3>2, TournamentAssumption
      <3>4. faults.crashes \in Nat /\ faults.failures \in Nat
        BY <1>1 DEF ExperimentInv, TournamentInv, TournamentTypes
      <3> QED
        BY <2>1, <3>3, <3>4, TournamentAssumption DEF CapHolds, Interruptions
    <2> QED
      BY <2>2, <2>3
  <1> QED
    BY <1>1, AlwaysExperimentInv, PTL

\* The counters of a terminal row never count an outcome twice, and count them all when
\* nothing was interrupted.
THEOREM OutcomesAlwaysCounted == ExperimentSpec => []OutcomesAreCounted
  <1>1. ASSUME ExperimentInv, Terminated
        PROVE  /\ row.report.timeouts <= Count("timeout")
               /\ row.report.resigns <= Count("resigned")
               /\ faults.crashes = 0 /\ faults.failures = 0 =>
                    /\ row.report.timeouts = Count("timeout")
                    /\ row.report.resigns = Count("resigned")
    <2>1. row # NoRow /\ runner.at \in {"off", "done"}
      BY <1>1 DEF Terminated, NoRow, ExperimentInv, TournamentInv, Bookkeeping, RowIsTrue
    <2>2. AtMost(row.report)
      BY <1>1, <2>1 DEF ExperimentInv, TournamentInv, Bookkeeping, Tallied
    <2>3. ASSUME faults.crashes = 0, faults.failures = 0 PROVE Exactly(row.report)
      <3>1. Interruptions = 0
        BY <2>3 DEF Interruptions
      <3>2. CASE runner = Off
        BY <1>1, <2>1, <3>1, <3>2 DEF ExperimentInv, TournamentInv, Bookkeeping, Tallied
      <3>3. CASE runner # Off
        <4>1. runner.at = "done"
          BY <1>1, <2>1, <3>3, TypeFacts DEF ExperimentInv, Place, Making
        <4> QED
          BY <1>1, <3>1, <3>3, <4>1 DEF ExperimentInv, TournamentInv, Bookkeeping, RunnerAgrees,
                                       Tallied
      <3> QED
        BY <3>2, <3>3
    <2> QED
      BY <2>2, <2>3 DEF AtMost, Exactly
  <1>2. ExperimentInv => OutcomesAreCounted
    BY <1>1 DEF OutcomesAreCounted
  <1> QED
    BY <1>2, AlwaysExperimentInv, PTL

\* Every report tells the stored game, under the stored definition, whichever run gives
\* it and whatever failed in the runs before.
THEOREM ReportsAlwaysTellTheGame == ExperimentSpec => []ReportsTellTheGame
  <1>1. ExperimentInv => ReportsTellTheGame
    BY DEF ExperimentInv
  <1> QED
    BY <1>1, AlwaysExperimentInv, PTL

===============================================================================
