----------------------------- MODULE GameService -----------------------------
(***************************************************************************)
(* The HTTP game service of internal/server/server.go over the store and   *)
(* the engine, for one classic game without extensions.                    *)
(*                                                                         *)
(* gameOperation and planGame hold one mutex from the first read to the    *)
(* answer, so everything they do up to the append is one step here; the    *)
(* completion of a finished game is a transaction of its own and a step of *)
(* its own, with room for a crash before it.  GET .../resume takes no      *)
(* mutex: each of its queries is a step.  A client repeats a request until *)
(* it sees an answer, so a request may be handled more than once.          *)
(***************************************************************************)
EXTENDS WormsEngine, GameStore

CONSTANTS Client,        \* who sends requests
          PauseStatus,   \* the statuses that POST .../pause is asked for
          MoveDir,        \* the directions that clients and the planner choose
          MaxEvents      \* bound on the length of the chain

VARIABLES
  db,        \* the rows of the game
  handler,   \* the operation that has appended the last event, or Idle
  attempt,   \* the request each client is repeating, or NoRequest
  applied,   \* how often the attempt has appended an event
  answer,    \* the head in the last answer to the attempt, or NoAnswer
  known,     \* the head each client will name in its next request
  reader     \* the query GET .../resume is at, for whom, and what it has read

\* `game`, the engine's variable, is the state in the snapshot at the head.
service == <<game, db, handler, attempt, applied, answer, known, reader>>

ASSUME ServiceAssumption == MaxEvents \in Nat /\ MoveDir \subseteq Dir

EventKind == {"worm_moved", "resigned", "tick", "taught"}

Idle      == [client |-> "nobody"]
NoRequest == [op |-> "none"]
NoAnswer  == [op |-> "none"]
NotReading == [at |-> "idle"]

------------------------------------------------------------------------------
(* What an operation does to the engine state it has loaded: the set of        *)
(* states it may store, empty when it is refused.                              *)

\* Any worm of the game may be named, whoever's turn it is and whatever is
\* pending; Step alone judges the move.
Act(s, w, d) == IF CanStep(s, w, d) THEN Step(Quiet(s), w, d) ELSE {}

Resign(s) == {[Quiet(s) EXCEPT !.over = TRUE]}

Tick(s) == IF CanAdvance(s) THEN AdvanceOutcomes(s) ELSE {}

\* The answer must name the pending decision; Submit then files the direction
\* under the pattern of that decision.
Teach(s, decision, d) ==
  IF s.pending # NoDecision /\ decision = s.pending /\ CanSubmit(s, d)
  THEN SubmitOutcomes(s, d) ELSE {}

\* The planner compares the pattern with the one the worm sees before it answers
\* with a legal move (which one its search and its seed decide; bound: MoveDir).
Plan(s) ==
  IF /\ s.pending # NoDecision
     /\ ~Frozen(s.pending.slot)
     /\ s.pending.mask = MaskAt(s, s.pos[s.pending.slot])
     /\ s.rules[s.pending.slot][s.pending.mask] = GETNEW
  THEN UNION {SubmitOutcomes(s, d) : d \in LegalMoves(s, s.pending.slot) \cap MoveDir}
  ELSE {}

\* teachingDecision: an answer must have the worm, the pattern and the number of its
\* decision, and a direction; one with less of it is no teach request.
TeachRequests(s) == [op : {"teach"}, decision : {s.pending}, dir : MoveDir]

Operations ==
       [op : {"act"}, worm : Slot, dir : MoveDir]
  \cup [op : {"resign", "tick", "plan", "abort"}]
  \cup TeachRequests(game)
  \cup [op : {"pause"}, status : PauseStatus]

Outcomes(s, o) ==
  CASE o.op = "act"    -> Act(s, o.worm, o.dir)
    [] o.op = "resign" -> Resign(s)
    [] o.op = "tick"   -> Tick(s)
    [] o.op = "teach"  -> Teach(s, o.decision, o.dir)
    [] o.op = "plan"   -> Plan(s)
    [] OTHER           -> {}

Kindred(o) ==
  CASE o.op = "act"    -> "worm_moved"
    [] o.op = "resign" -> "resigned"
    [] o.op = "tick"   -> "tick"
    [] OTHER           -> "taught"

\* A stored state that fails Validate cannot be decoded again.
Loadable == Validate(game)

------------------------------------------------------------------------------
\* initialEngineState: every participant's worm, configured by its kind and the seed.
\* (A client may also send a state of its own, which createGame compares with this one.)
CreatedState == InitialState

ServiceInit ==
  /\ game = CreatedState
  /\ db = CreatedGame("running")
  /\ handler = Idle
  /\ attempt = [c \in Client |-> NoRequest]
  /\ applied = [c \in Client |-> 0]
  /\ answer = [c \in Client |-> NoAnswer]
  /\ known = [c \in Client |-> HeadOf(CreatedGame("running"))]
  /\ reader = NotReading

\* A client waits for one answer at a time.
Idles(c) == attempt[c] = NoRequest /\ (reader # NotReading => reader.by # c)

\* A client decides on an operation at the head it knows.  The bound on the chain is
\* here: a request at a longer head is not sent.
Send(c) ==
  /\ Idles(c)
  /\ known[c].sequence < MaxEvents
  /\ \E o \in Operations :
       attempt' = [attempt EXCEPT ![c] = [op |-> o, head |-> known[c]]]
  /\ UNCHANGED <<game, db, handler, applied, answer, known, reader>>

\* An operation that appends its event with the state that results.  A game that
\* is now over keeps the handler busy with its completion; planGame never does.
Store(c, outcomes) ==
  LET r == attempt[c] IN
  /\ game' \in outcomes
  /\ db' = AppendedWithSnapshot(db, <<Kindred(r.op)>>)
  /\ applied' = [applied EXCEPT ![c] = @ + 1]
  /\ IF game'.over /\ r.op.op # "plan"
     THEN /\ handler' = [client |-> c, row |-> HeadOf(db)]
          /\ UNCHANGED answer
     ELSE /\ answer' = [answer EXCEPT ![c] = HeadOf(db')]
          /\ UNCHANGED handler
  /\ UNCHANGED <<attempt, known, reader>>

\* pause and abort change the status of the row before they load any state.
SetStatus(c) ==
  LET o == attempt[c].op IN
  /\ db' = WithStatus(db, IF o.op = "abort" THEN "cancelled" ELSE o.status)
  /\ answer' = [answer EXCEPT ![c] = HeadOf(db')]
  /\ UNCHANGED <<game, handler, attempt, applied, known, reader>>

\* Every other outcome is an error: a stale head, a terminal status, an operation
\* the engine refuses, a state that cannot be decoded.  A conflict tells the head.
Refuse(c) ==
  /\ answer' = [answer EXCEPT ![c] = HeadOf(db)]
  /\ UNCHANGED <<game, db, handler, attempt, applied, known, reader>>

\* The handler has the mutex and the row; which way it goes.
Handle(c) ==
  LET r == attempt[c]
      writable == CanWrite(db, r.head)
      outcomes == IF Loadable THEN Outcomes(game, r.op) ELSE {}
  IN /\ handler = Idle
     /\ r # NoRequest
     /\ \/ writable /\ r.op.op \in {"pause", "abort"} /\ SetStatus(c)
        \/ writable /\ r.op.op \notin {"pause", "abort"} /\ Store(c, outcomes)
        \/ ~writable /\ Refuse(c)
        \/ writable /\ r.op.op \notin {"pause", "abort"} /\ outcomes = {} /\ Refuse(c)

\* persistAuthoritativeResults is given the row the handler read at the start.
Finish ==
  /\ handler # Idle
  /\ db' = IF CanWrite(db, handler.row) THEN Completed(db, "completed") ELSE db
  /\ handler' = Idle
  /\ answer' = [answer EXCEPT ![handler.client] = HeadOf(db)]
  /\ UNCHANGED <<game, attempt, applied, known, reader>>

\* The process stops between the two transactions and starts again on the file.  Its
\* GET requests end with it; a reader with a connection of its own goes on.
Crash ==
  /\ handler # Idle
  /\ handler' = Idle
  /\ reader' = IF reader # NotReading /\ reader.by \in Client THEN NotReading ELSE reader
  /\ UNCHANGED <<game, db, attempt, applied, answer, known>>

\* A client sees the answer and goes on from the head in it.
Receive(c) ==
  /\ answer[c] # NoAnswer
  /\ known' = [known EXCEPT ![c] = answer[c]]
  /\ answer' = [answer EXCEPT ![c] = NoAnswer]
  /\ attempt' = [attempt EXCEPT ![c] = NoRequest]
  /\ applied' = [applied EXCEPT ![c] = 0]
  /\ UNCHANGED <<game, db, handler, reader>>

------------------------------------------------------------------------------
(* GET .../resume.                                                             *)

\* GetGame; `asOf` remembers the state of that moment, for the properties.
ReadRow(c) ==
  /\ reader = NotReading
  /\ Idles(c)
  /\ reader' = [at |-> "row", by |-> c, row |-> HeadOf(db), asOf |-> game]
  /\ UNCHANGED <<game, db, handler, attempt, applied, answer, known>>

\* VerifyEventChain reads the head first ...
ReadHead ==
  /\ reader.at = "row"
  /\ reader' = [at |-> "head", by |-> reader.by, row |-> reader.row,
                asOf |-> reader.asOf, head |-> HeadOf(db)]
  /\ UNCHANGED <<game, db, handler, attempt, applied, answer, known>>

Corrupt == [at |-> "corrupt", by |-> reader.by]

\* ... and the events afterwards.
ReadChain ==
  /\ reader.at = "head"
  /\ reader' = IF ChainMatches(reader.head, db.chain)
               THEN [at |-> "chain", by |-> reader.by, row |-> reader.row,
                     asOf |-> reader.asOf]
               ELSE Corrupt
  /\ UNCHANGED <<game, db, handler, attempt, applied, answer, known>>

Answered(s) == [at |-> "answered", by |-> reader.by, row |-> reader.row,
                got |-> s, asOf |-> reader.asOf]

\* Fault: the newest snapshot is taken whichever head it belongs to.
ReadNewestSnapshot ==
  /\ reader.at = "chain"
  /\ reader' = Answered(game)
  /\ UNCHANGED <<game, db, handler, attempt, applied, answer, known>>

\* The newest snapshot is that of the row (there is none at the genesis).
Current == db.snapshot > 0 /\ db.snapshot = reader.row.sequence

\* The snapshot counts only at the sequence of the row.  Otherwise the events are
\* replayed from the start; there are more of them by now than the row promises.
ReadSnapshot ==
  /\ reader.at = "chain"
  /\ reader' =
       CASE Current /\ Loadable -> Answered(game)
         [] ~Current /\ reader.row.sequence = 0 -> Answered(InitialState)
         [] OTHER -> Corrupt
  /\ UNCHANGED <<game, db, handler, attempt, applied, answer, known>>

\* The answer shows its client the head of the row; an error shows nothing.
EndRead ==
  /\ reader.at \in {"answered", "corrupt"}
  /\ known' = IF reader.at = "answered" THEN [known EXCEPT ![reader.by] = reader.row]
              ELSE known
  /\ reader' = NotReading
  /\ UNCHANGED <<game, db, handler, attempt, applied, answer>>

Resume == (\E c \in Client : ReadRow(c)) \/ ReadHead \/ ReadChain \/ ReadSnapshot \/ EndRead

Operate(c) == Send(c) \/ Handle(c) \/ Receive(c)

ServiceNext == (\E c \in Client : Operate(c)) \/ Finish \/ Crash \/ Resume

ServiceSpec == ServiceInit /\ [][ServiceNext]_service

------------------------------------------------------------------------------
(* Properties.                                                                 *)

\* A request that is repeated until an answer is seen takes effect at most once:
\* the head it names is gone as soon as its event is stored, also when the answer
\* was lost in a crash and another client has written in between.
AtMostOnce == \A c \in Client : applied[c] <= 1

\* Out-of-turn moves keep the board sound.  POST .../act lets any client move any
\* living worm between rounds and while a decision is pending; the cached masks
\* and the scores still agree with the trails.
BoardStaysSound == Fresh(game) /\ ValidScores(game)

\* GET .../resume runs beside the writers without the mutex; the state it answers
\* with is the one that belongs to the row it answers with.
ResumeAnswersTheRow == reader.at = "answered" => reader.got = reader.asOf

\* The chain as GameLog sees it, closed once the row is terminal.
Log == INSTANCE GameLog WITH log <- db.chain, closed <- db.status \in Terminal

\* What everyone who reads the game may rely on: AppendGameEventsWithSnapshot adds one
\* event at a time to the end, and nothing once UpdateGame or CompleteGame has closed it.
LogOnlyGrows == Log!LogSpec

\* docs/player.md: an answer that is stale is rejected.  An answer that is taken is
\* filed under the pattern that its worm sees at that moment.
TaughtAnswersAreCurrent ==
  [][\A c \in Client :
       (applied'[c] > applied[c] /\ attempt[c].op.op = "teach") =>
         game.pending.mask = MaskAt(game, game.pos[game.pending.slot])]_service

\* persistAuthoritativeResults copies the completion of a finished game into the
\* relational summary: when the handler answers, the summary has it.
CompletionIsRecorded ==
  [][(handler # Idle /\ answer' # answer) => db'.scored /\ db'.status \in Terminal]_service

=============================================================================
