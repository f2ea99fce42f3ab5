---------------------------- MODULE ServiceProofs ----------------------------
(***************************************************************************)
(* The safety of the game service and of the exports taken beside it, for  *)
(* every board, every number of clients and every length of the chain.     *)
(***************************************************************************)
EXTENDS Diagnostics, WormsEngineProofs

------------------------------------------------------------------------------
(* A board that is whole, whoever moved on it.  PendingCurrent and the tables  *)
(* are left out: an out-of-turn move makes a pending decision stale, and the   *)
(* answer to it may then spoil a table, but never the board.                   *)

Whole(s) == s \in State /\ Fresh(s) /\ Owned(s) /\ Scored(s)

SameDots(s, t) ==
  t.trails = s.trails /\ t.owner = s.owner /\ t.cached = s.cached /\ t.score = s.score

\* A handler's work on anything but the dots keeps the board whole.
LEMMA SameDotsWhole ==
  ASSUME NEW s, Whole(s), NEW t \in State, SameDots(s, t)
  PROVE  Whole(t)
  BY DEF Whole, SameDots, Fresh, TrailMask, Owned, Scored, Dots

\* So does a handler that only emits events.
LEMMA SameGameWhole ==
  ASSUME NEW s, Whole(s), NEW t \in State, SameGame(s, t)
  PROVE  Whole(t)
  BY SameDotsWhole DEF SameGame, SameDots

\* A step that the engine accepts: the masks of both ends and the owners are refreshed.
LEMMA StepWhole ==
  ASSUME NEW s, Whole(s), NEW w \in Slot, NEW d \in Dir, CanStep(s, w, d),
         NEW t \in Step(s, w, d)
  PROVE  Whole(t)
  <1>1. t = Stepped(s, w, d)
    BY StepIsStepped
  <1>2. Stepped(s, w, d) \in State
    <2>1. StepDoes(s, w, d, Stepped(s, w, d))
      BY StepEffect DEF Whole
    <2> QED
      BY <2>1 DEF StepDoes
  <1>3. Fresh(Stepped(s, w, d))
    BY StepKeepsFresh DEF Whole
  <1>4. Owned(Stepped(s, w, d)) /\ Scored(Stepped(s, w, d))
    BY StepKeepsScores DEF Whole
  <1> QED
    BY <1>1, <1>2, <1>3, <1>4 DEF Whole

\* A death leaves the board to the others.
LEMMA KillWhole ==
  ASSUME NEW s, Whole(s), NEW w \in Slot, NEW cause \in {"worm_died", "worm_blocked"}
  PROVE  Whole(Kill(s, w, cause))
  <1> DEFINE u == [s EXCEPT !.alive[w] = FALSE]
             t == Kill(s, w, cause)
  <1>1. t \in State /\ SameGame(u, t)
    BY KillType DEF Whole
  <1>2. u.trails = s.trails /\ u.owner = s.owner /\ u.cached = s.cached /\ u.score = s.score
    BY DEF Whole, State
  <1> HIDE DEF u, t
  <1>3. SameDots(s, t)
    BY <1>1, <1>2 DEF SameGame, SameDots
  <1> QED
    BY <1>1, <1>3, SameDotsWhole DEF t

\* A rule is filed in a table, whatever the pattern and the direction.
LEMMA LearnWhole ==
  ASSUME NEW s, Whole(s), NEW w \in Slot, NEW m \in Mask, NEW d \in Dir
  PROVE  Whole(Learn(s, w, m, d))
  <1> DEFINE u == [s EXCEPT !.rules[w][m] = d]
             body == [worm |-> w, mask |-> m, action |-> d]
             t == Learn(s, w, m, d)
  <1>1. u \in State
    <2>1. d \in Action
      BY DEF Action
    <2>2. [s.rules EXCEPT ![w][m] = d] \in [Slot -> [Mask -> Action]]
      BY <2>1 DEF Whole, State
    <2>3. \A r \in [Slot -> [Mask -> Action]] : [s EXCEPT !.rules = r] \in State
      BY DEF Whole, State
    <2>4. u = [s EXCEPT !.rules = [s.rules EXCEPT ![w][m] = d]]
      BY DEF Whole, State
    <2> QED
      BY <2>2, <2>3, <2>4
  <1>2. u.trails = s.trails /\ u.owner = s.owner /\ u.cached = s.cached /\ u.score = s.score
    BY DEF Whole, State
  <1>3. body \in EventBody
    BY DEF EventBody
  <1>4. t = Emit(u, "rule_learned", body)
    BY DEF Learn
  <1>5. t \in State /\ SameGame(u, t)
    BY <1>1, <1>3, <1>4, EmitType DEF EventType
  <1> HIDE DEF u, t
  <1>6. SameDots(s, t)
    BY <1>2, <1>5 DEF SameGame, SameDots
  <1> QED
    BY <1>5, <1>6, SameDotsWhole DEF t

\* A remembered direction is reported and, if Step takes it, walked.
LEMMA FollowWhole ==
  ASSUME NEW s, Whole(s), NEW w \in Slot, NEW m \in Mask, NEW d \in Dir,
         NEW t \in Follow(s, w, m, d)
  PROVE  Whole(t)
  <1> DEFINE u == UseRule(s, w, m, d)
  <1>1. u \in State /\ SameGame(s, u)
    <2>1. [worm |-> w, mask |-> m, action |-> d] \in EventBody
      BY DEF EventBody
    <2> QED
      BY <2>1, EmitType DEF UseRule, Whole, EventType
  <1>2. CanStep(u, w, d) /\ t \in Step(u, w, d)
    BY DEF Follow
  <1> HIDE DEF u
  <1> QED
    BY <1>1, <1>2, SameGameWhole, StepWhole

\* A question changes the turn and not the board.
LEMMA AskWhole ==
  ASSUME NEW s, Whole(s), NEW w \in Slot, NEW m \in Mask
  PROVE  Whole(Ask(s, w, m))
  <1> DEFINE decision == [slot |-> w, mask |-> m, request |-> s.seq + 1]
             body == [worm |-> w, mask |-> m, request |-> s.seq + 1]
             u == [s EXCEPT !.pending = decision]
             t == Ask(s, w, m)
  <1>1. decision \in Decision /\ body \in EventBody
    <2>1. s.seq + 1 \in Nat
      BY DEF Whole, State
    <2> QED
      BY <2>1 DEF Decision, EventBody
  <1>2. u \in State
    <2>1. \A f \in Decision : [s EXCEPT !.pending = f] \in State
      BY DEF Whole, State
    <2> QED
      BY <1>1, <2>1
  <1>3. u.trails = s.trails /\ u.owner = s.owner /\ u.cached = s.cached /\ u.score = s.score
    BY DEF Whole, State
  <1>4. t = Emit(u, "decision_pending", body)
    BY DEF Ask
  <1>5. t \in State /\ SameGame(u, t)
    BY <1>1, <1>2, <1>4, EmitType DEF EventType
  <1> HIDE DEF u, t
  <1>6. SameDots(s, t)
    BY <1>3, <1>5 DEF SameGame, SameDots
  <1> QED
    BY <1>5, <1>6, SameDotsWhole DEF t

\* Whatever a table holds, a worm's turn keeps the board whole.
LEMMA DispatchWhole ==
  ASSUME NEW s, Whole(s), NEW w \in Slot, NEW t \in Dispatch(s, w)
  PROVE  Whole(t)
  <1> DEFINE m == MaskAt(s, s.pos[w])
             a == s.rules[w][m]
  <1>1. m \in Mask /\ a \in Action
    <2>1. s.pos[w] \in Point /\ s.rules[w] \in [Mask -> Action]
      BY DEF Whole, State
    <2>2. m \in Mask
      BY <2>1, MaskType DEF Whole
    <2> QED
      BY <2>1, <2>2
  <1>2. CASE LegalMoves(s, w) = {}
    <2>1. t = Kill(s, w, "worm_blocked")
      BY <1>2 DEF Dispatch
    <2> QED
      BY <2>1, KillWhole
  <1>3. CASE LegalMoves(s, w) # {} /\ a = GETNEW
    <2>1. t = Ask(s, w, m)
      BY <1>3 DEF Dispatch, GETNEW, DIE, DOAI, Dir
    <2> HIDE DEF m
    <2> QED
      BY <1>1, <2>1, AskWhole
  <1>4. CASE LegalMoves(s, w) # {} /\ a = DIE
    <2>1. t = Kill(s, w, "worm_died")
      BY <1>4 DEF Dispatch, GETNEW, DIE, DOAI, Dir
    <2> QED
      BY <2>1, KillWhole
  <1>5. CASE LegalMoves(s, w) # {} /\ a = DOAI
    <2>1. PICK d \in AutoChoices(s, w) :
             t \in Follow(IF Frozen(w) THEN s ELSE Learn(s, w, m, d), w, m, d)
      <3>1. Dispatch(s, w) = UNION {Follow(IF Frozen(w) THEN s ELSE Learn(s, w, m, d), w, m, d) :
                                      d \in AutoChoices(s, w)}
        BY <1>5 DEF Dispatch, GETNEW, DIE, DOAI, Dir
      <3> QED
        BY <3>1
    <2>2. d \in Dir
      BY DEF AutoChoices, LegalMoves
    <2> HIDE DEF m
    <2>3. Whole(IF Frozen(w) THEN s ELSE Learn(s, w, m, d))
      BY <1>1, <2>2, LearnWhole
    <2> QED
      BY <1>1, <2>1, <2>2, <2>3, FollowWhole
  <1>6. CASE LegalMoves(s, w) # {} /\ a \in Dir
    <2>1. t \in Follow(s, w, m, a)
      BY <1>6 DEF Dispatch, GETNEW, DIE, DOAI, Dir
    <2> HIDE DEF m, a
    <2> QED
      BY <1>1, <1>6, <2>1, FollowWhole
  <1> QED
    BY <1>1, <1>2, <1>3, <1>4, <1>5, <1>6 DEF Action

\* One slot of the loop.
LEMMA VisitWhole ==
  ASSUME NEW s, Whole(s), NEW w \in 0 .. 3, NEW first, NEW t \in Visit(s, w, first)
  PROVE  Whole(t)
  <1> DEFINE u == [s EXCEPT !.slot = w]
  <1>1. CASE w \notin Slot \/ w < first \/ s.pending # NoDecision
    <2>1. t = s
      BY <1>1 DEF Visit
    <2> QED
      BY <2>1
  <1>2. CASE w \in Slot /\ ~(w < first) /\ s.pending = NoDecision
    <2>1. t \in IF ~s.alive[w] THEN {u} ELSE Dispatch(u, w)
      BY <1>2 DEF Visit
    <2>2. u \in State
      BY <1>2 DEF Whole, State
    <2>3. SameDots(s, u)
      BY DEF Whole, State, SameDots
    <2> HIDE DEF u
    <2>4. Whole(u)
      BY <2>2, <2>3, SameDotsWhole
    <2> QED
      BY <1>2, <2>1, <2>4, DispatchWhole
  <1> QED
    BY <1>1, <1>2

AllWhole(S) == \A s \in S : Whole(s)

\* The same for every outcome of the slots before it.
LEMMA VisitAllWhole ==
  ASSUME NEW S, AllWhole(S), NEW w \in 0 .. 3, NEW first
  PROVE  AllWhole(VisitAll(S, w, first))
  BY VisitWhole DEF AllWhole, VisitAll

\* The whole loop, from any slot.
LEMMA ScanWhole ==
  ASSUME NEW s, Whole(s), NEW first, NEW t \in Scan(s, first)
  PROVE  Whole(t)
  <1> DEFINE S0 == VisitAll({s}, 0, first)
             S1 == VisitAll(S0, 1, first)
             S2 == VisitAll(S1, 2, first)
             S3 == VisitAll(S2, 3, first)
  <1>1. AllWhole({s})
    BY DEF AllWhole
  <1>2. AllWhole(S0)
    BY <1>1, VisitAllWhole
  <1>3. t \in S3
    BY DEF Scan
  <1> HIDE DEF S0
  <1>4. AllWhole(S1)
    BY <1>2, VisitAllWhole
  <1> HIDE DEF S1
  <1>5. AllWhole(S2)
    BY <1>4, VisitAllWhole
  <1> HIDE DEF S2
  <1>6. AllWhole(S3)
    BY <1>5, VisitAllWhole
  <1> HIDE DEF S3
  <1> QED
    BY <1>3, <1>6 DEF AllWhole

\* The end of a round counts and reports.
LEMMA EndRoundWhole ==
  ASSUME NEW s, Whole(s)
  PROVE  Whole(EndRound(s))
  <1> DEFINE u    == [s EXCEPT !.slot = None, !.round = @ + 1]
             body == [worm |-> None]
             done == Emit(u, "round_completed", body)
             last == [done EXCEPT !.over = TRUE]
             end  == Emit(last, "game_over", body)
  <1>1. body \in EventBody /\ {"round_completed", "game_over"} \subseteq EventType
    BY DEF EventBody, EventType
  <1>2. u \in State
    <2>1. \A n \in Nat : [s EXCEPT !.slot = None, !.round = n] \in State
      BY DEF Whole, State
    <2>2. s.round + 1 \in Nat
      BY DEF Whole, State
    <2> QED
      BY <2>1, <2>2
  <1>3. SameDots(s, u)
    BY DEF Whole, State, SameDots
  <1>4. EndRound(s) \in {s, done, end}
    BY DEF EndRound
  <1> HIDE DEF u
  <1>5. done \in State /\ SameGame(u, done)
    BY <1>1, <1>2, EmitType
  <1>6. Whole(done)
    BY <1>2, <1>3, <1>5, SameDotsWhole, SameGameWhole
  <1> HIDE DEF done
  <1>7. last \in State /\ SameDots(done, last)
    BY <1>5 DEF State, SameDots
  <1> HIDE DEF last
  <1>8. end \in State /\ SameGame(last, end)
    BY <1>1, <1>7, EmitType
  <1>9. Whole(end)
    BY <1>6, <1>7, <1>8, SameDotsWhole, SameGameWhole
  <1> QED
    BY <1>4, <1>6, <1>9

\* Dropping the events of earlier handlers changes nothing else.
LEMMA QuietWhole ==
  ASSUME NEW s, Whole(s)
  PROVE  Whole(Quiet(s))
  <1>1. Quiet(s) \in State
    <2>1. << >> \in Seq(Event)
      OBVIOUS
    <2>2. \A q \in Seq(Event) : [s EXCEPT !.events = q] \in State
      BY DEF Whole, State
    <2> QED
      BY <2>1, <2>2 DEF Quiet
  <1>2. SameDots(s, Quiet(s))
    BY DEF Quiet, Whole, State, SameDots
  <1> QED
    BY <1>1, <1>2, SameDotsWhole

\* AdvanceRound, from any position the clients have made.
LEMMA AdvanceWhole ==
  ASSUME NEW s, Whole(s), NEW t \in AdvanceOutcomes(s)
  PROVE  Whole(t)
  <1>1. PICK first, u : u \in Scan(Quiet(s), first) /\ t = EndRound(u)
    BY DEF AdvanceOutcomes
  <1>2. Whole(u)
    BY <1>1, QuietWhole, ScanWhole
  <1> QED
    BY <1>1, <1>2, EndRoundWhole

\* Submit, also for a decision that an out-of-turn move has made stale.
LEMMA SubmitWhole ==
  ASSUME NEW s, Whole(s), s.pending # NoDecision, NEW d \in Dir,
         NEW t \in SubmitOutcomes(s, d)
  PROVE  Whole(t)
  <1> DEFINE w == s.pending.slot
             m == s.pending.mask
             l == Learn(Quiet(s), w, m, d)
             answered == [l EXCEPT !.pending = NoDecision, !.slot = w + 1]
  <1>1. w \in Slot /\ m \in Mask
    <2>1. s.pending \in Decision
      BY DEF Whole, State
    <2> QED
      BY <2>1 DEF Decision
  <1>2. PICK u, v : /\ u \in Follow(answered, w, m, d)
                    /\ v \in Scan(u, w + 1)
                    /\ t = EndRound(v)
    BY DEF SubmitOutcomes
  <1> HIDE DEF w, m
  <1>3. Whole(l)
    BY <1>1, QuietWhole, LearnWhole
  <1> HIDE DEF l
  <1>4. answered \in State /\ SameDots(l, answered)
    <2>1. w + 1 \in Slot \cup {None, N} /\ NoDecision \in Decision
      BY <1>1, EngineAssumption DEF Slot, Decision
    <2>2. \A n \in Slot \cup {None, N}, f \in Decision :
             /\ [l EXCEPT !.pending = f, !.slot = n] \in State
             /\ SameDots(l, [l EXCEPT !.pending = f, !.slot = n])
      BY <1>3 DEF Whole, State, SameDots
    <2> QED
      BY <2>1, <2>2
  <1>5. Whole(answered)
    BY <1>3, <1>4, SameDotsWhole
  <1> HIDE DEF answered
  <1>6. Whole(u)
    BY <1>1, <1>2, <1>5, FollowWhole
  <1>7. Whole(v)
    BY <1>2, <1>6, ScanWhole
  <1> QED
    BY <1>2, <1>7, EndRoundWhole

------------------------------------------------------------------------------
(* The rows and the requests.                                                  *)

Status == {"running", "completed", "cancelled"} \cup PauseStatus

Rows == [status : Status, chain : Seq(EventKind), snapshot : Nat, scored : BOOLEAN]

SeenHead == [sequence : Nat, hash : Seq(EventKind)]

Asked ==
       [op : {"act"}, worm : Slot, dir : MoveDir]
  \cup [op : {"resign", "tick", "plan", "abort"}]
  \cup [op : {"teach"}, decision : Decision, dir : MoveDir]
  \cup [op : {"pause"}, status : PauseStatus]

\* A request is sent with the head that its client knows.
Request == [op : Asked, head : SeenHead]

ServiceOK ==
  /\ Whole(game)
  /\ db \in Rows
  /\ attempt \in [Client -> Request \cup {NoRequest}]
  /\ applied \in [Client -> Nat]
  /\ answer \in [Client -> SeenHead \cup {NoAnswer}]
  /\ known \in [Client -> SeenHead]

\* An attempt that has been stored names a head that the chain has passed.
Once ==
  \A c \in Client :
    applied[c] # 0 => /\ applied[c] = 1
                      /\ attempt[c] # NoRequest
                      /\ attempt[c].head.sequence < Len(db.chain)

\* What a resume still to be answered has read: the state of its row is the one
\* stored now, unless the chain has grown, and the initial one at the genesis.
ReadsTheRow ==
  /\ db.snapshot = Len(db.chain)
  /\ Len(db.chain) = 0 => game = InitialState
  /\ reader.at \in {"row", "head", "chain", "answered"} => reader.row \in SeenHead
  /\ reader.at \in {"row", "head", "chain"} =>
       /\ reader.row.sequence <= Len(db.chain)
       /\ reader.row.sequence = Len(db.chain) => reader.asOf = game
       /\ reader.row.sequence = 0 => reader.asOf = InitialState
  /\ ResumeAnswersTheRow

Copies == {"game", "events", "refused", "replayed", "unreadable"}

\* What an export has read so far: the row of some moment of the game, and then the
\* events of a later one.  The state of that moment is the one stored now, unless the
\* chain has grown since; a closed game has not.
ReadsHistory ==
  /\ reader.at \in Copies =>
       /\ reader.game.head.sequence \in 0 .. Len(db.chain)
       /\ reader.game.status \in Terminal =>
            db.status \in Terminal /\ reader.game.head.sequence = Len(db.chain)
  /\ reader.at \in {"game", "events"} =>
       /\ reader.game.head.hash = SubSeq(db.chain, 1, reader.game.head.sequence)
       /\ reader.game.head.sequence = Len(db.chain) => reader.asOf = game
       /\ reader.game \in [head : SeenHead, status : Status]
  /\ reader.at = "events" =>
       /\ Len(reader.events) \in reader.game.head.sequence .. Len(db.chain)
       /\ reader.events = SubSeq(db.chain, 1, Len(reader.events))
  /\ CopyIsHistory

\* Whatever a request asks of the engine, the board that results is whole.
LEMMA OutcomesWhole ==
  ASSUME Whole(game), NEW o \in Asked, NEW t \in Outcomes(game, o)
  PROVE  Whole(t)
  <1>1. CASE o \in [op : {"act"}, worm : Slot, dir : MoveDir]
    <2>1. o.op = "act" /\ o.worm \in Slot /\ o.dir \in Dir
      BY <1>1, ServiceAssumption
    <2>2. CanStep(game, o.worm, o.dir) /\ t \in Step(Quiet(game), o.worm, o.dir)
      BY <2>1 DEF Outcomes, Act
    <2>3. SameGame(game, Quiet(game))
      BY DEF Whole, Quiet, SameGame, State
    <2>4. CanStep(Quiet(game), o.worm, o.dir)
      BY <2>2, <2>3 DEF CanStep, SameGame, MaskAt, TrailMask, WormAt
    <2> QED
      BY <2>1, <2>2, <2>4, QuietWhole, StepWhole
  <1>2. CASE o.op = "resign"
    <2> DEFINE q == Quiet(game)
               r == [q EXCEPT !.over = TRUE]
    <2>1. t = r
      BY <1>2 DEF Outcomes, Resign
    <2>2. Whole(q)
      BY QuietWhole
    <2> HIDE DEF q
    <2>3. r \in State /\ SameDots(q, r)
      BY <2>2 DEF Whole, State, SameDots
    <2> QED
      BY <2>1, <2>2, <2>3, SameDotsWhole
  <1>3. CASE o.op = "tick"
    <2>1. t \in AdvanceOutcomes(game)
      BY <1>3 DEF Outcomes, Tick
    <2> QED
      BY <2>1, AdvanceWhole
  <1>4. CASE o \in [op : {"teach"}, decision : Decision, dir : MoveDir]
    <2>1. o.op = "teach" /\ o.dir \in Dir
      BY <1>4, ServiceAssumption
    <2>2. game.pending # NoDecision /\ t \in SubmitOutcomes(game, o.dir)
      BY <2>1 DEF Outcomes, Teach
    <2> QED
      BY <2>1, <2>2, SubmitWhole
  <1>5. CASE o.op = "plan"
    <2>1. game.pending # NoDecision /\ \E d \in Dir : t \in SubmitOutcomes(game, d)
      BY <1>5 DEF Outcomes, Plan, LegalMoves
    <2> QED
      BY <2>1, SubmitWhole
  <1>6. CASE o.op \in {"abort", "pause"}
    BY <1>6 DEF Outcomes
  <1>7. \/ o \in [op : {"act"}, worm : Slot, dir : MoveDir]
        \/ o \in [op : {"teach"}, decision : Decision, dir : MoveDir]
        \/ o.op \in {"resign", "tick", "plan", "abort", "pause"}
    BY DEF Asked
  <1> QED
    BY <1>1, <1>2, <1>3, <1>4, <1>5, <1>6, <1>7

\* What clients may ask for is typed.
LEMMA OperationsTyped ==
  ASSUME Whole(game)
  PROVE  Operations \subseteq Asked
  <1>1. game.pending \in Decision
    BY DEF Whole, State
  <1> QED
    BY <1>1 DEF Operations, TeachRequests, Asked

\* The head of a row counts its chain.
LEMMA HeadTyped ==
  ASSUME NEW d \in Rows
  PROVE  HeadOf(d) \in SeenHead /\ HeadOf(d).sequence = Len(d.chain)
  BY DEF Rows, HeadOf, SeenHead

\* The append lengthens the chain by the one event of its request.
LEMMA AppendDoes ==
  ASSUME NEW d \in Rows, NEW e \in EventKind
  PROVE  LET r == AppendedWithSnapshot(d, <<e>>) IN
         /\ r \in Rows
         /\ r.chain = Append(d.chain, e) /\ Len(r.chain) = Len(d.chain) + 1
         /\ r.status = d.status /\ r.snapshot = Len(r.chain)
  <1>1. /\ d.chain \in Seq(EventKind) /\ d.chain \o <<e>> = Append(d.chain, e)
        /\ Append(d.chain, e) \in Seq(EventKind)
        /\ Len(Append(d.chain, e)) = Len(d.chain) + 1 /\ Len(d.chain) \in Nat
    BY DEF Rows
  <1>2. \A q \in Seq(EventKind), n \in Nat :
           LET r == [d EXCEPT !.chain = q, !.snapshot = n]
           IN  r \in Rows /\ r.chain = q /\ r.status = d.status /\ r.snapshot = n
    BY DEF Rows
  <1>3. AppendedWithSnapshot(d, <<e>>)
          = [d EXCEPT !.chain = Append(d.chain, e), !.snapshot = Len(d.chain) + 1]
    BY <1>1 DEF AppendedWithSnapshot, Rows
  <1>4. Len(d.chain) + 1 \in Nat
    BY <1>1
  <1> DEFINE r == AppendedWithSnapshot(d, <<e>>)
             q == Append(d.chain, e)
             n == Len(d.chain) + 1
  <1>5. r \in Rows /\ r.chain = q /\ r.status = d.status /\ r.snapshot = n
    <2>1. r = [d EXCEPT !.chain = q, !.snapshot = n]
      BY <1>3
    <2>2. q \in Seq(EventKind) /\ n \in Nat
      BY <1>1, <1>4
    <2> HIDE DEF r, q, n
    <2> QED
      BY <1>2, <2>1, <2>2
  <1> HIDE DEF r
  <1>6. Len(r.chain) = Len(d.chain) + 1
    BY <1>1, <1>5
  <1> QED
    BY <1>5, <1>6 DEF r

\* What has been read of the chain stays the beginning of it.
LEMMA AppendKeepsPrefixes ==
  ASSUME NEW S, NEW q \in Seq(S), NEW e \in S, NEW n \in 0 .. Len(q)
  PROVE  SubSeq(Append(q, e), 1, n) = SubSeq(q, 1, n)
  OBVIOUS

\* The other two transactions leave the chain alone.
LEMMA StatusDoes ==
  ASSUME NEW d \in Rows, NEW st \in Status
  PROVE  /\ WithStatus(d, st) \in Rows
         /\ WithStatus(d, st).chain = d.chain /\ WithStatus(d, st).snapshot = d.snapshot
         /\ WithStatus(d, st).status = st
         /\ Completed(d, st) \in Rows
         /\ Completed(d, st).chain = d.chain /\ Completed(d, st).snapshot = d.snapshot
         /\ Completed(d, st).status = st
  BY DEF Rows, WithStatus, Completed

------------------------------------------------------------------------------
(* One lemma per way of changing the rows.                                     *)

Invariant == ServiceOK /\ Once /\ ReadsTheRow /\ ReadsHistory

\* An operation that appends its event: only a request that names the present head
\* gets here, so it has not been stored before, and no resume can have read as far.
LEMMA StoreHolds ==
  ASSUME Invariant, NEW c \in Client, attempt[c] # NoRequest,
         CanWrite(db, attempt[c].head), Store(c, IF Loadable THEN Outcomes(game, attempt[c].op)
                                                 ELSE {})
  PROVE  Invariant' /\ db'.chain \in {Append(db.chain, e) : e \in EventKind}
         /\ db'.status = db.status
  <1> DEFINE r == attempt[c]
             e == Kindred(r.op)
  <1>1. r.op \in Asked /\ r.head \in SeenHead
    BY DEF Invariant, ServiceOK, Request
  <1>2. game' \in Outcomes(game, r.op)
    BY DEF Store
  <1>3. Whole(game')
    BY <1>1, <1>2, OutcomesWhole DEF Invariant, ServiceOK
  <1>4. e \in EventKind
    BY DEF Kindred, EventKind
  <1>5. /\ db' \in Rows /\ db'.chain = Append(db.chain, e)
        /\ Len(db'.chain) = Len(db.chain) + 1 /\ db'.status = db.status
        /\ db'.snapshot = Len(db'.chain)
    <2>1. db \in Rows /\ db' = AppendedWithSnapshot(db, <<e>>)
      BY DEF Store, Invariant, ServiceOK
    <2> HIDE DEF e
    <2> QED
      BY <1>4, <2>1, AppendDoes
  <1>6. Len(db.chain) \in Nat
    BY DEF Invariant, ServiceOK, Rows
  <1>7. r.head.sequence = Len(db.chain)
    BY HeadTyped DEF CanWrite, Invariant, ServiceOK
  <1> HIDE DEF r, e
  <1>8. UNCHANGED <<attempt, known, reader>> /\ applied' = [applied EXCEPT ![c] = @ + 1]
    BY DEF Store
  <1>9. ServiceOK'
    <2>1. answer' \in [Client -> SeenHead \cup {NoAnswer}]
      <3>1. HeadOf(db') \in SeenHead
        BY <1>5, HeadTyped
      <3>2. answer' = [answer EXCEPT ![c] = HeadOf(db')] \/ answer' = answer
        BY DEF Store
      <3> QED
        BY <3>1, <3>2 DEF Invariant, ServiceOK
    <2>2. applied' \in [Client -> Nat]
      BY <1>8 DEF Invariant, ServiceOK
    <2>3. attempt' = attempt /\ known' = known
      BY <1>8
    <2> QED
      BY <1>3, <1>5, <2>1, <2>2, <2>3 DEF Invariant, ServiceOK
  <1>10. applied[c] = 0
    BY <1>6, <1>7 DEF Invariant, Once, r
  <1>11. Once'
    <2>1. applied'[c] = 1 /\ \A b \in Client \ {c} : applied'[b] = applied[b]
      BY <1>8, <1>10 DEF Invariant, ServiceOK
    <2>2. r.head.sequence < Len(db'.chain)
      BY <1>5, <1>6, <1>7
    <2>3. \A b \in Client \ {c} : applied'[b] # 0 =>
             /\ applied'[b] = 1 /\ attempt'[b] # NoRequest
             /\ attempt'[b].head.sequence < Len(db'.chain)
      <3>1. \A b \in Client : attempt[b] # NoRequest => attempt[b].head.sequence \in Nat
        BY DEF Invariant, ServiceOK, Request, SeenHead
      <3> QED
        BY <1>5, <1>6, <1>8, <2>1, <3>1 DEF Invariant, Once
    <2> QED
      BY <1>8, <2>1, <2>2, <2>3 DEF Once, r
  <1>12. ReadsTheRow'
    <2>1. Len(db'.chain) # 0
      BY <1>5, <1>6
    <2>2. reader.at \in {"row", "head", "chain"} =>
            reader.row.sequence <= Len(db.chain) /\ reader.row.sequence \in Nat
      BY DEF Invariant, ReadsTheRow, SeenHead
    <2> QED
      BY <1>5, <1>6, <1>8, <2>1, <2>2 DEF Invariant, ReadsTheRow, ResumeAnswersTheRow
  <1>13. ReadsHistory'
    <2>1. \A n \in 0 .. Len(db.chain) : SubSeq(db'.chain, 1, n) = SubSeq(db.chain, 1, n)
      <3>1. db.chain \in Seq(EventKind)
        BY DEF Invariant, ServiceOK, Rows
      <3> QED
        BY <1>4, <1>5, <3>1, AppendKeepsPrefixes
    <2>2. db.status \notin Terminal
      BY DEF CanWrite
    <2>3. reader.at \in Copies =>
             /\ reader.game.head.sequence \in 0 .. Len(db.chain)
             /\ reader.game.status \notin Terminal
      BY <2>2 DEF Invariant, ReadsHistory
    <2>4. reader.at \in Copies =>
             /\ reader.game.head.sequence \in 0 .. Len(db'.chain)
             /\ reader.game.head.sequence # Len(db'.chain)
             /\ reader.game.head.sequence < Len(db'.chain)
      BY <1>5, <1>6, <2>3
    <2>5. reader.at = "events" =>
             /\ Len(reader.events) \in reader.game.head.sequence .. Len(db'.chain)
             /\ reader.events = SubSeq(db'.chain, 1, Len(reader.events))
      <3>1. reader.at = "events" => /\ reader.game.head.sequence \in Nat
                                    /\ Len(reader.events) \in 0 .. Len(db.chain)
                                    /\ reader.events = SubSeq(db.chain, 1, Len(reader.events))
        BY <1>6, <2>3 DEF Invariant, ReadsHistory, Copies
      <3> QED
        BY <1>5, <1>6, <2>1, <2>3, <3>1 DEF Invariant, ReadsHistory
    <2>6. reader.at \in {"game", "events"} =>
             /\ reader.game.head.hash = SubSeq(db'.chain, 1, reader.game.head.sequence)
             /\ reader.game \in [head : SeenHead, status : Status]
      BY <2>1, <2>3 DEF Invariant, ReadsHistory, Copies
    <2>7. CopyIsHistory'
      BY <1>8, <2>1, <2>3, <2>4 DEF Invariant, ReadsHistory, CopyIsHistory, Copies
    <2> QED
      BY <1>8, <2>3, <2>4, <2>5, <2>6, <2>7 DEF ReadsHistory, Copies
  <1> QED
    BY <1>4, <1>5, <1>9, <1>11, <1>12, <1>13 DEF Invariant

\* Nothing to do with an answer given, or with a copy made, can go wrong any more.
Done == reader'.at \notin {"row", "head", "chain", "answered"} \cup Copies

\* A status, a completion and a refusal leave the chain and the state alone.
LEMMA SameChainHolds ==
  ASSUME Invariant, db' \in Rows, db'.chain = db.chain, db'.snapshot = db.snapshot,
         db.status \in Terminal => db'.status \in Terminal,
         UNCHANGED <<game, attempt, applied, known>>,
         answer' \in [Client -> SeenHead \cup {NoAnswer}],
         reader' = reader \/ Done
  PROVE  Invariant'
  <1>1. ServiceOK'
    BY DEF Invariant, ServiceOK
  <1>2. Once'
    BY DEF Invariant, Once
  <1>3. ReadsTheRow'
    BY DEF Invariant, ReadsTheRow, ResumeAnswersTheRow, Done
  <1>4. ReadsHistory'
    <2>1. CASE reader' = reader
      BY <2>1 DEF Invariant, ReadsHistory, CopyIsHistory
    <2>2. CASE Done
      BY <2>2 DEF ReadsHistory, CopyIsHistory, Done, Copies
    <2> QED
      BY <2>1, <2>2
  <1> QED
    BY <1>1, <1>2, <1>3, <1>4 DEF Invariant

\* Reading changes neither the rows nor the state nor a request.
Reading == UNCHANGED <<game, db, handler, attempt, applied, answer>>

\* So a reader has only to keep what is said about it.
LEMMA ReadHolds ==
  ASSUME Invariant, Reading, known' \in [Client -> SeenHead], ReadsTheRow', ReadsHistory'
  PROVE  Invariant'
  BY DEF Invariant, ServiceOK, Once, Reading

------------------------------------------------------------------------------
(* The invariant.                                                              *)

\* A created game has an empty chain, the initial state and nobody reading.
LEMMA InitHolds == ServiceInit => Invariant
  <1> SUFFICES ASSUME ServiceInit PROVE Invariant
    OBVIOUS
  <1> DEFINE row == CreatedGame("running")
  <1>1. Whole(game)
    BY InitGood DEF ServiceInit, CreatedState, Good, Sound, Whole
  <1>2. row \in Rows /\ row.chain = << >> /\ row.snapshot = 0
    <2>1. << >> \in Seq(EventKind)
      OBVIOUS
    <2> QED
      BY <2>1 DEF CreatedGame, Rows, Status
  <1>3. db = row /\ known = [c \in Client |-> HeadOf(row)] /\ game = InitialState
        /\ reader.at = "idle"
    BY DEF ServiceInit, CreatedState, NotReading
  <1> HIDE DEF row
  <1>4. HeadOf(row) \in SeenHead
    BY <1>2, HeadTyped
  <1>5. /\ attempt \in [Client -> Request \cup {NoRequest}] /\ applied \in [Client -> Nat]
        /\ answer \in [Client -> SeenHead \cup {NoAnswer}]
    BY DEF ServiceInit
  <1>6. ServiceOK
    BY <1>1, <1>2, <1>3, <1>4, <1>5 DEF ServiceOK
  <1>7. Once
    BY DEF ServiceInit, Once
  <1>8. ReadsTheRow /\ ReadsHistory
    <2>1. Len(db.chain) = 0 /\ db.snapshot = 0
      BY <1>2, <1>3
    <2> QED
      BY <1>3, <2>1 DEF ReadsTheRow, ResumeAnswersTheRow, ReadsHistory, CopyIsHistory, Copies
  <1> QED
    BY <1>6, <1>7, <1>8 DEF Invariant

\* What a client does on its own: it decides on a request, and it sees an answer.
LEMMA ClientHolds ==
  ASSUME Invariant, NEW c \in Client, Send(c) \/ Receive(c)
  PROVE  Invariant'
  <1>1. CASE Send(c)
    <2>1. PICK o \in Operations :
             attempt' = [attempt EXCEPT ![c] = [op |-> o, head |-> known[c]]]
      BY <1>1 DEF Send
    <2> DEFINE r == [op |-> o, head |-> known[c]]
    <2>2. r \in Request
      <3>1. o \in Asked
        BY OperationsTyped DEF Invariant, ServiceOK
      <3> QED
        BY <3>1 DEF Invariant, ServiceOK, Request
    <2>3. attempt[c] = NoRequest
      BY <1>1 DEF Send, Idles
    <2>4. UNCHANGED <<game, db, applied, answer, known, reader>>
      BY <1>1 DEF Send
    <2>5. applied[c] = 0
      BY <2>3 DEF Invariant, Once
    <2>6. attempt' = [attempt EXCEPT ![c] = r]
      BY <2>1
    <2> HIDE DEF r
    <2>7. ServiceOK'
      BY <2>2, <2>4, <2>6 DEF Invariant, ServiceOK
    <2>8. Once'
      BY <2>4, <2>5, <2>6 DEF Invariant, ServiceOK, Once
    <2>9. ReadsTheRow' /\ ReadsHistory'
      BY <2>4 DEF Invariant, ReadsTheRow, ResumeAnswersTheRow, ReadsHistory, CopyIsHistory
    <2> QED
      BY <2>7, <2>8, <2>9 DEF Invariant
  <1>2. CASE Receive(c)
    <2>1. answer[c] \in SeenHead
      BY <1>2 DEF Receive, Invariant, ServiceOK
    <2>2. ServiceOK'
      BY <1>2, <2>1 DEF Receive, Invariant, ServiceOK
    <2>3. Once'
      BY <1>2 DEF Receive, Invariant, ServiceOK, Once
    <2>4. ReadsTheRow' /\ ReadsHistory'
      BY <1>2 DEF Receive, Invariant, ReadsTheRow, ResumeAnswersTheRow, ReadsHistory,
                  CopyIsHistory
    <2> QED
      BY <2>2, <2>3, <2>4 DEF Invariant
  <1> QED
    BY <1>1, <1>2

\* What Handle, Finish and Crash do when they append nothing.
LEMMA QuietHolds ==
  ASSUME Invariant, Finish \/ Crash \/ \E c \in Client : Refuse(c) \/
                                         (attempt[c] # NoRequest /\ SetStatus(c)
                                          /\ CanWrite(db, attempt[c].head)
                                          /\ attempt[c].op.op \in {"pause", "abort"})
  PROVE  Invariant'
  <1>1. db \in Rows /\ HeadOf(db) \in SeenHead /\ answer \in [Client -> SeenHead \cup {NoAnswer}]
    BY HeadTyped DEF Invariant, ServiceOK
  <1>2. CASE Finish
    <2>1. /\ db' \in Rows /\ db'.chain = db.chain /\ db'.snapshot = db.snapshot
          /\ db.status \in Terminal => db'.status \in Terminal
      BY <1>1, <1>2, StatusDoes DEF Finish, Status, Terminal
    <2>2. UNCHANGED <<game, attempt, applied, known, reader>>
          /\ answer' = [answer EXCEPT ![handler.client] = HeadOf(db)]
      BY <1>2 DEF Finish
    <2>3. answer' \in [Client -> SeenHead \cup {NoAnswer}]
      BY <1>1, <2>2
    <2> QED
      BY <2>1, <2>2, <2>3, SameChainHolds
  <1>3. CASE Crash
    <2>1. reader' = reader \/ Done
      BY <1>3 DEF Crash, NotReading, Done, Copies
    <2>2. UNCHANGED <<game, db, attempt, applied, answer, known>>
      BY <1>3 DEF Crash
    <2> QED
      BY <1>1, <2>1, <2>2, SameChainHolds
  <1>4. ASSUME NEW c \in Client, Refuse(c)
        PROVE  Invariant'
    <2>1. UNCHANGED <<game, db, attempt, applied, known, reader>>
          /\ answer' = [answer EXCEPT ![c] = HeadOf(db)]
      BY <1>4 DEF Refuse
    <2>2. answer' \in [Client -> SeenHead \cup {NoAnswer}]
      BY <1>1, <2>1
    <2> QED
      BY <1>1, <2>1, <2>2, SameChainHolds
  <1>5. ASSUME NEW c \in Client, attempt[c] # NoRequest, SetStatus(c),
               CanWrite(db, attempt[c].head),
               attempt[c].op.op \in {"pause", "abort"}
        PROVE  Invariant'
    <2>1. attempt[c].op \in Asked
      BY <1>5 DEF Invariant, ServiceOK, Request
    <2>2. attempt[c].op.op = "pause" => attempt[c].op.status \in Status
      BY <2>1 DEF Asked, Status
    <2>3. \E st \in Status : db' = WithStatus(db, st)
      BY <1>5, <2>2 DEF SetStatus, Status
    <2>4. db' \in Rows /\ db'.chain = db.chain /\ db'.snapshot = db.snapshot
      BY <1>1, <2>3, StatusDoes
    <2>5. UNCHANGED <<game, attempt, applied, known, reader>>
          /\ answer' = [answer EXCEPT ![c] = HeadOf(db')]
      BY <1>5 DEF SetStatus
    <2>6. HeadOf(db') \in SeenHead
      BY <2>4, HeadTyped
    <2>7. answer' \in [Client -> SeenHead \cup {NoAnswer}]
      BY <1>1, <2>5, <2>6
    <2> QED
      BY <1>5, <2>4, <2>5, <2>7, SameChainHolds DEF CanWrite
  <1> QED
    BY <1>2, <1>3, <1>4, <1>5

\* The three queries of a resume, each beside whatever the writers have done since.
LEMMA ResumeHolds ==
  ASSUME Invariant, Resume
  PROVE  Invariant'
  <1>1. Reading
    BY DEF Resume, ReadRow, ReadHead, ReadChain, ReadSnapshot, EndRead, Reading
  <1>2. known \in [Client -> SeenHead] /\ db \in Rows
    BY DEF Invariant, ServiceOK
  <1>3. reader'.at \notin Copies => ReadsHistory'
    BY DEF ReadsHistory, CopyIsHistory, Copies
  <1>4. CASE \E c \in Client : ReadRow(c)
    <2>1. PICK c \in Client :
             reader' = [at |-> "row", by |-> c, row |-> HeadOf(db), asOf |-> game]
      BY <1>4 DEF ReadRow
    <2>2. reader'.at = "row" /\ reader'.row = HeadOf(db) /\ reader'.asOf = game
      BY <2>1
    <2>3. HeadOf(db) \in SeenHead /\ HeadOf(db).sequence = Len(db.chain) /\ Len(db.chain) \in Nat
      BY <1>2, HeadTyped DEF Rows
    <2>4. ReadsTheRow'
      BY <1>1, <2>2, <2>3 DEF Reading, Invariant, ReadsTheRow, ResumeAnswersTheRow
    <2> QED
      BY <1>1, <1>2, <1>3, <1>4, <2>2, <2>4, ReadHolds DEF ReadRow, Copies
  <1>5. CASE ReadHead
    <2>1. reader.at = "row" /\ reader'.at = "head" /\ reader'.row = reader.row
          /\ reader'.asOf = reader.asOf /\ known' = known
      BY <1>5 DEF ReadHead
    <2>2. ReadsTheRow'
      BY <1>1, <2>1 DEF Reading, Invariant, ReadsTheRow, ResumeAnswersTheRow
    <2> QED
      BY <1>1, <1>2, <1>3, <2>1, <2>2, ReadHolds DEF Copies
  <1>6. CASE ReadChain
    <2>1. reader.at = "head" /\ known' = known
          /\ \/ reader'.at = "corrupt"
             \/ reader'.at = "chain" /\ reader'.row = reader.row /\ reader'.asOf = reader.asOf
      BY <1>6 DEF ReadChain, Corrupt
    <2>2. ReadsTheRow'
      BY <1>1, <2>1 DEF Reading, Invariant, ReadsTheRow, ResumeAnswersTheRow
    <2> QED
      BY <1>1, <1>2, <1>3, <2>1, <2>2, ReadHolds DEF Copies
  <1>7. CASE ReadSnapshot
    <2> DEFINE s == IF Current THEN game ELSE InitialState
    <2>1. reader.at = "chain" /\ known' = known
          /\ \/ reader' = Corrupt
             \/ reader' = Answered(s) /\ (Current \/ reader.row.sequence = 0)
      BY <1>7 DEF ReadSnapshot
    <2>2. CASE reader' = Corrupt
      <3>1. ReadsTheRow'
        BY <1>1, <2>2 DEF Corrupt, Reading, Invariant, ReadsTheRow, ResumeAnswersTheRow
      <3> QED
        BY <1>1, <1>2, <1>3, <2>1, <2>2, <3>1, ReadHolds DEF Copies, Corrupt
    <2>3. CASE reader' = Answered(s) /\ (Current \/ reader.row.sequence = 0)
      <3>1. s = reader.asOf
        BY <2>1, <2>3 DEF Current, Invariant, ServiceOK, ReadsTheRow
      <3> HIDE DEF s
      <3>2. reader'.at = "answered" /\ reader'.got = s /\ reader'.asOf = reader.asOf
            /\ reader'.row = reader.row
        BY <2>3 DEF Answered
      <3>3. ReadsTheRow'
        BY <1>1, <2>1, <3>1, <3>2 DEF Reading, Invariant, ReadsTheRow, ResumeAnswersTheRow
      <3> QED
        BY <1>1, <1>2, <1>3, <2>1, <3>2, <3>3, ReadHolds DEF Copies
    <2> QED
      BY <2>1, <2>2, <2>3
  <1>8. CASE EndRead
    <2>1. reader'.at = "idle"
      BY <1>8 DEF EndRead, NotReading
    <2>2. known' \in [Client -> SeenHead]
      BY <1>2, <1>8 DEF EndRead, Invariant, ReadsTheRow
    <2>3. ReadsTheRow'
      BY <1>1, <2>1 DEF Reading, Invariant, ReadsTheRow, ResumeAnswersTheRow
    <2> QED
      BY <1>1, <1>3, <2>1, <2>2, <2>3, ReadHolds DEF Copies
  <1> QED
    BY <1>4, <1>5, <1>6, <1>7, <1>8 DEF Resume

\* The three queries of an export, and everything that is done with its document.
LEMMA DiagnoseHolds ==
  ASSUME Invariant, Diagnose
  PROVE  Invariant'
  <1>1. Reading /\ known' = known
    BY DEF Diagnose, ExportGame, ExportEvents, Export, Discard, Reading
  <1>2. /\ known \in [Client -> SeenHead] /\ db \in Rows /\ db.chain \in Seq(EventKind)
        /\ Len(db.chain) \in Nat
    BY DEF Invariant, ServiceOK, Rows
  <1>3. reader'.at \in Copies \cup {"idle"} => ReadsTheRow'
    BY <1>1 DEF Reading, Invariant, ReadsTheRow, ResumeAnswersTheRow, Copies
  <1>4. SubSeq(db.chain, 1, Len(db.chain)) = db.chain
    BY <1>2
  <1>5. CASE ExportGame
    <2> DEFINE g == [head |-> HeadOf(db), status |-> db.status]
    <2>1. reader'.at = "game" /\ reader'.game = g /\ reader'.asOf = game
      BY <1>5 DEF ExportGame
    <2>2. /\ g.head.sequence = Len(db.chain) /\ g.head.hash = db.chain
          /\ g.status = db.status
          /\ g \in [head : SeenHead, status : Status]
      BY <1>2 DEF HeadOf, SeenHead, Rows
    <2> HIDE DEF g
    <2>3. ReadsHistory'
      BY <1>1, <1>2, <1>4, <2>1, <2>2 DEF Reading, ReadsHistory, CopyIsHistory
    <2> QED
      BY <1>1, <1>2, <1>3, <2>1, <2>3, ReadHolds DEF Copies
  <1>6. CASE ExportEvents
    <2>1. /\ reader.at = "game" /\ reader'.at = "events" /\ reader'.game = reader.game
          /\ reader'.asOf = reader.asOf /\ reader'.events = db.chain
      BY <1>6 DEF ExportEvents
    <2>2. ReadsHistory'
      BY <1>1, <1>2, <1>4, <2>1 DEF Reading, Invariant, ReadsHistory, CopyIsHistory, Copies
    <2> QED
      BY <1>1, <1>2, <1>3, <2>1, <2>2, ReadHolds DEF Copies
  <1>7. CASE Export
    <2>1. PICK redact \in BOOLEAN :
             LET d == Document(redact) IN
               reader' = [at |-> RestoreDiagnostic(d), by |-> Debugger, asOf |-> reader.asOf,
                          game |-> d.game, events |-> d.events]
      BY <1>7 DEF Export
    <2> DEFINE d == Document(redact)
               end == RestoreDiagnostic(d)
               n == reader.game.head.sequence
    <2>2. /\ reader.at = "events"
          /\ reader'.at = end /\ reader'.asOf = reader.asOf /\ reader'.game = d.game
          /\ reader'.events = d.events
      BY <1>7, <2>1 DEF Export
    <2>3. /\ n \in 0 .. Len(db.chain)
          /\ reader.game.status \in Terminal => db.status \in Terminal /\ n = Len(db.chain)
          /\ reader.game.head.hash = SubSeq(db.chain, 1, n)
          /\ n = Len(db.chain) => reader.asOf = game
          /\ reader.game \in [head : SeenHead, status : Status]
          /\ Len(reader.events) \in n .. Len(db.chain)
          /\ reader.events = SubSeq(db.chain, 1, Len(reader.events))
      BY <2>2 DEF Invariant, ReadsHistory, Copies
    <2>4. /\ d.events = reader.events /\ d.snapshot = NewestSnapshot
          /\ d.game.head.sequence = n /\ d.game.status = reader.game.status
          /\ d.game.head.hash \in {reader.game.head.hash, reader.events}
      <3>1. d.events = reader.events /\ d.snapshot = NewestSnapshot
            /\ d.game \in {reader.game, Redacted(reader.game, reader.events)}
        BY DEF Document
      <3> DEFINE r == Redacted(reader.game, reader.events)
      <3>2. /\ r.head.sequence = n /\ r.status = reader.game.status
            /\ r.head.hash = reader.events
        <4>1. /\ reader.game.head \in SeenHead
              /\ r = [reader.game EXCEPT !.head = [reader.game.head EXCEPT !.hash = reader.events]]
          BY <2>3 DEF Redacted
        <4> HIDE DEF r
        <4>2. r.head = [reader.game.head EXCEPT !.hash = reader.events]
              /\ r.status = reader.game.status
          BY <2>3, <4>1
        <4> QED
          BY <4>1, <4>2 DEF SeenHead
      <3> HIDE DEF d, n, r
      <3> QED
        BY <3>1, <3>2 DEF r, n
    <2> HIDE DEF d
    <2>5. CASE ~ValidateDiagnostic(d)
      <3>1. end = "refused"
        BY <2>5 DEF RestoreDiagnostic
      <3>2. n # Len(db.chain)
        <4> SUFFICES ASSUME n = Len(db.chain)
                     PROVE  FALSE
          OBVIOUS
        <4>1. Len(reader.events) = n
          BY <1>2, <2>3
        <4>2. reader.events = reader.game.head.hash
          BY <2>3, <4>1
        <4> HIDE DEF n
        <4> QED
          BY <2>4, <2>5, <4>1, <4>2 DEF ValidateDiagnostic, VerifyEvents, ChainMatches
      <3>3. Len(db.chain) > n
        BY <1>2, <2>3, <3>2
      <3> HIDE DEF end, n
      <3>4. ReadsHistory'
        BY <1>1, <2>2, <2>3, <2>4, <3>1, <3>3 DEF Reading, ReadsHistory, CopyIsHistory, Copies
      <3> QED
        BY <1>1, <1>2, <1>3, <2>2, <3>1, <3>4, ReadHolds DEF Copies
    <2>6. CASE ValidateDiagnostic(d)
      <3>1. Len(reader.events) = n /\ reader.events = SubSeq(db.chain, 1, n)
        BY <2>3, <2>4, <2>6 DEF ValidateDiagnostic, VerifyEvents, ChainMatches
      <3>2. end \in {"replayed", "unreadable"}
        BY <2>6 DEF RestoreDiagnostic, Replay
      <3>5. end = "unreadable" => ~Validate(reader.asOf)
        <4> SUFFICES ASSUME end = "unreadable"
                     PROVE  ~Validate(reader.asOf)
          OBVIOUS
        <4>1. /\ d.snapshot # NoSnapshot /\ d.snapshot.sequence <= Len(d.events)
              /\ ~Validate(d.snapshot.state)
          BY <2>6 DEF RestoreDiagnostic, Replay
        <4>2. d.snapshot = [sequence |-> db.snapshot, state |-> game]
          BY <2>4, <4>1 DEF NewestSnapshot
        <4>3. d.snapshot.sequence = Len(db.chain) /\ d.snapshot.state = game
          BY <4>2 DEF Invariant, ReadsTheRow
        <4>4. n = Len(db.chain)
          BY <1>2, <2>3, <2>4, <3>1, <4>1, <4>3
        <4> QED
          BY <2>3, <4>1, <4>3, <4>4
      <3>3. reader.game.status \in Terminal => reader.events = db.chain
        BY <1>4, <2>3, <3>1
      <3> HIDE DEF end, n
      <3>4. ReadsHistory'
        BY <1>1, <2>2, <2>3, <2>4, <3>1, <3>2, <3>3, <3>5
           DEF Reading, ReadsHistory, CopyIsHistory, Copies
      <3> QED
        BY <1>1, <1>2, <1>3, <2>2, <3>2, <3>4, ReadHolds DEF Copies
    <2> QED
      BY <2>5, <2>6
  <1>8. CASE Discard
    <2>1. reader'.at = "idle"
      BY <1>8 DEF Discard, NotReading
    <2>2. ReadsHistory'
      BY <2>1 DEF ReadsHistory, CopyIsHistory, Copies
    <2> QED
      BY <1>1, <1>2, <1>3, <2>1, <2>2, ReadHolds
  <1> QED
    BY <1>5, <1>6, <1>7, <1>8 DEF Diagnose

\* Every step of the clients, the service, a resume and an export.
LEMMA NextHolds ==
  ASSUME Invariant, [DiagnosticsNext]_service
  PROVE  Invariant'
  <1>1. CASE \E c \in Client : Send(c) \/ Receive(c)
    BY <1>1, ClientHolds
  <1>2. ASSUME NEW c \in Client, Handle(c)
        PROVE  Invariant'
    <2>1. CASE Refuse(c)
      BY <2>1, QuietHolds
    <2>2. CASE CanWrite(db, attempt[c].head) /\ attempt[c].op.op \in {"pause", "abort"}
               /\ SetStatus(c)
      BY <1>2, <2>2, QuietHolds DEF Handle
    <2>3. CASE /\ CanWrite(db, attempt[c].head)
               /\ Store(c, IF Loadable THEN Outcomes(game, attempt[c].op) ELSE {})
      BY <1>2, <2>3, StoreHolds DEF Handle
    <2> QED
      BY <1>2, <2>1, <2>2, <2>3 DEF Handle
  <1>3. CASE Finish \/ Crash
    BY <1>3, QuietHolds
  <1>4. CASE Resume
    BY <1>4, ResumeHolds
  <1>5. CASE Diagnose
    BY <1>5, DiagnoseHolds
  <1>6. CASE UNCHANGED service
    <2>1. db \in Rows /\ answer \in [Client -> SeenHead \cup {NoAnswer}]
      BY DEF Invariant, ServiceOK
    <2> QED
      BY <1>6, <2>1, SameChainHolds DEF service
  <1> QED
    BY <1>1, <1>2, <1>3, <1>4, <1>5, <1>6 DEF DiagnosticsNext, ServiceNext, Operate

\* The invariant holds in every behaviour.
LEMMA AlwaysInvariant == DiagnosticsSpec => []Invariant
  <1>1. Invariant /\ [DiagnosticsNext]_service => Invariant'
    BY NextHolds
  <1> QED
    BY <1>1, InitHolds, PTL DEF DiagnosticsSpec

------------------------------------------------------------------------------
(* The theorems.                                                               *)

\* However often a client repeats a request, the service stores its event at most once.
THEOREM AppliedOnce == DiagnosticsSpec => []AtMostOnce
  <1>1. Invariant => AtMostOnce
    BY DEF Invariant, Once, ServiceOK, AtMostOnce
  <1> QED
    BY <1>1, AlwaysInvariant, PTL

\* A resume that answers beside the writers answers with the state of its row.
THEOREM ResumeTellsTheTruth == DiagnosticsSpec => []ResumeAnswersTheRow
  <1>1. Invariant => ResumeAnswersTheRow
    BY DEF Invariant, ReadsTheRow
  <1> QED
    BY <1>1, AlwaysInvariant, PTL

\* An export taken beside the writers is refused or is a piece of the game's history.
THEOREM ExportsAreHistory == DiagnosticsSpec => []CopyIsHistory
  <1>1. Invariant => CopyIsHistory
    BY DEF Invariant, ReadsHistory
  <1> QED
    BY <1>1, AlwaysInvariant, PTL

\* A whole board has the scores that State.Validate counts.
LEMMA WholeScores ==
  ASSUME NEW s, Whole(s)
  PROVE  ValidScores(s)
  <1>1. \A p \in Point : s.owner[p] \in Slot \cup {None}
    BY DEF Whole, State
  <1>2. \A p \in Point : s.cached[p] = Dir => s.owner[p] \in Slot
    BY <1>1 DEF Whole, Owned
  <1>3. ASSUME NEW w \in Slot
        PROVE  {p \in Point : s.cached[p] = Dir /\ s.owner[p] = w} = Dots(s.owner, w)
    BY DEF Whole, Owned, Dots, Slot, None
  <1> QED
    BY <1>2, <1>3 DEF Whole, ValidScores, Scored

\* Moves out of turn, answers to stale questions, rounds and plans of any clients in any
\* order leave the cached masks and the scores in agreement with the trails.
THEOREM BoardsStaySound == DiagnosticsSpec => []BoardStaysSound
  <1>1. Invariant => BoardStaysSound
    BY WholeScores DEF Invariant, ServiceOK, Whole, BoardStaysSound
  <1> QED
    BY <1>1, AlwaysInvariant, PTL

\* Every step of the service maps to one event at the end of an open log, to the closing
\* of the log, or to a stutter.
LEMMA StepsGrowTheLog ==
  ASSUME Invariant, [DiagnosticsNext]_service
  PROVE  [Log!Append1 \/ Log!Close]_<<db.chain, db.status \in Terminal>>
  <1>1. CASE db' = db
    BY <1>1
  <1>2. ASSUME NEW c \in Client, Handle(c), CanWrite(db, attempt[c].head),
               Store(c, IF Loadable THEN Outcomes(game, attempt[c].op) ELSE {})
        PROVE  Log!Append1
    <2>1. db'.chain \in {Append(db.chain, e) : e \in EventKind} /\ db'.status = db.status
      BY <1>2, StoreHolds DEF Handle
    <2> QED
      BY <1>2, <2>1 DEF CanWrite, Log!Append1
  <1>3. ASSUME db.status \notin Terminal, NEW st \in Status,
               db' = WithStatus(db, st) \/ db' = Completed(db, st)
        PROVE  Log!Close \/ UNCHANGED <<db.chain, db.status \in Terminal>>
    <2>1. db'.chain = db.chain /\ db'.status = st
      BY <1>3, StatusDoes DEF Invariant, ServiceOK
    <2>2. CASE st \in Terminal
      BY <1>3, <2>1, <2>2 DEF Log!Close
    <2>3. CASE st \notin Terminal
      BY <1>3, <2>1, <2>3
    <2> QED
      BY <2>2, <2>3
  <1>4. CASE Finish
    <2>1. db' = db \/ (db.status \notin Terminal /\ db' = Completed(db, "completed"))
      BY <1>4 DEF Finish, CanWrite
    <2> QED
      BY <1>1, <1>3, <2>1 DEF Status
  <1>5. ASSUME NEW c \in Client, Handle(c), CanWrite(db, attempt[c].head),
               attempt[c].op.op \in {"pause", "abort"}, SetStatus(c)
        PROVE  Log!Close \/ UNCHANGED <<db.chain, db.status \in Terminal>>
    <2>1. attempt[c].op \in Asked
      BY <1>5 DEF Handle, Invariant, ServiceOK, Request
    <2>2. attempt[c].op.op = "pause" => attempt[c].op.status \in Status
      BY <2>1 DEF Asked, Status
    <2>3. \E st \in Status : db' = WithStatus(db, st)
      BY <1>5, <2>2 DEF SetStatus, Status
    <2> QED
      BY <1>3, <1>5, <2>3 DEF CanWrite
  <1>6. CASE \E c \in Client : Handle(c)
    BY <1>1, <1>2, <1>5, <1>6 DEF Handle, Refuse
  <1>7. CASE Resume \/ Diagnose \/ Crash \/ (\E c \in Client : Send(c) \/ Receive(c))
             \/ UNCHANGED service
    <2>1. db' = db
      BY <1>7 DEF Resume, ReadRow, ReadHead, ReadChain, ReadSnapshot, EndRead, Diagnose,
                  ExportGame, ExportEvents, Export, Discard, Crash, Send, Receive, service
    <2> QED
      BY <1>1, <2>1
  <1> QED
    BY <1>4, <1>6, <1>7 DEF DiagnosticsNext, ServiceNext, Operate

\* The service implements the log that GameLog specifies: every append adds one event to
\* the end of an open game, and a closed one never changes.
THEOREM ServiceKeepsALog == DiagnosticsSpec => LogOnlyGrows
  <1>1. ServiceInit => Log!LogInit
    BY DEF ServiceInit, CreatedGame, Log!LogInit
  <1>2. Invariant /\ [DiagnosticsNext]_service
          => [Log!Append1 \/ Log!Close]_<<db.chain, db.status \in Terminal>>
    BY StepsGrowTheLog
  <1> QED
    BY <1>1, <1>2, AlwaysInvariant, PTL DEF DiagnosticsSpec, LogOnlyGrows, Log!LogSpec

=============================================================================
