-------------------------------- MODULE Match --------------------------------
(***************************************************************************)
(* A match of internal/match/match.go: it drives the engine, asks the      *)
(* controllers, and stores every transition.                               *)
(*                                                                         *)
(* One process runs the match.  Its methods hold the match's mutex to the  *)
(* end, a call to a controller included, so `memory.phase` says where the  *)
(* method in progress is.  What others do meanwhile: time passes, somebody *)
(* uses the session a controller waits on, the process stops.              *)
(***************************************************************************)
EXTENDS WormsEngine, AgentSession

CONSTANTS
  Controller,     \* who decides for each slot: "policy", "session", or "human"
  Reply,          \* what is answered for each slot: actions, or Fails
  Outside,        \* what outsiders do to the session: methods of SessionManager
  MaxCrashes,     \* bound on the times the process stops
  MaxFailures     \* bound on the writes that the store refuses

\* A policy that returns an error.
Fails == [kind |-> "error"]

ASSUME MatchAssumption ==
  /\ Controller \in [Slot -> {"policy", "session", "human"}]
  /\ \A v, w \in Slot : Controller[v] = "session" /\ Controller[w] = "session" => v = w
  /\ Reply \in [Slot -> SUBSET ({Move(d) : d \in Dir} \cup {Resign, Fails})]
  /\ MaxCrashes \in Nat /\ MaxFailures \in Nat

VARIABLES
  stored,     \* the rest of the newest snapshot: the row's status and the deadline
  outcomes,   \* the decision_outcome events of the chain
  memory,     \* the Match in the process, or Gone
  session,    \* the session of the controller that has one
  faults      \* crashes and refused writes so far

\* `game`, the engine's variable, is the state in the newest snapshot.
match == <<game, stored, outcomes, memory, session, faults>>

Gone == [phase |-> "gone"]

InMemory(s, due) == [phase |-> "idle", state |-> s, due |-> due]

\* pendingDeadline is the zero time until somebody asks for the decision.
Due == {"none", "ahead", "passed"}
Asked(due) == IF due = "none" THEN "ahead" ELSE due
Later(due) == IF due = "ahead" THEN "passed" ELSE due

Pending(s) == s.pending # NoDecision

Automated(s) == Pending(s) /\ Controller[s.pending.slot] # "human"

StatusOf(s) ==
  IF s.over THEN "finished" ELSE IF Pending(s) THEN "pending" ELSE "active"

MatchInit ==
  /\ game = InitialState
  /\ stored = [status |-> "active", due |-> "none"]
  /\ outcomes = << >>
  /\ memory = InMemory(InitialState, "none")
  /\ session = NewSession
  /\ faults = [crashes |-> 0, failures |-> 0]

Idle == memory.phase = "idle"

\* Fault: a refused write leaves the new state in memory.
PersistKeepsMemory(s, due, status, new, next, back) ==
  \/ /\ game' = s
     /\ stored' = [status |-> status, due |-> due]
     /\ outcomes' = outcomes \o new
     /\ memory' = next
     /\ UNCHANGED faults
  \/ /\ faults.failures < MaxFailures
     /\ faults' = [faults EXCEPT !.failures = @ + 1]
     /\ memory' = next
     /\ UNCHANGED <<game, stored, outcomes>>

\* persistAtomic stores the events, the head, the status and the snapshot in one
\* transaction; when it fails the handler restores its runtime snapshot.
Persist(s, due, status, new, next, back) ==
  \/ /\ game' = s
     /\ stored' = [status |-> status, due |-> due]
     /\ outcomes' = outcomes \o new
     /\ memory' = next
     /\ UNCHANGED faults
  \/ /\ faults.failures < MaxFailures
     /\ faults' = [faults EXCEPT !.failures = @ + 1]
     /\ memory' = back
     /\ UNCHANGED <<game, stored, outcomes>>

------------------------------------------------------------------------------
(* Advance.                                                                *)

Calling(s, due, before) ==
  [phase |-> "calling", state |-> s, due |-> due, before |-> before]

\* A round; when it stops at a decision of a controller, the call goes on.
RunRound ==
  /\ Idle
  /\ CanAdvance(memory.state)
  /\ \E t \in AdvanceOutcomes(memory.state) :
       LET s   == Quiet(t)
           due == IF Pending(s) THEN Asked(memory.due) ELSE memory.due
       IN  Persist(s, due, StatusOf(s), << >>,
                   IF Automated(s) THEN Calling(s, due, due) ELSE InMemory(s, due),
                   memory)
  /\ UNCHANGED session

\* A decision that is still open is put to its controller again.
AskAgain ==
  /\ Idle
  /\ ~memory.state.over
  /\ Automated(memory.state)
  /\ memory' = Calling(memory.state, Asked(memory.due), memory.due)
  /\ UNCHANGED <<game, stored, outcomes, session, faults>>

\* The controller has returned.
Replied(r) == [phase |-> "replied", state |-> memory.state, due |-> memory.due,
                     before |-> memory.before, reply |-> r]

\* What may be answered to the pending decision.
Answers == Reply[memory.state.pending.slot]

\* An in-process policy decides.
Decide ==
  /\ memory.phase = "calling"
  /\ Controller[memory.state.pending.slot] = "policy"
  /\ \E r \in Answers : memory' = Replied(r)
  /\ UNCHANGED <<game, stored, outcomes, session, faults>>

\* SessionManager.Request, first half: Begin publishes the request.  The request
\* lists the legal moves, and no resignation.
Begin ==
  /\ memory.phase = "calling"
  /\ Controller[memory.state.pending.slot] = "session"
  /\ IF CanBegin(session, memory.due = "passed")
     THEN /\ session' = Begun(session, memory.state.pending.request,
                {Move(d) : d \in LegalMoves(memory.state, memory.state.pending.slot)})
          /\ memory' = [memory EXCEPT !.phase = "waiting"]
     ELSE /\ memory' = Replied(Fails)
          /\ UNCHANGED session
  /\ UNCHANGED <<game, stored, outcomes, faults>>

\* Second half, without the mutex in between: the policy decides, and its answer is
\* submitted or its error disconnects the session.  Any answer without an action is
\* an error for the match.
Respond(r) ==
  LET id   == memory.state.pending.request
      told == IF session.closed THEN NoAction ELSE ToldAction(session, id, r)
  IN  IF r = Fails
      THEN session' = Disconnected(session) /\ memory' = Replied(Fails)
      ELSE /\ session' = IF session.closed THEN session ELSE AfterSubmit(session, id, r)
           /\ memory' = Replied(IF told = NoAction THEN Fails ELSE told)

SessionDecides ==
  /\ memory.phase = "waiting"
  /\ \E r \in Answers : Respond(r)
  /\ UNCHANGED <<game, stored, outcomes, faults>>

------------------------------------------------------------------------------
(* How a decision ends.                                                    *)

Outcome(s, kind) ==
  [request |-> s.pending.request, slot |-> s.pending.slot, kind |-> kind]

\* Fault: the decision stays open.
EndedStillPending(s) ==
  LET t == [s EXCEPT !.alive[s.pending.slot] = FALSE, !.slot = s.pending.slot + 1]
  IN  [t EXCEPT !.over = \A w \in Slot : ~t.alive[w]]

\* resolveTerminalLocked: the worm dies without an event of the engine, the scan
\* goes on behind it, and the game is over at once when it was the last.
Ended(s) ==
  LET t == [s EXCEPT !.alive[s.pending.slot] = FALSE, !.pending = NoDecision,
                     !.slot = s.pending.slot + 1]
  IN  [t EXCEPT !.over = \A w \in Slot : ~t.alive[w]]

\* Fault: the state is stored without the outcome.
TerminateSilently(s, kind, back) ==
  Persist(Ended(s), "none", StatusOf(Ended(s)), << >>, InMemory(Ended(s), "none"), back)

Terminate(s, kind, back) ==
  Persist(Ended(s), "none", StatusOf(Ended(s)), <<Outcome(s, kind)>>,
          InMemory(Ended(s), "none"), back)

\* submitLocked: the move, the rest of the round, and the accepted outcome.
Accept(s, d, back) ==
  \E t \in SubmitOutcomes(s, d) :
    Persist(Quiet(t), "none", StatusOf(t), <<Outcome(s, "accepted")>>,
            InMemory(Quiet(t), "none"), back)

Playable(s, r) == r.kind = "move" /\ CanSubmit(s, r.dir) /\ SubmitOutcomes(s, r.dir) # {}

\* A reply is judged in this order; a move that the engine refuses leaves the
\* decision open.
Judge(s, due, r, back) ==
  IF due = "passed" THEN Terminate(s, "timeout", back)
  ELSE IF r = Fails THEN Terminate(s, "disconnect", back)
  ELSE IF r = Resign THEN Terminate(s, "resigned", back)
  ELSE IF Playable(s, r) THEN Accept(s, r.dir, back)
  ELSE memory' = back /\ UNCHANGED <<game, stored, outcomes, faults>>

\* The controller has returned; the runtime snapshot was taken before the request.
Conclude ==
  /\ memory.phase = "replied"
  /\ Judge(memory.state, memory.due, memory.reply, InMemory(memory.state, memory.before))
  /\ UNCHANGED session

\* Submit: somebody answers by hand, for any slot.  The request has started the
\* clock, and that stays when the answer is refused.
SubmitByHand ==
  /\ Idle
  /\ Pending(memory.state)
  /\ \E r \in Answers \ {Fails} :
       Judge(memory.state, Asked(memory.due), r,
             InMemory(memory.state, Asked(memory.due)))
  /\ UNCHANGED session

\* Resolve: the deadline is enforced, or the clock started.
ResolveByHand ==
  /\ Idle
  /\ Pending(memory.state)
  /\ LET back == InMemory(memory.state, Asked(memory.due)) IN
       IF memory.due = "passed" THEN Terminate(memory.state, "timeout", back)
       ELSE memory' = back /\ UNCHANGED <<game, stored, outcomes, faults>>
  /\ UNCHANGED session

\* Stop ends the game without an outcome for the pending decision.
Stop ==
  /\ Idle
  /\ ~memory.state.over
  /\ LET t == [memory.state EXCEPT !.pending = NoDecision, !.over = TRUE] IN
       Persist(t, "none", "stopped", << >>, InMemory(t, "none"), memory)
  /\ UNCHANGED session

------------------------------------------------------------------------------
(* The surroundings.                                                       *)

\* Deadlines are absolute times: those that are set pass together.
Expire ==
  /\ memory # Gone
  /\ memory.due = "ahead"
  /\ memory' = IF "before" \in DOMAIN memory
               THEN [memory EXCEPT !.due = "passed", !.before = Later(@)]
               ELSE [memory EXCEPT !.due = "passed"]
  /\ stored' = [stored EXCEPT !.due = Later(@)]
  /\ session' = Overdue(session)
  /\ UNCHANGED <<game, outcomes, faults>>

\* While nothing runs, the stored deadline passes.
ExpireAtRest ==
  /\ memory = Gone
  /\ stored.due = "ahead"
  /\ stored' = [stored EXCEPT !.due = "passed"]
  /\ UNCHANGED <<game, outcomes, memory, session, faults>>

\* The process stops: the match and the session manager are gone.
Crash ==
  /\ memory # Gone
  /\ faults.crashes < MaxCrashes
  /\ faults' = [faults EXCEPT !.crashes = @ + 1]
  /\ memory' = Gone
  /\ session' = NewSession
  /\ UNCHANGED <<game, stored, outcomes>>

\* Fault: the deadline is left out of what is restored.
RestoredUndated == InMemory(game, "none")

Restored == InMemory(game, stored.due)

\* ResumeMatch.
ResumeMatch ==
  /\ memory = Gone
  /\ memory' = Restored
  /\ UNCHANGED <<game, stored, outcomes, session, faults>>

\* Somebody outside answers, for the pending decision or one resolved before.
OutsideSubmit ==
  /\ "Submit" \in Outside
  /\ ~session.closed
  /\ \E w \in {v \in Slot : Controller[v] = "session"} :
     \E r \in Reply[w] \ {Fails},
        id \in DOMAIN session.resolved \cup ({session.pending.id} \ {0}) :
       session' = AfterSubmit(session, id, r)

OutsideTimeout ==
  /\ "ResolveTimeout" \in Outside
  /\ CanTimeOut(session)
  /\ session' = Resolve(session, "timeout", NoAction)

OutsideDisconnect ==
  /\ "Disconnect" \in Outside
  /\ session' = Disconnected(session)

OutsideClose ==
  /\ "Close" \in Outside
  /\ ~session.closed
  /\ session' = Closed(session)

Outsider ==
  /\ OutsideSubmit \/ OutsideTimeout \/ OutsideDisconnect \/ OutsideClose
  /\ UNCHANGED <<game, stored, outcomes, memory, faults>>

Advance == RunRound \/ AskAgain \/ Decide \/ Begin \/ SessionDecides \/ Conclude

MatchNext ==
  \/ Advance \/ SubmitByHand \/ ResolveByHand \/ Stop
  \/ Expire \/ ExpireAtRest \/ Crash \/ ResumeMatch \/ Outsider

MatchSpec == MatchInit /\ [][MatchNext]_match

------------------------------------------------------------------------------
(* Properties.                                                             *)

\* A method that failed half-way has changed nothing: the match in memory is always
\* the one that a crash and ResumeMatch would bring back, and so is its deadline, but for
\* a clock that a request has started and no write has stored yet.
MemoryIsStored ==
  memory # Gone => /\ memory.state = game
                   /\ stored.due # "none" => memory.due = stored.due

\* However often a decision is asked, answered, retried or resumed, the chain has at
\* most one outcome for it.
OneOutcomePerDecision ==
  \A i, j \in DOMAIN outcomes : outcomes[i].request = outcomes[j].request => i = j

Killed == {outcomes[i].slot : i \in {k \in DOMAIN outcomes : outcomes[k].kind # "accepted"}}

\* Who is dead has either been killed by the engine, on a complete dot, or has one
\* timeout, disconnection or resignation on record; and who has one on record is
\* dead.
DeathsAreAccounted ==
  /\ \A w \in Killed : ~game.alive[w]
  /\ \A w \in Slot : (Kind[w] \in {"NEW", "AUTO"} /\ ~game.alive[w]) =>
       w \in Killed \/ TrailMask(game, game.pos[w]) = Dir

\* A decision whose stored deadline has passed is never accepted, also by a process
\* that has only just resumed the match.
DeadlineIsKept ==
  [][(stored.due = "passed" /\ outcomes' # outcomes) =>
       outcomes'[Len(outcomes')].kind # "accepted"]_match

\* The match plays what the session has accepted, and nothing else, whoever answered
\* the session and however late its policy returned: a move on record for a session's
\* worm is the action its session resolved the decision with.  (After a refused write
\* the same request is published again, and its resolution can be overwritten.)
PlaysWhatWasAccepted ==
  [][(memory # Gone /\ memory.phase = "replied" /\ outcomes' # outcomes) =>
       LET o == outcomes'[Len(outcomes')] IN
       (/\ o.kind = "accepted"
        /\ Controller[o.slot] = "session"
        /\ faults.failures = 0) =>
         /\ o.request \in DOMAIN session.resolved
         /\ session.resolved[o.request] =
              [outcome |-> "accepted", action |-> memory.reply]]_match
=============================================================================
