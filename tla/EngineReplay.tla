----------------------------- MODULE EngineReplay -----------------------------
(***************************************************************************)
(* Replay of an event stream: Replay, applyReplayEvent and                 *)
(* directionForEvent of internal/engine/engine.go.                         *)
(*                                                                         *)
(* The events a handler emits are applied to a second copy of the game     *)
(* that starts in the same state and never runs the rules.  As in          *)
(* WormsEngine, an operation returns a set of states: {} is the error.     *)
(***************************************************************************)
EXTENDS WormsEngine

\* Every event but trail_claimed must carry the tick the replay has reached.
OnTime(s, e) == e.tick = s.tick

ReplayTrail(s, e) ==
  LET edge == {e.body.at, e.body.to} IN
  {t \in {[s EXCEPT !.tick = @ + 1, !.trails[edge] = e.body.worm]} :
     e.tick = s.tick + 1 /\ s.trails[edge] = None}

ReplayColor(s, e) ==
  {t \in {[s EXCEPT !.cached[e.body.at] = e.body.mask]} : OnTime(s, e)}

ReplayCapture(s, e) ==
  {t \in {[s EXCEPT !.cached[e.body.at] = e.body.mask,
                    !.owner[e.body.at]  = e.body.worm,
                    !.score[e.body.worm] = @ + 1]} : OnTime(s, e)}

\* directionForEvent: the worm stands where the event starts, and some direction
\* leads from there to where the event ends.
ReplayMove(s, e) ==
  {t \in {[s EXCEPT !.pos[e.body.worm] = e.body.to]} :
     /\ OnTime(s, e)
     /\ s.alive[e.body.worm]
     /\ s.pos[e.body.worm] = e.body.at
     /\ \E d \in Dir : Neighbor(e.body.at, d) = e.body.to}

ReplayDeath(s, e) ==
  {t \in {[s EXCEPT !.alive[e.body.worm] = FALSE]} :
     OnTime(s, e) /\ s.pos[e.body.worm] = e.body.at}

\* Learning the rule a decision waits for answers it.
ReplayLearned(s, e) ==
  LET answers == /\ s.pending # NoDecision
                 /\ s.pending.slot = e.body.worm
                 /\ s.pending.mask = e.body.mask
      learned == [s EXCEPT !.rules[e.body.worm][e.body.mask] = e.body.action]
  IN  {t \in {IF answers
              THEN [learned EXCEPT !.slot = s.pending.slot + 1, !.pending = NoDecision]
              ELSE learned} : OnTime(s, e)}

ReplayPending(s, e) ==
  {t \in {[s EXCEPT !.pending = [slot |-> e.body.worm, mask |-> e.body.mask,
                                 request |-> e.body.request],
                    !.slot = e.body.worm]} : OnTime(s, e)}

ReplayRound(s, e) ==
  {t \in {[s EXCEPT !.round = e.round, !.slot = None]} :
     OnTime(s, e) /\ e.round = s.round + 1 /\ s.pending = NoDecision}

ReplayEvent(s, e) ==
  LET applied ==
        CASE e.type = "trail_claimed"           -> ReplayTrail(s, e)
          [] e.type = "territory_color_changed" -> ReplayColor(s, e)
          [] e.type = "territory_captured"      -> ReplayCapture(s, e)
          [] e.type = "worm_moved"              -> ReplayMove(s, e)
          [] e.type \in {"worm_died", "worm_blocked"} -> ReplayDeath(s, e)
          [] e.type = "rule_learned"            -> ReplayLearned(s, e)
          [] e.type = "rule_used"               -> {t \in {s} : OnTime(s, e)}
          [] e.type = "decision_pending"        -> ReplayPending(s, e)
          [] e.type = "round_completed"         -> ReplayRound(s, e)
          [] e.type = "game_over"               -> {t \in {[s EXCEPT !.over = TRUE]} :
                                                      OnTime(s, e)}
  IN  {[t EXCEPT !.seq = @ + 1] : t \in applied}

ReplayOn(S, e) == UNION {ReplayEvent(t, e) : t \in S}

\* Each event is applied to what the ones before it have reached.
Replay(s, events) ==
  LET after[n \in 0 .. Len(events)] ==
        IF n = 0 THEN {s} ELSE ReplayOn(after[n - 1], events[n])
  IN  after[Len(events)]

------------------------------------------------------------------------------
(* The engine beside a replica that sees nothing but its events.           *)

VARIABLE replica     \* the set of states the replay has reached: {} after an error

replayVars == <<game, replica>>

ReplayInit == Init /\ replica = {Quiet(game)}

Follows == replica' = UNION {Replay(t, game'.events) : t \in replica}

ReplayNext ==
  \/ AdvanceRound /\ Follows
  \/ Answer /\ Follows

\* WF_replayVars(ReplayNext), with its ENABLED written out as CanGoOn: the runner
\* keeps calling AdvanceRound, and every pending decision is answered by its
\* controller or resolved at its deadline.
ReplayFairness == []<>~CanGoOn \/ []<><<TRUE>>_replayVars

ReplaySpec == ReplayInit /\ [][ReplayNext]_replayVars /\ ReplayFairness

\* "A replay must reproduce state and hash" (docs/classic-rules.md): after every
\* handler the replica is in exactly the state of the engine, so no state change
\* of the engine is missing from its events and none is applied twice.
ReplayReproducesState == replica = {Quiet(game)}

=============================================================================
