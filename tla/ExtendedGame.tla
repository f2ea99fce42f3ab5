---------------------------- MODULE ExtendedGame ----------------------------
(***************************************************************************)
(* A game with extensions behind the service: the extended paths of        *)
(* gameOperation and planGame in internal/server/server.go.                *)
(*                                                                         *)
(* Every operation, abort and pause included, loads the latest snapshot    *)
(* with loadExtensionState and is refused when that fails; what it changes *)
(* is stored with its event in one transaction (GameService).  So `game`   *)
(* is the stored state, and a state that does not load is never left.      *)
(***************************************************************************)
EXTENDS Extension

Loaded == game.base.tick < MaxTick /\ LoadsAgain(game)

\* op "tick".
ServeTick ==
  /\ Loaded
  /\ CanAdvance(game.base)
  /\ game' \in Advanced(game)

\* op "act": any worm, whoever's turn it is and whatever is pending.
ServeMove(w, d) ==
  /\ Loaded
  /\ game' \in Apply(With(game, Quiet(game.base)), w, d)

\* op "act" with a resignation.
ServeResign ==
  /\ Loaded
  /\ game' = With(game, [Quiet(game.base) EXCEPT !.over = TRUE])

\* The worms that moved in a handler of the engine.
Movers(events) ==
  {events[i].body.worm : i \in {k \in DOMAIN events : events[k].type = "worm_moved"}}

\* op "teach": the engine's Submit, on Base.
ServeTeach(d) ==
  /\ Loaded
  /\ CanSubmit(game.base, d)
  /\ game' \in {[With(game, b) EXCEPT !.moved = @ \cup Movers(b.events)] :
                  b \in SubmitOutcomes(game.base, d)}

\* plan with "teach": the extension's Submit, with a move of the planner's.
ServePlan(d) ==
  /\ Loaded
  /\ CanAnswer(game, d)
  /\ game' \in Answered(game, d)

InitServed == \E c \in {k \in Configs : k.enabled} : game \in NewGame(c)

NextServed ==
  \/ ServeTick
  \/ ServeResign
  \/ \E d \in Dir : ServeTeach(d) \/ ServePlan(d) \/ \E w \in Slot : ServeMove(w, d)

SpecServed == InitServed /\ [][NextServed]_game

\* An abort with the right cursor and hash goes through, whatever was played
\* before: it loads the state first, so the stored state must load.
AbortGoesThrough == LoadsAgain(game)

=============================================================================
