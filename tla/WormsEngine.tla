----------------------------- MODULE WormsEngine -----------------------------
(***************************************************************************)
(* The deterministic turn engine: internal/engine/engine.go and            *)
(* controller.go.                                                          *)
(*                                                                         *)
(* The code's State is a value: AdvanceRound and Submit work on it in      *)
(* place and restore a snapshot when they fail, and every caller holds it  *)
(* under one lock.  So a state is a record here, an operation is an        *)
(* operator from a state to the SET of states it may return, and a handler *)
(* is one atomic step.  The set is empty when the operation returns an     *)
(* error (nothing changes) and has several members only where the code     *)
(* breaks a tie with its seeded xorshift generator.                        *)
(*                                                                         *)
(* Left out: colours, CRIX, the previous direction and rule-use counts.    *)
(* They are presentation; no guard of the engine reads them.               *)
(***************************************************************************)
EXTENDS Lattice, FiniteSets, Sequences

CONSTANTS N,         \* len(State.Worms)
          Kind,      \* the controller kind of each slot
          Table,     \* the rule table a WILD, SAME or NAMED worm brings along
          FrozenSet, \* slots whose loaded brain is frozen
          Start,     \* the position of each worm in the initial state
          MaxTick    \* bound on the number of moves, for model checking

Slot == 0 .. N - 1

None == -1           \* no owner, no active slot

\* The historical sentinels of a rule table; the other entries are directions.
GETNEW == -1
DOAI   == -2
DIE    == -3
Action == Dir \cup {GETNEW, DOAI, DIE}

NoDecision == [slot |-> None]

ControllerKind == {"NEW", "AUTO", "WILD", "SAME", "NAMED", "ASLEEP"}

------------------------------------------------------------------------------
(* Rule tables.                                                            *)

\* Five occupied spokes force the sixth exit; six are fatal.
InstallForced(r) ==
  [m \in Mask |-> IF m = Dir THEN DIE
                  ELSE IF \E d \in Dir : m = Dir \ {d}
                       THEN CHOOSE d \in Dir : m = Dir \ {d}
                       ELSE r[m]]

\* ValidateRules: what a table must satisfy to be accepted anywhere.
ValidRules(r) ==
  /\ r \in [Mask -> Action]
  /\ \A m \in Mask : r[m] \in Dir => r[m] \notin m
  /\ \A d \in Dir : r[Dir \ {d}] = d
  /\ r[Dir] = DIE

ConfiguredRules(w) ==
  InstallForced(CASE Kind[w] = "NEW"  -> [m \in Mask |-> GETNEW]
                  [] Kind[w] = "AUTO" -> [m \in Mask |-> DOAI]
                  [] OTHER            -> Table[w])

Frozen(w) == Kind[w] = "WILD" \/ (Kind[w] \notin {"NEW", "AUTO"} /\ w \in FrozenSet)

\* At most four slots; every configured table passes ValidateRules (a table
\* that does not is refused and the worm left as it was); a classic game starts
\* every worm on one dot, a modern one starts them apart.
ASSUME EngineAssumption ==
  /\ N \in 1 .. 4
  /\ Kind \in [Slot -> ControllerKind]
  /\ Table \in [Slot -> [Mask -> Action]]
  /\ FrozenSet \subseteq Slot
  /\ Start \in [Slot -> Point]
  /\ MaxTick \in Nat
  /\ \A w \in Slot : ValidRules(ConfiguredRules(w))
  /\ IF Classic THEN \A v, w \in Slot : Start[v] = Start[w]
                ELSE \A v, w \in Slot : v # w => Start[v] # Start[w]

Decision == [slot : Slot, mask : Mask, request : Nat] \cup {NoDecision}

EventType == {"trail_claimed", "territory_color_changed", "territory_captured",
              "worm_moved", "worm_died", "worm_blocked", "rule_learned", "rule_used",
              "decision_pending", "round_completed", "game_over"}

EventBody == [worm : Slot, at : Point, to : Point]
        \cup [worm : Slot, at : Point, mask : Mask]
        \cup [worm : Slot, at : Point]
        \cup [worm : Slot, mask : Mask, action : Dir]
        \cup [worm : Slot, mask : Mask, request : Nat]
        \cup [worm : {None}]

Event == [type : EventType, tick : Nat, round : Nat, body : EventBody]

State ==
  [tick    : Nat,
   round   : Nat,
   alive   : [Slot -> BOOLEAN],
   pos     : [Slot -> Point],
   score   : [Slot -> Nat],
   rules   : [Slot -> [Mask -> Action]],
   trails  : [Edge -> Slot \cup {None}],
   owner   : [Point -> Slot \cup {None}],
   cached  : [Point -> Mask],             \* Territory.Mask, kept beside the trails
   slot    : Slot \cup {None, N},         \* ActiveSlot
   pending : Decision,
   over    : BOOLEAN,
   seq     : Nat,                         \* len(State.Events)
   events  : Seq(Event)]                  \* those of the current handler

InitialState ==
  [tick    |-> 0,
   round   |-> 0,
   alive   |-> [w \in Slot |-> Kind[w] # "ASLEEP"],
   pos     |-> Start,
   score   |-> [w \in Slot |-> 0],
   rules   |-> [w \in Slot |-> ConfiguredRules(w)],
   trails  |-> [e \in Edge |-> None],
   owner   |-> [p \in Point |-> None],
   cached  |-> [p \in Point |-> {}],
   slot    |-> None,
   pending |-> NoDecision,
   over    |-> FALSE,
   seq     |-> 0,
   events  |-> << >>]

\* emit: an event carries the tick and the round at which it happened.
Emit(s, type, body) ==
  [s EXCEPT !.seq = @ + 1,
            !.events = Append(@, [type |-> type, tick |-> s.tick,
                                  round |-> s.round, body |-> body])]

------------------------------------------------------------------------------
(* Moves.                                                                  *)

\* The spokes of p that hold a trail, read from the trails themselves.
TrailMask(s, p) ==
  {d \in Dir : EdgeOf(p, d) \in Edge /\ s.trails[EdgeOf(p, d)] # None}

\* The mask a worm sees: the trails and whatever its territory has cached.
MaskAt(s, p) == TrailMask(s, p) \cup s.cached[p]

WormAt(s, p) == \E v \in Slot : s.alive[v] /\ s.pos[v] = p

\* Fault: the modern occupancy rule is applied to the classic board too.
CanStepApart(s, w, d) ==
  /\ ~s.over
  /\ s.alive[w]
  /\ d \notin MaskAt(s, s.pos[w])
  /\ InBounds(Neighbor(s.pos[w], d))
  /\ ~WormAt(s, Neighbor(s.pos[w], d))

\* The guard of Step, one conjunct per rejection in the order of the code.
CanStep(s, w, d) ==
  /\ ~s.over
  /\ s.alive[w]
  /\ d \notin MaskAt(s, s.pos[w])
  /\ LET to == Neighbor(s.pos[w], d) IN
       /\ InBounds(to)
       /\ ~Classic => ~WormAt(s, to)
       /\ s.trails[{s.pos[w], to}] = None

\* LegalMoves reads neither the game-over flag nor the trail record itself.
LegalMoves(s, w) ==
  {d \in Dir : /\ s.alive[w]
               /\ d \notin MaskAt(s, s.pos[w])
               /\ InBounds(Neighbor(s.pos[w], d))
               /\ ~Classic => ~WormAt(s, Neighbor(s.pos[w], d))}

\* Fault: a capture names its owner and forgets the point.
RecolorUnscored(s, w, p) ==
  LET m == MaskAt(s, p)
      t == [s EXCEPT !.cached[p] = m,
                     !.owner[p] = IF @ = None /\ m = Dir THEN w ELSE @]
  IN  IF s.owner[p] # None THEN t
      ELSE Emit(t, IF m = Dir THEN "territory_captured" ELSE "territory_color_changed",
                [worm |-> w, at |-> p, mask |-> m])

\* Fault: only captures are reported.
RecolorSilent(s, w, p) ==
  LET m == MaskAt(s, p)
      t == [s EXCEPT !.cached[p] = m]
  IN  IF s.owner[p] # None \/ m # Dir THEN t
      ELSE Emit([t EXCEPT !.owner[p] = w, !.score[w] = @ + 1],
                "territory_captured", [worm |-> w, at |-> p, mask |-> m])

\* recolorCapture: refresh the cached mask of p and, when the sixth spoke is
\* taken and nobody owns p, give it to w.
Recolor(s, w, p) ==
  LET m == MaskAt(s, p)
      t == [s EXCEPT !.cached[p] = m]
  IN  IF s.owner[p] # None THEN t
      ELSE IF m = Dir
           THEN Emit([t EXCEPT !.owner[p] = w, !.score[w] = @ + 1],
                     "territory_captured", [worm |-> w, at |-> p, mask |-> m])
           ELSE Emit(t, "territory_color_changed",
                     [worm |-> w, at |-> p, mask |-> m])

Kill(s, w, cause) ==
  Emit([s EXCEPT !.alive[w] = FALSE], cause, [worm |-> w, at |-> s.pos[w]])

\* Fault: the dot that is left is not settled.
StepSkipsSource(s, w, d) ==
  LET from    == s.pos[w]
      to      == Neighbor(from, d)
      move    == [worm |-> w, at |-> from, to |-> to]
      claimed == {Emit([s EXCEPT !.tick = @ + 1, !.trails[{from, to}] = w,
                                 !.pos[w] = to], "trail_claimed", move)}
      settled == {Emit(Recolor(t, w, to), "worm_moved", move) : t \in claimed}
  IN  {IF MaskAt(t, to) = Dir THEN Kill(t, w, "worm_died") ELSE t : t \in settled}

\* Step, for a legal direction: claim the spoke, settle the dot that is left,
\* move, settle the dot that is entered, and die there if it is complete.
Step(s, w, d) ==
  LET from    == s.pos[w]
      to      == Neighbor(from, d)
      move    == [worm |-> w, at |-> from, to |-> to]
      claimed == {Emit([s EXCEPT !.tick = @ + 1, !.trails[{from, to}] = w],
                       "trail_claimed", move)}
      moved   == {[Recolor(t, w, from) EXCEPT !.pos[w] = to] : t \in claimed}
      settled == {Emit(Recolor(t, w, to), "worm_moved", move) : t \in moved}
  IN  {IF MaskAt(t, to) = Dir THEN Kill(t, w, "worm_died") ELSE t : t \in settled}

------------------------------------------------------------------------------
(* Controllers.                                                            *)

\* chooseAuto ranks the legal moves by captures, then by the fewest worms run
\* into, then by the exits left; which of the best it takes is seeded.
Trials(s, w) ==
  UNION {{[dir |-> d, state |-> t] : t \in Step(s, w, d)} : d \in LegalMoves(s, w)}

AutoRank(s, w, trial) ==
  LET to == trial.state.pos[w]
  IN  [capture  |-> trial.state.score[w] - s.score[w],
       collide  |-> Cardinality({v \in Slot \ {w} : s.alive[v] /\ s.pos[v] = to}),
       survival |-> Cardinality(LegalMoves(trial.state, w))]

Outranks(a, b) ==
  \/ a.capture > b.capture
  \/ a.capture = b.capture /\ a.collide < b.collide
  \/ a.capture = b.capture /\ a.collide = b.collide /\ a.survival > b.survival

AutoChoices(s, w) ==
  {d \in LegalMoves(s, w) :
     \A t, u \in Trials(s, w) :
       t.dir = d => ~Outranks(AutoRank(s, w, u), AutoRank(s, w, t))}

\* Fault: directions are numbered from one in the table.
LearnOneBased(s, w, m, d) ==
  Emit([s EXCEPT !.rules[w][m] = d + 1], "rule_learned",
       [worm |-> w, mask |-> m, action |-> d])

\* Fault: a lesson is added to the table the worm was configured with.
LearnAfresh(s, w, m, d) ==
  Emit([s EXCEPT !.rules[w] = [ConfiguredRules(w) EXCEPT ![m] = d]],
       "rule_learned", [worm |-> w, mask |-> m, action |-> d])

Learn(s, w, m, d) ==
  Emit([s EXCEPT !.rules[w][m] = d], "rule_learned",
       [worm |-> w, mask |-> m, action |-> d])

UseRule(s, w, m, d) ==
  Emit(s, "rule_used", [worm |-> w, mask |-> m, action |-> d])

Ask(s, w, m) ==
  Emit([s EXCEPT !.pending = [slot |-> w, mask |-> m, request |-> s.seq + 1]],
       "decision_pending", [worm |-> w, mask |-> m, request |-> s.seq + 1])

\* A remembered direction is followed blindly: one whose spoke is taken, or that
\* Step refuses, is an error of the whole handler.
Follow(s, w, m, d) ==
  UNION {Step(used, w, d) :
           used \in {t \in {UseRule(s, w, m, d)} : CanStep(t, w, d)}}

\* One slot of the loop that AdvanceRound and advanceAfterSubmit share.
Dispatch(s, w) ==
  LET m == MaskAt(s, s.pos[w])
      a == s.rules[w][m]
  IN  CASE LegalMoves(s, w) = {} -> {Kill(s, w, "worm_blocked")}
        [] LegalMoves(s, w) # {} /\ a = GETNEW -> {Ask(s, w, m)}
        [] LegalMoves(s, w) # {} /\ a = DIE -> {Kill(s, w, "worm_died")}
        [] LegalMoves(s, w) # {} /\ a = DOAI ->
             UNION {Follow(IF Frozen(w) THEN s ELSE Learn(s, w, m, d), w, m, d) :
                      d \in AutoChoices(s, w)}
        [] LegalMoves(s, w) # {} /\ a \in Dir -> Follow(s, w, m, a)

\* Fault: a pending decision does not stop the loop.
VisitOvertakes(s, w, first) ==
  IF w \notin Slot \/ w < first THEN {s}
  ELSE IF ~s.alive[w] THEN {[s EXCEPT !.slot = w]}
  ELSE Dispatch([s EXCEPT !.slot = w], w)

\* The loop reaches slot w, unless it starts beyond it or a slot before it waits.
Visit(s, w, first) ==
  IF w \notin Slot \/ w < first \/ s.pending # NoDecision THEN {s}
  ELSE IF ~s.alive[w] THEN {[s EXCEPT !.slot = w]}
  ELSE Dispatch([s EXCEPT !.slot = w], w)

VisitAll(S, w, first) == UNION {Visit(s, w, first) : s \in S}

\* There are at most four slots (Validate), so the loop is four visits.
Scan(s, first) ==
  VisitAll(VisitAll(VisitAll(VisitAll({s}, 0, first), 1, first), 2, first), 3, first)

\* Fault: the last survivor ends the game.
EndRoundLastStanding(s) ==
  LET done == Emit([s EXCEPT !.slot = None, !.round = @ + 1],
                   "round_completed", [worm |-> None])
  IN  IF s.pending # NoDecision THEN s
      ELSE IF Cardinality({w \in Slot : s.alive[w]}) > 1 THEN done
      ELSE Emit([done EXCEPT !.over = TRUE], "game_over", [worm |-> None])

\* The end of a scan that nothing interrupted.
EndRound(s) ==
  LET done == Emit([s EXCEPT !.slot = None, !.round = @ + 1],
                   "round_completed", [worm |-> None])
  IN  IF s.pending # NoDecision THEN s
      ELSE IF \E w \in Slot : s.alive[w] THEN done
      ELSE Emit([done EXCEPT !.over = TRUE], "game_over", [worm |-> None])

Quiet(s) == [s EXCEPT !.events = << >>]

------------------------------------------------------------------------------
(* The operations of the engine, as sets of outcomes.                      *)

CanAdvance(s) == s.pending = NoDecision /\ ~s.over

AdvanceOutcomes(s) ==
  {EndRound(t) : t \in Scan(Quiet(s), IF s.slot = None THEN 0 ELSE s.slot)}

CanSubmit(s, d) ==
  /\ s.pending # NoDecision
  /\ ~Frozen(s.pending.slot)
  /\ d \in LegalMoves(s, s.pending.slot)

\* Fault: after an answer the scan starts again from the first slot.
SubmitRescans(s, d) ==
  LET w == s.pending.slot
      m == s.pending.mask
      answered == [Learn(Quiet(s), w, m, d) EXCEPT !.pending = NoDecision,
                                                   !.slot = 0]
  IN  UNION {{EndRound(t) : t \in Scan(u, 0)} : u \in Follow(answered, w, m, d)}

SubmitOutcomes(s, d) ==
  LET w == s.pending.slot
      m == s.pending.mask
      answered == [Learn(Quiet(s), w, m, d) EXCEPT !.pending = NoDecision,
                                                   !.slot = w + 1]
  IN  UNION {{EndRound(t) : t \in Scan(u, w + 1)} : u \in Follow(answered, w, m, d)}

------------------------------------------------------------------------------
(* The game driven by rounds and answers, as matches and the runner do.    *)

VARIABLE game

Init == game = InitialState

AdvanceRound ==
  /\ game.tick < MaxTick
  /\ CanAdvance(game)
  /\ game' \in AdvanceOutcomes(game)

Submit(d) ==
  /\ game.tick < MaxTick
  /\ CanSubmit(game, d)
  /\ game' \in SubmitOutcomes(game, d)

Answer == \E d \in Dir : Submit(d)

Next == AdvanceRound \/ Answer

Spec == Init /\ [][Next]_game

\* Some operation would change the game: what ENABLED Next says.
CanGoOn ==
  /\ game.tick < MaxTick
  /\ \/ CanAdvance(game) /\ AdvanceOutcomes(game) # {}
     \/ \E d \in Dir : CanSubmit(game, d) /\ SubmitOutcomes(game, d) # {}

------------------------------------------------------------------------------
(* What a state must satisfy to be loaded again: State.Validate, which         *)
(* UnmarshalSnapshot runs on every stored state.                               *)

ValidOccupancy(s) ==
  \A w \in Slot : s.alive[w] =>
    /\ InBounds(s.pos[w])
    /\ ~Classic => \A v \in Slot \ {w} : s.alive[v] => s.pos[v] # s.pos[w]

ValidTrails(s) ==
  \A e \in Edge : s.trails[e] # None =>
    /\ Cardinality(e) = 2
    /\ \A p \in e : \E d \in Dir : EdgeOf(p, d) = e

ValidScores(s) ==
  /\ \A p \in Point : s.cached[p] = Dir => s.owner[p] \in Slot
  /\ \A w \in Slot :
       s.score[w] = Cardinality({p \in Point : s.cached[p] = Dir /\ s.owner[p] = w})

Validate(s) ==
  /\ ValidOccupancy(s)
  /\ \A w \in Slot : ValidRules(s.rules[w])
  /\ ValidTrails(s)
  /\ ValidScores(s)

------------------------------------------------------------------------------
(* Properties.                                                             *)

\* Type invariant.
TypeOK == game \in State

\* Every state a handler returns passes Validate, so that the snapshot stored
\* after it can be loaded: scores equal the completed territories owned, every
\* remembered rule leads to a free spoke, modern worms never share a dot.
StateValidates == Validate(game)

\* The cached masks of a state are what its trails say.
Fresh(s) == \A p \in Point : s.cached[p] = TrailMask(s, p)

\* The mask cached in a territory is never stale: it is what the trails say.
\* The engine refreshes it only at the two ends of the spoke just taken.
CachedMasksAreFresh == Fresh(game)

Moves(s, w) == Cardinality({e \in Edge : s.trails[e] = w})

\* The moves of the rounds that are over, and one more for the slots the
\* interrupted scan has already served.
Turns(s, w) == s.round + (IF s.slot # None /\ w < s.slot THEN 1 ELSE 0)

\* Slots run in index order, once per round, and a pending decision lets no
\* later slot overtake it: a living worm has made exactly the moves of the turns
\* served so far, and a dead one no more than that.
SlotOrder ==
  /\ \A w \in Slot :
       IF game.alive[w] THEN Moves(game, w) = Turns(game, w)
                        ELSE Moves(game, w) <= Turns(game, w)
  /\ game.tick = Cardinality({e \in Edge : game.trails[e] # None})

\* A state's pending decision, if it has one, describes that state.
PendingCurrent(s) ==
  s.pending # NoDecision =>
    LET w == s.pending.slot IN
      /\ s.slot = w
      /\ s.alive[w]
      /\ s.pending.mask = MaskAt(s, s.pos[w])
      /\ s.rules[w][s.pending.mask] = GETNEW
      /\ LegalMoves(s, w) # {}
      /\ s.pending.request = s.seq

\* The pending decision describes the present: its worm lives, still sees the
\* pattern it asked about, does not know it, and has a legal answer.  Submit
\* stores the answer under that pattern without looking again.
PendingIsCurrent == PendingCurrent(game)

ScanEnded(s) ==
  /\ s.over => /\ s.slot = None
               /\ s.pending = NoDecision
               /\ \A w \in Slot : ~s.alive[w]
  /\ (s.round > 0 /\ \A w \in Slot : ~s.alive[w]) => s.over

\* The game is over when a scan ends with nobody alive, and only then: a pass
\* over the slots is always completed first.
OverAfterWholeScan == ScanEnded(game)

\* Nothing is ever undone: a trail and a completed territory keep their owner,
\* the dead stay dead where they died, and a rule once learned stays.
Permanent ==
  [][/\ \A e \in Edge : game.trails[e] # None => game'.trails[e] = game.trails[e]
     /\ \A p \in Point : game.owner[p] # None => game'.owner[p] = game.owner[p]
     /\ \A w \in Slot :
          /\ ~game.alive[w] => ~game'.alive[w] /\ game'.pos[w] = game.pos[w]
          /\ \A m \in Mask : game.rules[w][m] \in Dir =>
                               game'.rules[w][m] = game.rules[w][m]
    ]_game

\* A game that is not over can go on: the round can be run, or some answer to
\* the pending decision is accepted.  Nothing else moves a game, so a table that
\* remembers a move Step refuses would stall it for good.
NeverStuck == game.over \/ game.tick >= MaxTick \/ CanGoOn

\* Every game ends, whoever answers the decisions.
GameEnds == <>game.over

=============================================================================
