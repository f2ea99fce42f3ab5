------------------------------ MODULE Extension ------------------------------
(***************************************************************************)
(* The modern rules layered over the engine: internal/extension/           *)
(* extension.go.  Obstacles and holes, weighted territory, one-way and     *)
(* temporary trails, energy and teams.                                     *)
(*                                                                         *)
(* The code's State embeds the engine's as Base, and so does a state here: *)
(* the operators of WormsEngine apply to its field base.  As there, an     *)
(* operation is the set of states it may return and the empty set is an    *)
(* error, after which the caller keeps its snapshot.                       *)
(*                                                                         *)
(* Left out: the hash chain of the extension's own events, of which only   *)
(* the number is kept, and what fog hides from an observer.                *)
(***************************************************************************)
EXTENDS WormsEngine

CONSTANTS Team,     \* team names
          Configs   \* the configurations a game may be created with

NoTeam == "no team"
Free   == -1        \* an edge that may be taken either way

Barrier == {"obstacle", "hole"}

\* The draws that a seed stands for, one for each dot of a generated world.
Draws(kinds) == [1 .. Cardinality(Point) -> {{}} \cup {{k} : k \in kinds}]

Config ==
  [enabled : BOOLEAN,                       \* FALSE: the zero value, "classic"
   barred  : [Point -> SUBSET Barrier],     \* Obstacles and Holes
   rates   : SUBSET Barrier,                \* those whose rate is above 0
   seed    : Draws(Barrier),                \* Seed
   weight  : [Point -> Nat \ {0}],          \* 1 where none is configured
   oneWay  : [Edge -> Dir \cup {Free}],
   ttl     : Nat,                           \* TemporaryTrailTTL, 0 for none
   limit   : Nat,                           \* EnergyLimit, 0 for none
   team    : [Slot -> Team \cup {NoTeam}]]

\* The zero value.
ClassicConfig ==
  [enabled |-> FALSE, barred |-> [p \in Point |-> {}], rates |-> {},
   seed |-> [k \in 1 .. Cardinality(Point) |-> {}], weight |-> [p \in Point |-> 1],
   oneWay |-> [e \in Edge |-> Free], ttl |-> 0, limit |-> 0, team |-> [w \in Slot |-> NoTeam]]

\* Config.Validate on a base whose worms are at pos.
StandsFree(c, pos) == \A w \in Slot : c.barred[pos[w]] = {}

ValidConfig(c) ==
  /\ c \in Config
  /\ c.enabled \/ c = ClassicConfig
  /\ StandsFree(c, Start)
  /\ \A p \in Point : Cardinality(c.barred[p]) <= 1
  /\ \A e \in Edge : c.oneWay[e] # Free => (\A p \in e : c.barred[p] = {}) /\ c.ttl = 0
  /\ \/ \A w \in Slot : c.team[w] = NoTeam
     \/ Cardinality({c.team[w] : w \in Slot} \ {NoTeam}) >= 2

ASSUME ExtensionAssumption ==
  /\ NoTeam \notin Team
  /\ Configs # {}
  /\ \A c \in Configs : ValidConfig(c)

ExtendedState ==
  [base      : State,
   config    : Config,
   barred    : [Point -> SUBSET Barrier],
   moved     : SUBSET Slot,                \* with extensions: whom Base.Events saw move
   energy    : [Slot -> Nat],
   temporary : [Edge -> Nat],              \* the tick a trail expires at, or 0
   weighted  : [Slot -> Int],              \* Variant.Scores
   team      : [Team -> Int],              \* Variant.TeamScores
   records   : Nat]                        \* len(State.Events) of the extension

With(s, b) == [s EXCEPT !.base = b]

------------------------------------------------------------------------------
(* Creating a game.                                                        *)

\* Fault: only the places where the worms are now.
CurrentPositions(s) == {s.base.pos[w] : w \in {v \in Slot : s.base.alive[v]}}

\* initialPositions, from the first move of each worm: one that is dead and has not
\* moved is not known to have started anywhere.
InitialPositions(s) ==
  {Start[w] : w \in s.moved} \cup {s.base.pos[w] : w \in {v \in Slot \ s.moved : s.base.alive[v]}}

\* The dots that generateWorld passes over.
Reserved(s) == InitialPositions(s) \cup UNION {e \in Edge : s.config.oneWay[e] # Free}

\* points: the dots in order.
Before(q, p) == q[1] < p[1] \/ (q[1] = p[1] /\ q[2] < p[2])

\* The number of the draw that is for p when the dots in R are passed over.
Place(p, R) == 1 + Cardinality({q \in Point \ R : Before(q, p)})

\* generateWorld, on top of what the configuration names.
World(c, R) ==
  [p \in Point |-> c.barred[p] \cup (IF p \in R THEN {} ELSE c.seed[Place(p, R)])]

\* New on the base of s: full energy, no temporary trail and the world anew.
Rebuilt(s) == [s EXCEPT !.barred = World(s.config, Reserved(s)),
                        !.energy = [w \in Slot |-> s.config.limit],
                        !.temporary = [e \in Edge |-> 0]]

\* New on the initial state, before its last check.
Created(c) ==
  Rebuilt([base      |-> InitialState,
           config    |-> c,
           barred    |-> c.barred,
           moved     |-> {},
           energy    |-> [w \in Slot |-> c.limit],
           temporary |-> [e \in Edge |-> 0],
           weighted  |-> [w \in Slot |-> 0],
           team      |-> [x \in Team |-> 0],
           records   |-> 0])

------------------------------------------------------------------------------
(* Legal moves.                                                            *)

\* legal: one conjunct per rejection.
Allowed(s, w, d) ==
  LET from == s.base.pos[w]
      to   == Neighbor(from, d)
  IN  /\ s.base.alive[w]
      /\ s.config.limit > 0 => s.energy[w] > 0
      /\ InBounds(to)
      /\ s.barred[to] = {}
      /\ d \notin MaskAt(s.base, from)
      /\ ~Classic => ~WormAt(s.base, to)
      /\ s.base.trails[{from, to}] = None
      /\ s.temporary[{from, to}] = 0
      /\ s.config.oneWay[{from, to}] \in {Free, d}

\* State.LegalMoves.
Exits(s, w) ==
  IF s.config.enabled THEN {d \in Dir : Allowed(s, w, d)} ELSE LegalMoves(s.base, w)

------------------------------------------------------------------------------
(* Moves.                                                                  *)

\* direction: the first spoke of p that leads to q.
DirectionTo(p, q) ==
  CHOOSE d \in Dir : Neighbor(p, d) = q /\ \A e \in 0 .. d - 1 : Neighbor(p, e) # q

\* A sum of f over S, for an f without negative values.
Total(f, S) == Cardinality(UNION {{x} \X (1 .. f[x]) : x \in S})

\* What the dots count.
Worth(s, dots) == Total(s.config.weight, dots)

\* Fault: a trail expires one move early.
DueEarly(s) == {e \in Edge : s.temporary[e] # 0 /\ s.temporary[e] <= s.base.tick + 1}

Due(s) == {e \in Edge : s.temporary[e] # 0 /\ s.temporary[e] <= s.base.tick}

\* Fault: the spoke is given back at one end of the trail only.
FreedAtOneEnd(s, p) ==
  {DirectionTo(p, q) : q \in {r \in Point : {p, r} \in Due(s) /\ p[1] >= r[1]}}

\* The spokes of p that the expiring trails give back.
FreedAt(s, p) ==
  {DirectionTo(p, q) : q \in {r \in Point : {p, r} \in Due(s)}}

\* The complete dots of w that an expiring trail opens again.
LostBy(s, w) ==
  {p \in UNION Due(s) : s.base.owner[p] = w /\ s.base.cached[p] \ FreedAt(s, p) # Dir}

Floor(n) == IF n < 0 THEN 0 ELSE n

\* What expiry does to the board.
Cleared(s) ==
  [s.base EXCEPT
     !.trails = [e \in Edge |-> IF e \in Due(s) THEN None ELSE @[e]],
     !.cached = [p \in Point |-> @[p] \ FreedAt(s, p)],
     !.owner  = [p \in Point |-> IF \E w \in Slot : p \in LostBy(s, w) THEN None ELSE @[p]],
     !.score  = [w \in Slot |-> Floor(@[w] - Cardinality(LostBy(s, w)))]]

\* expire: every due trail is taken off the board, and a capture that loses a
\* spoke is taken back from its owner, from the owner's weighted score and from
\* the score of the owner's team.
Expire(s) ==
  [s EXCEPT
     !.base      = Cleared(s),
     !.temporary = [e \in Edge |-> IF e \in Due(s) THEN 0 ELSE @[e]],
     !.weighted  = [w \in Slot |-> @[w] - Worth(s, LostBy(s, w))],
     !.team      = [t \in Team |-> @[t] - Worth(s, UNION
                      {LostBy(s, w) : w \in {v \in Slot : s.config.team[v] = t}})],
     !.records   = @ + Cardinality(Due(s))]

\* Fault: a worm without energy lives until its next turn.
SpendOnly(s, w) ==
  IF s.config.limit = 0 THEN s ELSE [s EXCEPT !.energy[w] = Floor(@ - 1)]

\* A move costs one unit; the worm that has none left dies where it is, and the
\* last one ends the game.
Spend(s, w) ==
  LET left  == Floor(s.energy[w] - 1)
      alive == [s.base.alive EXCEPT ![w] = @ /\ left > 0]
      over  == s.base.over \/ (left = 0 /\ \A v \in Slot : ~alive[v])
  IN  IF s.config.limit = 0 THEN s
      ELSE [With(s, [s.base EXCEPT !.alive = alive, !.over = over])
              EXCEPT !.energy[w] = left]

Mark(s, e) ==
  IF s.config.ttl = 0 THEN s ELSE [s EXCEPT !.temporary[e] = s.base.tick + s.config.ttl]

Credit(s, w, delta) ==
  IF s.config.team[w] = NoTeam THEN s ELSE [s EXCEPT !.team[s.config.team[w]] = @ + delta]

\* What Apply does after Base.Step took the board to b: the dots taken count with
\* their weight, for the worm and for its team.
Settle(s, b, w) ==
  LET taken  == {p \in Point : s.base.owner[p] = None /\ b.owner[p] = w}
      gained == [With(s, b) EXCEPT !.moved = @ \cup {w}, !.weighted[w] = @ + Worth(s, taken)]
      delta  == (b.score[w] - s.base.score[w]) + (Worth(s, taken) - Cardinality(taken))
      spent  == Mark(Spend(gained, w), {s.base.pos[w], b.pos[w]})
  IN  [Credit(Expire(spent), w, delta) EXCEPT !.records = @ + 1]

\* Apply: expire what is due, check, step, settle.
Apply(s, w, d) ==
  UNION {{Settle(due, b, w) : b \in Step(due.base, w, d)} :
           due \in {t \in {Expire(s)} : Allowed(t, w, d) /\ CanStep(t.base, w, d)}}

------------------------------------------------------------------------------
(* Controllers: the loop of AdvanceRound with the extension's moves.       *)

\* The directions of the trials with the greatest value.
Foremost(trials) ==
  {x.dir : x \in {y \in trials : \A z \in trials : z.value <= y.value}}

\* chooseAuto: the most weighted score, then the most exits left; which of the
\* best it takes is seeded.
BestMoves(s, w) ==
  LET value(t) == 100 * (t.weighted[w] - s.weighted[w]) + Cardinality(Exits(t, w))
  IN  IF Cardinality(Exits(s, w)) = 1 THEN Exits(s, w)
      ELSE Foremost(UNION {{[dir |-> d, value |-> value(t)] : t \in Apply(s, w, d)} :
                             d \in Exits(s, w)})

\* UseRule and Apply; an illegal move is an error of the whole handler.
Take(s, w, m, d) == Apply(With(s, UseRule(s.base, w, m, d)), w, d)

\* Fault: a WILD worm does not choose again.
UsableOnly(s, w, a) ==
  IF a = DOAI THEN BestMoves(s, w) ELSE {a} \cap Exits(s, w)

\* The moves that a rule other than GETNEW and DIE leads to.  A remembered direction
\* may not be legal here: a WILD worm chooses again, for any other it is an
\* IllegalRuleError.
Usable(s, w, a) ==
  IF a \in Exits(s, w) THEN {a}
  ELSE IF a = DOAI \/ Kind[w] = "WILD" THEN BestMoves(s, w) ELSE {}

\* Fault: whether a worm is asked depends on the engine's legal moves.
DispatchBaseLegal(s, w) ==
  LET m == MaskAt(s.base, s.base.pos[w])
      a == s.base.rules[w][m]
  IN  CASE LegalMoves(s.base, w) = {} -> {With(s, Kill(s.base, w, "worm_blocked"))}
        [] LegalMoves(s.base, w) # {} /\ a = GETNEW -> {With(s, Ask(s.base, w, m))}
        [] LegalMoves(s.base, w) # {} /\ a \in {DIE, DOAI} ->
             {With(s, Kill(s.base, w, "worm_died"))}
        [] LegalMoves(s.base, w) # {} /\ a \in Dir ->
             UNION {Take(s, w, m, d) : d \in Usable(s, w, a)}

\* One slot of advanceSlots.
DispatchMove(s, w) ==
  LET m == MaskAt(s.base, s.base.pos[w])
      a == s.base.rules[w][m]
  IN  CASE Exits(s, w) = {} -> {With(s, Kill(s.base, w, "worm_blocked"))}
        [] Exits(s, w) # {} /\ a = GETNEW -> {With(s, Ask(s.base, w, m))}
        [] Exits(s, w) # {} /\ a = DIE -> {With(s, Kill(s.base, w, "worm_died"))}
        [] Exits(s, w) # {} /\ a \in Dir \cup {DOAI} ->
             UNION {Take(IF a = DOAI /\ ~Frozen(w) THEN With(s, Learn(s.base, w, m, d)) ELSE s,
                         w, m, d) : d \in Usable(s, w, a)}

VisitSlot(s, w, first) ==
  LET reached == With(s, [s.base EXCEPT !.slot = w])
  IN  IF w \notin Slot \/ w < first \/ s.base.pending # NoDecision THEN {s}
      ELSE IF ~s.base.alive[w] THEN {reached} ELSE DispatchMove(reached, w)

VisitEach(S, w, first) == UNION {VisitSlot(s, w, first) : s \in S}

\* advanceSlots: there are at most four slots, so the loop is four visits.
AdvanceSlots(s, first) ==
  LET after[k \in 0 .. 4] ==
        IF k = 0 THEN {s} ELSE VisitEach(after[k - 1], k - 1, first)
  IN  after[4]

\* The end of a round is the engine's, and a record of the extension.
Finish(s) ==
  IF s.base.pending # NoDecision THEN s
  ELSE [With(s, EndRound(s.base)) EXCEPT !.records = @ + 1]

------------------------------------------------------------------------------
(* The operations.                                                         *)

Advanced(s) ==
  IF ~s.config.enabled THEN {With(s, b) : b \in AdvanceOutcomes(s.base)}
  ELSE {Finish(t) : t \in AdvanceSlots(With(s, Quiet(s.base)),
                                       IF s.base.slot = None THEN 0 ELSE s.base.slot)}

CanAnswer(s, d) ==
  /\ s.base.pending # NoDecision
  /\ ~Frozen(s.base.pending.slot)
  /\ d \in Exits(s, s.base.pending.slot)

Answered(s, d) ==
  LET w == s.base.pending.slot
      m == s.base.pending.mask
      taught == [Learn(Quiet(s.base), w, m, d) EXCEPT !.pending = NoDecision, !.slot = w + 1]
  IN  IF ~s.config.enabled THEN {With(s, b) : b \in SubmitOutcomes(s.base, d)}
      ELSE UNION {{Finish(t) : t \in AdvanceSlots(u, w + 1)} :
                    u \in Take(With(s, taught), w, m, d)}

------------------------------------------------------------------------------
(* A game with extensions, driven by rounds and answers.                   *)

\* New refuses a world in which a living worm cannot move.
Playable(s) == \A w \in Slot : s.base.alive[w] => Exits(s, w) # {}

\* NormalizeConfig gives the configuration the seed of the request.
NewGame(c) ==
  {s \in {Created([c EXCEPT !.seed = draws]) : draws \in Draws(c.rates)} :
     ~c.enabled \/ Playable(s)}

InitExtended == \E c \in Configs : game \in NewGame(c)

Tick ==
  /\ game.base.tick < MaxTick
  /\ CanAdvance(game.base)
  /\ game' \in Advanced(game)

Teach(d) ==
  /\ game.base.tick < MaxTick
  /\ CanAnswer(game, d)
  /\ game' \in Answered(game, d)

NextExtended == Tick \/ \E d \in Dir : Teach(d)

SpecExtended == InitExtended /\ [][NextExtended]_game

------------------------------------------------------------------------------
(* Properties.                                                             *)

CompleteOf(s, w) == {p \in Point : s.base.cached[p] = Dir /\ s.base.owner[p] = w}

\* weightedScore, which validateVariant compares with the running totals.
CountersAgree(s) ==
  /\ ValidScores(s.base)
  /\ s.config.enabled =>
       /\ \A w \in Slot : s.weighted[w] = Worth(s, CompleteOf(s, w))
       /\ \A t \in Team : s.team[t] = Total(s.weighted, {w \in Slot : s.config.team[w] = t})

\* State.Validate on a stored state, but for the comparison with New: the engine's
\* check, Config.Validate on the board as it is, the energies, the expiries and the
\* three counters.
ValidVariant(s) ==
  /\ Validate(s.base)
  /\ CountersAgree(s)
  /\ s.config.enabled =>
       /\ StandsFree(s.config, s.base.pos)
       /\ \A w \in Slot : s.config.limit > 0 =>
            /\ s.energy[w] \in 0 .. s.config.limit
            /\ s.base.alive[w] => s.energy[w] > 0
       /\ \A e \in Edge : s.temporary[e] # 0 =>
            s.temporary[e] > s.base.tick /\ s.base.trails[e] # None
       /\ s.base.tick > 0 => s.records > 0

\* The rest of it: New on the stored base succeeds, with the obstacles and holes that
\* are stored.
SameWorld(s) == s.config.enabled => Rebuilt(s).barred = s.barred

LoadsAgain(s) ==
  /\ ValidVariant(s)
  /\ SameWorld(s)
  /\ s.config.enabled => Playable(Rebuilt(s))

\* A living worm has no exit.
BoxedIn(s) == \E w \in Slot : s.base.alive[w] /\ Exits(s, w) = {}

\* In a generated world, a worm has died where it started.
StartGivenUp(s) ==
  /\ s.config.rates # {}
  /\ \E w \in Slot \ s.moved : Kind[w] # "ASLEEP" /\ ~s.base.alive[w]

\* What rounds and answers leave behind can be loaded again, but for two cases: New
\* finds a living worm boxed in, or the generated world is drawn anew with one dot
\* more.  The three counters of a capture tell one story: the base score counts the
\* complete dots a worm owns, the weighted score sums their weights, a team's score
\* sums its worms'; Apply and expire change them in different places, and a dot may be
\* captured, lost to an expiry and captured again.  And the worms move away from the
\* starts that the world was generated around.
RefusedOnlyForCause ==
  /\ ValidVariant(game)
  /\ SameWorld(game) \/ StartGivenUp(game)
  /\ LoadsAgain(game) \/ StartGivenUp(game) \/ BoxedIn(game)

\* A trail that has expired is forgotten at both of its ends, and only then: the
\* cached masks are what the trails say, and with a time to live every trail has
\* an expiry ahead of it.  A bit left behind would close the spoke for good.
ExpiryFreesBothEnds ==
  /\ Fresh(game.base)
  /\ \A e \in Edge :
       IF game.config.enabled /\ game.config.ttl > 0 /\ game.base.trails[e] # None
       THEN game.temporary[e] \in game.base.tick + 1 .. game.base.tick + game.config.ttl
       ELSE game.temporary[e] = 0

\* Energy is paid once per turn, whichever way the move was found: a living worm
\* has used one unit in every turn served so far and has some left, so that it
\* dies inside its last move and not a turn later.
EnergyIsPaidPerTurn ==
  (game.config.enabled /\ game.config.limit > 0) =>
    \A w \in Slot :
      LET due == game.config.limit - Turns(game.base, w)
      IN  IF game.base.alive[w] THEN game.energy[w] = due /\ due > 0
                                ELSE game.energy[w] >= due

\* A pending decision survives the expiry of trails by the worms before it: its
\* mask is what the worm sees now and it has a legal answer, which Submit accepts
\* unless the worm is frozen.
QuestionIsAnswerable ==
  game.base.pending # NoDecision =>
    LET w == game.base.pending.slot IN
      /\ game.base.alive[w] /\ ~game.base.over
      /\ game.base.pending.mask = MaskAt(game.base, game.base.pos[w])
      /\ game.base.rules[w][game.base.pending.mask] = GETNEW
      /\ \E d \in Exits(game, w) : CanAnswer(game, d) \/ Frozen(w)

\* The dots p whose trails were due at some tick up to the next state's.
Reopened(p) ==
  \E e \in Edge : p \in e /\ game.temporary[e] \in 1 .. game'.base.tick

\* Only an expiry takes something back: a trail disappears when its time has
\* come, and a complete dot changes hands only if one of its trails did.
OnlyExpiryTakesBack ==
  [][/\ \A e \in Edge :
          (game.base.trails[e] # None /\ game'.base.trails[e] # game.base.trails[e]) =>
            game.temporary[e] \in 1 .. game'.base.tick
     /\ \A p \in Point :
          (game.base.owner[p] # None /\ game'.base.owner[p] # game.base.owner[p]) =>
            Reopened(p)
     /\ \A w \in Slot : ~game.base.alive[w] => ~game'.base.alive[w]
    ]_game

CanMoveOn ==
  \/ game.base.tick >= MaxTick
  \/ CanAdvance(game.base) /\ Advanced(game) # {}
  \/ \E d \in Dir : CanAnswer(game, d) /\ Answered(game, d) # {}

\* An extended game stalls for one reason: a worm that is not WILD remembers, for
\* the pattern it sees, a direction that an obstacle, a one-way edge, the border
\* or another worm closes here.  Said of games with one such worm.
StallNeedsAnIllegalRule ==
  (game.config.enabled /\ ~game.base.over /\ ~CanMoveOn) =>
    \E w \in Slot :
      /\ game.base.alive[w]
      /\ Kind[w] # "WILD"
      /\ game.base.rules[w][MaskAt(game.base, game.base.pos[w])] \in Dir \ Exits(game, w)

=============================================================================
