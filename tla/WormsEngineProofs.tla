-------------------------- MODULE WormsEngineProofs --------------------------
(***************************************************************************)
(* Machine-checked facts about WormsEngine, for every board, every number  *)
(* of worms (one to four) and every choice of controllers and tables.      *)
(***************************************************************************)
EXTENDS WormsEngine, FiniteSetTheorems, TLAPS

------------------------------------------------------------------------------
(* The geometry of the two boards, for every width and height: no          *)
(* direction leads off a torus, and the opposite direction leads back.     *)

\* The offsets of Neighbor are -1, 0 or 1 on either axis.
LEMMA StepRange ==
  /\ \A d \in Dir : RowStep[d + 1] \in -1 .. 1
  /\ \A p, d : d \in Dir => ColumnStep(p)[d + 1] \in -1 .. 1
<1>1. \A d \in Dir : RowStep[d + 1] \in -1 .. 1
  BY DEF Dir, RowStep
<1>2. \A d \in Dir : /\ AxialStep[d + 1] \in -1 .. 1
                     /\ OddStep[d + 1] \in -1 .. 1
                     /\ EvenStep[d + 1] \in -1 .. 1
  BY DEF Dir, AxialStep, OddStep, EvenStep
<1> QED
  BY <1>1, <1>2 DEF ColumnStep

\* wrap brings any pair of coordinates back onto the board.
LEMMA WrapType ==
  ASSUME NEW p \in Int \X Int
  PROVE  Wrap(p) \in Point
<1>1. /\ Width \in Nat /\ Width > 0 /\ Height \in Nat /\ Height > 0 /\ Origin \in Nat
  BY LatticeAssumption DEF Origin
<1>2. \A x \in Int : x % Width \in 0 .. Width - 1
  BY <1>1
<1>3. \A x \in Int : x % Height \in 0 .. Height - 1
  BY <1>1
<1>4. /\ p[1] - Origin \in Int
      /\ p[2] - Origin \in Int
  BY <1>1
<1> QED
  BY <1>1, <1>2, <1>3, <1>4 DEF Wrap, Point

\* On the torus every spoke leads to a dot of the board.
LEMMA NeighborType ==
  ASSUME NEW p \in Point, NEW d \in Dir
  PROVE  Classic => Neighbor(p, d) \in Point
<1> DEFINE q == <<p[1] + ColumnStep(p)[d + 1], p[2] + RowStep[d + 1]>>
<1>1. p \in Int \X Int
  BY LatticeAssumption DEF Point, Origin
<1>2. q \in Int \X Int
  BY <1>1, StepRange
<1> QED
  BY <1>2, WrapType DEF Neighbor

\* Remainders of a number at most one step outside the range.
LEMMA ModSmall ==
  ASSUME NEW W \in Nat, W > 0, NEW b \in -1 .. W
  PROVE  b % W = IF b = -1 THEN W - 1 ELSE IF b = W THEN 0 ELSE b
<1>1. b \in 0 .. W - 1 => b % W = b
  OBVIOUS
<1>2. W % W = 0 /\ (-1) % W = W - 1
  OBVIOUS
<1> QED
  BY <1>1, <1>2

\* A step and its opposite cancel, around the board as well.
LEMMA StepBack ==
  ASSUME NEW W \in Nat, W > 0, NEW a \in 0 .. W - 1, NEW k \in -1 .. 1
  PROVE  (((a + k) % W) - k) % W = a
<1>1. a + k \in -1 .. W
  OBVIOUS
<1>2. (a + k) % W = IF a + k = -1 THEN W - 1 ELSE IF a + k = W THEN 0 ELSE a + k
  BY <1>1, ModSmall
<1> DEFINE c == (a + k) % W
<1>3. c - k \in -1 .. W
  BY <1>1, <1>2
<1>4. (c - k) % W = IF c - k = -1 THEN W - 1 ELSE IF c - k = W THEN 0 ELSE c - k
  BY <1>3, ModSmall
<1> QED
  BY <1>1, <1>2, <1>4

\* The columns of a step and of its opposite cancel when the rows they start in
\* have the parities that a torus of even height gives them.
LEMMA OppositeSteps ==
  ASSUME NEW d \in Dir
  PROVE  /\ Opposite(d) \in Dir
         /\ RowStep[Opposite(d) + 1] = 0 - RowStep[d + 1]
         /\ AxialStep[Opposite(d) + 1] = 0 - AxialStep[d + 1]
         /\ RowStep[d + 1] = 0 => /\ OddStep[Opposite(d) + 1] = 0 - OddStep[d + 1]
                                  /\ EvenStep[Opposite(d) + 1] = 0 - EvenStep[d + 1]
         /\ RowStep[d + 1] # 0 => /\ OddStep[Opposite(d) + 1] = 0 - EvenStep[d + 1]
                                  /\ EvenStep[Opposite(d) + 1] = 0 - OddStep[d + 1]
<1>1. d = 0 \/ d = 1 \/ d = 2 \/ d = 3 \/ d = 4 \/ d = 5
  BY DEF Dir
<1>2. Opposite(d) = IF d < 3 THEN d + 3 ELSE d - 3
  BY <1>1 DEF Opposite
<1>3. CASE d = 0
  BY <1>2, <1>3 DEF Dir, RowStep, AxialStep, OddStep, EvenStep
<1>4. CASE d = 1
  BY <1>2, <1>4 DEF Dir, RowStep, AxialStep, OddStep, EvenStep
<1>5. CASE d = 2
  BY <1>2, <1>5 DEF Dir, RowStep, AxialStep, OddStep, EvenStep
<1>6. CASE d = 3
  BY <1>2, <1>6 DEF Dir, RowStep, AxialStep, OddStep, EvenStep
<1>7. CASE d = 4
  BY <1>2, <1>7 DEF Dir, RowStep, AxialStep, OddStep, EvenStep
<1>8. CASE d = 5
  BY <1>2, <1>8 DEF Dir, RowStep, AxialStep, OddStep, EvenStep
<1> QED
  BY <1>1, <1>3, <1>4, <1>5, <1>6, <1>7, <1>8

\* On a torus of even height a step to the next row changes the parity of the
\* row, across the seam too.
LEMMA RowParity ==
  ASSUME NEW H \in Nat, H > 0, H % 2 = 0, NEW a \in 0 .. H - 1, NEW k \in {-1, 1}
  PROVE  ((a + k) % H) % 2 # a % 2
<1>1. a + k \in -1 .. H
  OBVIOUS
<1>2. (a + k) % H = IF a + k = -1 THEN H - 1 ELSE IF a + k = H THEN 0 ELSE a + k
  BY <1>1, ModSmall
<1>3. CASE a + k = -1
  <2>1. a = 0 /\ (a + k) % H = H - 1
    BY <1>2, <1>3
  <2>2. (H - 1) % 2 = 1
    OBVIOUS
  <2> QED
    BY <2>1, <2>2
<1>4. CASE a + k = H
  <2>1. a = H - 1 /\ (a + k) % H = 0
    BY <1>2, <1>4
  <2>2. (H - 1) % 2 = 1
    OBVIOUS
  <2> QED
    BY <2>1, <2>2
<1>5. CASE a + k # -1 /\ a + k # H
  <2>1. (a + k) % H = a + k
    BY <1>2, <1>5
  <2>2. (a + k) % 2 # a % 2
    OBVIOUS
  <2> QED
    BY <2>1, <2>2
<1> QED
  BY <1>3, <1>4, <1>5

\* On the torus a neighbour's coordinates are sums modulo the width and the height.
LEMMA ClassicNeighbor ==
  ASSUME Classic, NEW p \in Int \X Int, NEW d \in Dir, NEW x \in Int, NEW y \in Int,
         x = p[1] + ColumnStep(p)[d + 1], y = p[2] + RowStep[d + 1]
  PROVE  Neighbor(p, d) = <<((x - 1) % Width) + 1, ((y - 1) % Height) + 1>>
<1>1. Wrap(<<x, y>>) = <<((x - 1) % Width) + 1, ((y - 1) % Height) + 1>>
  BY DEF Wrap, Origin
<1>2. Neighbor(p, d) = Wrap(<<x, y>>)
  BY DEF Neighbor
<1> QED
  BY <1>1, <1>2

\* ReciprocalOK: a spoke seen from one end is a spoke seen from the other.  On the
\* torus this is where Validate's refusal of odd heights is needed: the rows
\* alternate, and the seam must not join two rows of one kind.
THEOREM OppositeLeadsBack ==
  ASSUME NEW p \in Point, NEW d \in Dir, Neighbor(p, d) \in Point
  PROVE  Neighbor(Neighbor(p, d), Opposite(d)) = p
<1> DEFINE q == Neighbor(p, d)
           dx == ColumnStep(p)[d + 1]
           dy == RowStep[d + 1]
           ox == ColumnStep(q)[Opposite(d) + 1]
           oy == RowStep[Opposite(d) + 1]
<1>1. /\ Width \in Nat /\ Width > 0 /\ Height \in Nat /\ Height > 0
  BY LatticeAssumption
<1>2. p = <<p[1], p[2]>> /\ p[1] \in Int /\ p[2] \in Int
  BY LatticeAssumption DEF Point, Origin
<1>3. dx \in -1 .. 1 /\ dy \in -1 .. 1
  BY StepRange
<1>4. oy = 0 - dy
  BY OppositeSteps
<1>5. CASE ~Classic
  <2>1. ox = 0 - dx
    BY <1>5, OppositeSteps DEF ColumnStep
  <2>2. q = <<p[1] + dx, p[2] + dy>>
    BY <1>5 DEF Neighbor
  <2>3. Neighbor(q, Opposite(d)) = <<q[1] + ox, q[2] + oy>>
    BY <1>5 DEF Neighbor
  <2> QED
    BY <1>2, <1>3, <1>4, <2>1, <2>2, <2>3
<1>6. CASE Classic
  <2>1. Origin = 1 /\ Height % 2 = 0
    BY <1>6, LatticeAssumption DEF Origin, Classic
  <2>2. p[1] - 1 \in 0 .. Width - 1 /\ p[2] - 1 \in 0 .. Height - 1
    BY <1>1, <2>1 DEF Point
  <2>3. q = <<(((p[1] + dx) - 1) % Width) + 1, (((p[2] + dy) - 1) % Height) + 1>>
    <3> DEFINE x == p[1] + dx
               y == p[2] + dy
    <3>1. p \in Int \X Int /\ x \in Int /\ y \in Int
      BY <1>2, <1>3, <2>1 DEF Point
    <3>2. x = p[1] + ColumnStep(p)[d + 1] /\ y = p[2] + RowStep[d + 1]
      OBVIOUS
    <3>3. q = <<((x - 1) % Width) + 1, ((y - 1) % Height) + 1>>
      <4> HIDE DEF x, y
      <4> QED
        BY <1>6, <3>1, <3>2, ClassicNeighbor
    <3> QED
      BY <3>3
  <2>4. Neighbor(q, Opposite(d)) =
          <<(((q[1] + ox) - 1) % Width) + 1, (((q[2] + oy) - 1) % Height) + 1>>
    <3> DEFINE x == q[1] + ox
               y == q[2] + oy
    <3>1. q \in Int \X Int /\ ox \in Int /\ oy \in Int /\ Opposite(d) \in Dir
      <4>1. q \in Point
        OBVIOUS
      <4>2. Opposite(d) \in Dir
        BY OppositeSteps
      <4> QED
        BY <2>1, <4>1, <4>2, StepRange DEF Point
    <3>2. x = q[1] + ColumnStep(q)[Opposite(d) + 1] /\ y = q[2] + RowStep[Opposite(d) + 1]
      OBVIOUS
    <3>3. x \in Int /\ y \in Int
      <4> HIDE DEF q, ox, oy
      <4> QED
        BY <3>1
    <3>4. Neighbor(q, Opposite(d)) = <<((x - 1) % Width) + 1, ((y - 1) % Height) + 1>>
      <4> HIDE DEF x, y, q
      <4> QED
        BY <1>6, <3>1, <3>2, <3>3, ClassicNeighbor
    <3> QED
      BY <3>4
  <2>5. (p[2] + dy - 1) % Height =
          IF p[2] + dy - 1 = -1 THEN Height - 1
          ELSE IF p[2] + dy - 1 = Height THEN 0 ELSE p[2] + dy - 1
    <3>1. p[2] + dy - 1 \in -1 .. Height
      BY <1>1, <1>2, <1>3, <2>2
    <3> QED
      BY <1>1, <3>1, ModSmall
  <2>6. ox = 0 - dx
    <3>1. CASE dy = 0
      <4>1. q[2] = p[2]
        BY <1>2, <2>2, <2>3, <2>5, <3>1
      <4> QED
        BY <1>6, <3>1, <4>1, OppositeSteps DEF ColumnStep
    <3>2. CASE dy # 0
      <4> DEFINE a == p[2] - 1
                 b == (a + dy) % Height
      <4>2. dy \in {-1, 1} /\ p[2] + dy - 1 = a + dy
        BY <1>2, <1>3, <3>2
      <4>3. b % 2 # a % 2
        <5> HIDE DEF dy
        <5> QED
          BY <1>1, <2>1, <2>2, <4>2, RowParity
      <4>4. q[2] = b + 1 /\ p[2] = a + 1
        BY <1>2, <2>3, <4>2
      <4>5. a \in Int /\ b \in Int
        BY <1>2, <2>2, <2>5, <4>2, <1>1
      <4>1. q[2] % 2 = 1 <=> ~(p[2] % 2 = 1)
        <5> HIDE DEF a, b, q, dy
        <5> QED
          BY <4>3, <4>4, <4>5
      <4> QED
        BY <1>6, <3>2, <4>1, OppositeSteps DEF ColumnStep
    <3> QED
      BY <3>1, <3>2
  <2>7. (((p[1] - 1 + dx) % Width) - dx) % Width = p[1] - 1
    BY <1>1, <1>3, <2>2, StepBack
  <2>8. (((p[2] - 1 + dy) % Height) - dy) % Height = p[2] - 1
    BY <1>1, <1>3, <2>2, StepBack
  <2> HIDE DEF dx, dy, ox, oy
  <2>9. (q[1] + ox) - 1 = ((p[1] - 1 + dx) % Width) - dx
    BY <1>1, <1>2, <1>3, <2>3, <2>6
  <2>10. (q[2] + oy) - 1 = ((p[2] - 1 + dy) % Height) - dy
    BY <1>1, <1>2, <1>3, <1>4, <2>3
  <2> HIDE DEF q
  <2>11. (((q[1] + ox) - 1) % Width) + 1 = p[1]
    BY <1>2, <2>7, <2>9
  <2>12. (((q[2] + oy) - 1) % Height) + 1 = p[2]
    BY <1>2, <2>8, <2>10
  <2>13. Neighbor(q, Opposite(d)) = p
    BY <1>2, <2>4, <2>11, <2>12
  <2> QED
    BY <2>13 DEF q
<1> QED
  BY <1>5, <1>6

------------------------------------------------------------------------------
(* Types.                                                                  *)

\* Two states that differ in nothing but their events.
SameGame(s, t) ==
  /\ t.tick = s.tick /\ t.round = s.round /\ t.alive = s.alive /\ t.pos = s.pos
  /\ t.score = s.score /\ t.rules = s.rules /\ t.trails = s.trails
  /\ t.owner = s.owner /\ t.cached = s.cached /\ t.slot = s.slot
  /\ t.pending = s.pending /\ t.over = s.over

\* emit adds an event and changes nothing else of a state.
LEMMA EmitType ==
  ASSUME NEW s \in State, NEW type \in EventType, NEW body \in EventBody
  PROVE  Emit(s, type, body) \in State /\ SameGame(s, Emit(s, type, body))
<1>1. [type |-> type, tick |-> s.tick, round |-> s.round, body |-> body] \in Event
  BY DEF State, Event
<1>2. Append(s.events, [type |-> type, tick |-> s.tick, round |-> s.round, body |-> body])
        \in Seq(Event)
  BY <1>1 DEF State
<1>3. Emit(s, type, body) \in State
  <2>1. \A q \in Nat, evs \in Seq(Event) : [s EXCEPT !.seq = q, !.events = evs] \in State
    BY DEF State
  <2>2. s.seq + 1 \in Nat
    BY DEF State
  <2> QED
    BY <1>2, <2>1, <2>2 DEF Emit
<1>4. \A q, evs : SameGame(s, [s EXCEPT !.seq = q, !.events = evs])
  BY DEF State, SameGame
<1>5. SameGame(s, Emit(s, type, body))
  BY <1>4 DEF Emit
<1> QED
  BY <1>3, <1>5

\* Both ways of reading a pattern (maskWithoutTerritory and mask) yield one.
LEMMA MaskType ==
  ASSUME NEW s \in State, NEW p \in Point
  PROVE  TrailMask(s, p) \in Mask /\ MaskAt(s, p) \in Mask
BY DEF TrailMask, MaskAt, State, Mask

\* kill ends the life of one worm and changes nothing else of a state.
LEMMA KillType ==
  ASSUME NEW s \in State, NEW w \in Slot, NEW cause \in {"worm_died", "worm_blocked"}
  PROVE  /\ Kill(s, w, cause) \in State
         /\ SameGame([s EXCEPT !.alive[w] = FALSE], Kill(s, w, cause))
<1>1. [s EXCEPT !.alive[w] = FALSE] \in State
  BY DEF State
<1>2. [worm |-> w, at |-> s.pos[w]] \in EventBody
  BY DEF State, EventBody
<1>3. cause \in EventType
  BY DEF EventType
<1> QED
  BY <1>1, <1>2, <1>3, EmitType DEF Kill

\* What settling a dot does: its cached mask is brought up to date, and a dot
\* that is complete and free gets an owner and gives a point.
RecolorDoes(s, w, p, t) ==
  LET gain == s.owner[p] = None /\ MaskAt(s, p) = Dir
  IN  /\ t \in State
      /\ t.tick = s.tick /\ t.round = s.round /\ t.alive = s.alive
      /\ t.pos = s.pos /\ t.rules = s.rules /\ t.trails = s.trails
      /\ t.slot = s.slot /\ t.pending = s.pending /\ t.over = s.over
      /\ t.cached = [s.cached EXCEPT ![p] = MaskAt(s, p)]
      /\ t.owner = IF gain THEN [s.owner EXCEPT ![p] = w] ELSE s.owner
      /\ t.score = IF gain THEN [s.score EXCEPT ![w] = s.score[w] + 1] ELSE s.score

\* recolorCapture does that, and stays in the type.
LEMMA RecolorEffect ==
  ASSUME NEW s \in State, NEW w \in Slot, NEW p \in Point
  PROVE  RecolorDoes(s, w, p, Recolor(s, w, p))
<1> DEFINE m == MaskAt(s, p)
           u == [s EXCEPT !.cached[p] = m]
           v == [u EXCEPT !.owner[p] = w, !.score[w] = @ + 1]
           body == [worm |-> w, at |-> p, mask |-> m]
<1>1. m \in Mask
  BY MaskType
<1>2. u \in State
  BY <1>1 DEF State
<1>7. v \in State
  <2>1. [s.owner EXCEPT ![p] = w] \in [Point -> Slot \cup {None}]
    BY DEF State
  <2>2. [s.score EXCEPT ![w] = s.score[w] + 1] \in [Slot -> Nat]
    BY DEF State
  <2>3. u.owner = s.owner /\ u.score = s.score
    BY DEF State
  <2> QED
    BY <1>2, <2>1, <2>2, <2>3 DEF State
<1>3. body \in EventBody
  BY <1>1 DEF EventBody
<1>4. CASE s.owner[p] # None
  <2>1. Recolor(s, w, p) = u
    BY <1>4 DEF Recolor
  <2> QED
    BY <2>1, <1>2, <1>4 DEF State, RecolorDoes
<1>5. CASE s.owner[p] = None /\ m = Dir
  <2>1. Recolor(s, w, p) = Emit(v, "territory_captured", body)
    BY <1>5 DEF Recolor
  <2>2. Recolor(s, w, p) \in State /\ SameGame(v, Recolor(s, w, p))
    BY <2>1, <1>7, <1>3, EmitType DEF EventType
  <2> QED
    BY <2>2, <1>2, <1>7, <1>5 DEF State, SameGame, RecolorDoes
<1>6. CASE s.owner[p] = None /\ m # Dir
  <2>1. Recolor(s, w, p) = Emit(u, "territory_color_changed", body)
    BY <1>6 DEF Recolor
  <2>2. Recolor(s, w, p) \in State /\ SameGame(u, Recolor(s, w, p))
    BY <2>1, <1>2, <1>3, EmitType DEF EventType
  <2> QED
    BY <2>2, <1>2, <1>6 DEF State, SameGame, RecolorDoes
<1> QED
  BY <1>4, <1>5, <1>6

------------------------------------------------------------------------------
(* One move.                                                               *)

\* maskWithoutTerritory reads the trails and nothing else.
LEMMA TrailMaskOfTrails ==
  ASSUME NEW s, NEW t, NEW p, s.trails = t.trails
  PROVE  TrailMask(s, p) = TrailMask(t, p)
BY DEF TrailMask

\* A legal move stays on the board and takes a spoke that is an edge of it.
LEMMA StepEdge ==
  ASSUME NEW s \in State, NEW w \in Slot, NEW d \in Dir, CanStep(s, w, d)
  PROVE  /\ s.pos[w] \in Point
         /\ Neighbor(s.pos[w], d) \in Point
         /\ {s.pos[w], Neighbor(s.pos[w], d)} \in Edge
<1>1. s.pos[w] \in Point
  BY DEF State
<1>2. Neighbor(s.pos[w], d) \in Point
  BY DEF CanStep, InBounds
<1> QED
  BY <1>1, <1>2 DEF Edge, EdgeOf

\* The state in which the spoke has just been claimed, before anything else.
Claimed(s, w, d) ==
  LET from == s.pos[w]
      to   == Neighbor(from, d)
  IN  Emit([s EXCEPT !.tick = @ + 1, !.trails[{from, to}] = w],
           "trail_claimed", [worm |-> w, at |-> from, to |-> to])

\* The first half of Step takes the spoke for the worm and counts the move.
LEMMA ClaimEffect ==
  ASSUME NEW s \in State, NEW w \in Slot, NEW d \in Dir, CanStep(s, w, d)
  PROVE  LET t == Claimed(s, w, d)
         IN  /\ t \in State
             /\ t.tick = s.tick + 1
             /\ t.trails = [s.trails EXCEPT ![{s.pos[w], Neighbor(s.pos[w], d)}] = w]
             /\ t.round = s.round /\ t.alive = s.alive /\ t.pos = s.pos
             /\ t.score = s.score /\ t.rules = s.rules /\ t.owner = s.owner
             /\ t.cached = s.cached /\ t.slot = s.slot /\ t.pending = s.pending
             /\ t.over = s.over
<1> DEFINE from == s.pos[w]
           to == Neighbor(from, d)
           u == [s EXCEPT !.tick = @ + 1, !.trails[{from, to}] = w]
           body == [worm |-> w, at |-> from, to |-> to]
<1>1. from \in Point /\ to \in Point /\ {from, to} \in Edge
  BY StepEdge
<1>2. /\ [s.trails EXCEPT ![{from, to}] = w] \in [Edge -> Slot \cup {None}]
      /\ s.tick + 1 \in Nat
  BY <1>1 DEF State
<1>3. \A n \in Nat, f \in [Edge -> Slot \cup {None}] :
         [s EXCEPT !.tick = n, !.trails = f] \in State
  BY DEF State
<1>4. u \in State
  BY <1>2, <1>3
<1>5. /\ u.tick = s.tick + 1
      /\ u.trails = [s.trails EXCEPT ![{from, to}] = w]
      /\ u.round = s.round /\ u.alive = s.alive /\ u.pos = s.pos
      /\ u.score = s.score /\ u.rules = s.rules /\ u.owner = s.owner
      /\ u.cached = s.cached /\ u.slot = s.slot /\ u.pending = s.pending
      /\ u.over = s.over
  BY DEF State
<1>6. body \in EventBody
  BY <1>1 DEF EventBody
<1>7. Claimed(s, w, d) = Emit(u, "trail_claimed", body)
  BY DEF Claimed
<1>8. Claimed(s, w, d) \in State /\ SameGame(u, Claimed(s, w, d))
  BY <1>4, <1>6, <1>7, EmitType DEF EventType
<1> QED
  BY <1>5, <1>8 DEF SameGame

\* The state in which the dot that is left is settled and the worm has moved.
Moved(s, w, d) ==
  [Recolor(Claimed(s, w, d), w, s.pos[w]) EXCEPT !.pos[w] = Neighbor(s.pos[w], d)]

\* The state in which both dots are settled; Step then only kills, or not.
Arrived(s, w, d) == Recolor(Moved(s, w, d), w, Neighbor(s.pos[w], d))

\* The one state that Step returns.
Stepped(s, w, d) ==
  LET to == Neighbor(s.pos[w], d)
      t  == Emit(Arrived(s, w, d), "worm_moved",
                 [worm |-> w, at |-> s.pos[w], to |-> to])
  IN  IF MaskAt(t, to) = Dir THEN Kill(t, w, "worm_died") ELSE t

\* A move has one outcome.
LEMMA StepIsStepped ==
  ASSUME NEW s, NEW w, NEW d
  PROVE  Step(s, w, d) = {Stepped(s, w, d)}
<1> DEFINE from == s.pos[w]
           to == Neighbor(from, d)
           move == [worm |-> w, at |-> from, to |-> to]
           e == Emit(Arrived(s, w, d), "worm_moved", move)
<1>1. {Emit(Recolor(t, w, to), "worm_moved", move) :
         t \in {[Recolor(t, w, from) EXCEPT !.pos[w] = to] : t \in {Claimed(s, w, d)}}}
      = {e}
  BY DEF Arrived, Moved
<1>2. Step(s, w, d)
        = {IF MaskAt(t, to) = Dir THEN Kill(t, w, "worm_died") ELSE t : t \in {e}}
  BY <1>1 DEF Step, Claimed
<1> QED
  BY <1>2 DEF Stepped

\* Step kills the worm after the arrival, and only on a complete dot.
LEMMA StepStages ==
  ASSUME NEW s, NEW w, NEW d
  PROVE  LET to == Neighbor(s.pos[w], d)
             t  == Emit(Arrived(s, w, d), "worm_moved",
                        [worm |-> w, at |-> s.pos[w], to |-> to])
         IN  Stepped(s, w, d) = IF MaskAt(t, to) = Dir THEN Kill(t, w, "worm_died") ELSE t
BY DEF Stepped

\* Two states with the same owners, masks and scores.
SameScores(s, t) == t.owner = s.owner /\ t.cached = s.cached /\ t.score = s.score

\* After recolorCapture at the source and the move itself the worm is at the other
\* end and the source's mask is cached.
MoveDoes(s, w, d, t) ==
  LET c == Claimed(s, w, d)
  IN  /\ t \in State
      /\ t.tick = c.tick /\ t.round = s.round /\ t.alive = s.alive
      /\ t.rules = s.rules /\ t.trails = c.trails /\ t.slot = s.slot
      /\ t.pending = s.pending /\ t.over = s.over
      /\ t.pos = [s.pos EXCEPT ![w] = Neighbor(s.pos[w], d)]
      /\ t.cached = [s.cached EXCEPT ![s.pos[w]] = MaskAt(c, s.pos[w])]
      /\ SameScores(Recolor(c, w, s.pos[w]), t)

\* The first half of Step, with the move itself, does that.
LEMMA MovedEffect ==
  ASSUME NEW s \in State, NEW w \in Slot, NEW d \in Dir, CanStep(s, w, d)
  PROVE  MoveDoes(s, w, d, Moved(s, w, d))
<1> DEFINE c == Claimed(s, w, d)
           r == Recolor(c, w, s.pos[w])
           to == Neighbor(s.pos[w], d)
<1>1. s.pos[w] \in Point /\ to \in Point
  BY StepEdge
<1>2. /\ c \in State /\ c.round = s.round /\ c.alive = s.alive /\ c.pos = s.pos
      /\ c.rules = s.rules /\ c.slot = s.slot /\ c.pending = s.pending
      /\ c.over = s.over /\ c.cached = s.cached
  BY ClaimEffect
<1> HIDE DEF c
<1>3. /\ r \in State /\ r.tick = c.tick /\ r.round = c.round /\ r.alive = c.alive
      /\ r.pos = c.pos /\ r.rules = c.rules /\ r.trails = c.trails /\ r.slot = c.slot
      /\ r.pending = c.pending /\ r.over = c.over
      /\ r.cached = [c.cached EXCEPT ![s.pos[w]] = MaskAt(c, s.pos[w])]
  <2>1. RecolorDoes(c, w, s.pos[w], Recolor(c, w, s.pos[w]))
    BY <1>1, <1>2, RecolorEffect
  <2> QED
    BY <2>1 DEF RecolorDoes
<1> HIDE DEF r
<1>4. [r.pos EXCEPT ![w] = to] \in [Slot -> Point]
  BY <1>1, <1>3 DEF State
<1>5. \A f \in [Slot -> Point] : [r EXCEPT !.pos = f] \in State
  BY <1>3 DEF State
<1>6. Moved(s, w, d) = [r EXCEPT !.pos[w] = to]
  BY DEF Moved, r, c
<1>7. Moved(s, w, d) \in State
  BY <1>4, <1>5, <1>6
<1>8. LET t == Moved(s, w, d) IN
      /\ t.tick = r.tick /\ t.round = r.round /\ t.alive = r.alive
      /\ t.rules = r.rules /\ t.trails = r.trails /\ t.slot = r.slot
      /\ t.pending = r.pending /\ t.over = r.over /\ t.cached = r.cached
      /\ t.owner = r.owner /\ t.score = r.score
      /\ t.pos = [r.pos EXCEPT ![w] = to]
  BY <1>3, <1>6 DEF State
<1> QED
  BY <1>2, <1>3, <1>7, <1>8 DEF c, r, SameScores, MoveDoes

\* What one legal move does to a state.
StepDoes(s, w, d, t) ==
  LET from == s.pos[w]
      to   == Neighbor(from, d)
      a    == Arrived(s, w, d)
  IN  /\ t \in State
      /\ t.tick = s.tick + 1 /\ t.round = s.round /\ t.rules = s.rules
      /\ t.slot = s.slot /\ t.pending = s.pending /\ t.over = s.over
      /\ t.pos = [s.pos EXCEPT ![w] = to]
      /\ t.trails = [s.trails EXCEPT ![{from, to}] = w]
      /\ t.cached = a.cached /\ t.owner = a.owner /\ t.score = a.score
      /\ t.alive = IF MaskAt(t, to) = Dir THEN [s.alive EXCEPT ![w] = FALSE]
                                          ELSE s.alive

\* A legal move does that.
LEMMA StepEffect ==
  ASSUME NEW s \in State, NEW w \in Slot, NEW d \in Dir, CanStep(s, w, d)
  PROVE  StepDoes(s, w, d, Stepped(s, w, d))
<1> DEFINE from == s.pos[w]
           to == Neighbor(from, d)
           m == Moved(s, w, d)
           a == Arrived(s, w, d)
           body == [worm |-> w, at |-> from, to |-> to]
           e == Emit(a, "worm_moved", body)
<1>1. from \in Point /\ to \in Point
  BY StepEdge
<1>2. /\ m \in State /\ m.tick = s.tick + 1 /\ m.round = s.round /\ m.alive = s.alive
      /\ m.rules = s.rules /\ m.slot = s.slot /\ m.pending = s.pending /\ m.over = s.over
      /\ m.pos = [s.pos EXCEPT ![w] = to]
      /\ m.trails = [s.trails EXCEPT ![{from, to}] = w]
  <2> DEFINE c == Claimed(s, w, d)
  <2>1. c.tick = s.tick + 1 /\ c.trails = [s.trails EXCEPT ![{from, to}] = w]
    BY ClaimEffect
  <2>2. MoveDoes(s, w, d, m)
    BY MovedEffect
  <2> QED
    BY <2>1, <2>2 DEF MoveDoes
<1>9. a = Recolor(m, w, to)
  BY DEF Arrived
<1> HIDE DEF m, a
<1>3. /\ a \in State /\ a.tick = m.tick /\ a.round = m.round /\ a.alive = m.alive
      /\ a.pos = m.pos /\ a.rules = m.rules /\ a.trails = m.trails /\ a.slot = m.slot
      /\ a.pending = m.pending /\ a.over = m.over
  <2> HIDE DEF to
  <2>1. m \in State /\ to \in Point
    BY <1>1, <1>2 DEF to
  <2>2. LET r == Recolor(m, w, to) IN
        /\ r \in State /\ r.tick = m.tick /\ r.round = m.round /\ r.alive = m.alive
        /\ r.pos = m.pos /\ r.rules = m.rules /\ r.trails = m.trails
        /\ r.slot = m.slot /\ r.pending = m.pending /\ r.over = m.over
    <3>1. RecolorDoes(m, w, to, Recolor(m, w, to))
      BY <2>1, RecolorEffect
    <3> QED
      BY <3>1 DEF RecolorDoes
  <2> QED
    BY <2>2, <1>9
<1>4. body \in EventBody
  BY <1>1 DEF EventBody
<1>5. e \in State /\ SameGame(a, e)
  BY <1>3, <1>4, EmitType DEF EventType
<1>6. Stepped(s, w, d) = IF MaskAt(e, to) = Dir THEN Kill(e, w, "worm_died") ELSE e
  BY StepStages DEF a
<1> HIDE DEF e
<1>7. CASE MaskAt(e, to) = Dir
  <2>1. /\ Stepped(s, w, d) \in State
        /\ SameGame([e EXCEPT !.alive[w] = FALSE], Stepped(s, w, d))
    BY <1>5, <1>6, <1>7, KillType
  <2>4. \A f : LET u == [e EXCEPT !.alive = f] IN
          /\ u.alive = f /\ u.trails = e.trails /\ u.cached = e.cached
          /\ u.tick = e.tick /\ u.round = e.round /\ u.rules = e.rules
          /\ u.slot = e.slot /\ u.pending = e.pending /\ u.over = e.over
          /\ u.pos = e.pos /\ u.owner = e.owner /\ u.score = e.score
    BY <1>5 DEF State
  <2>2. LET t == Stepped(s, w, d) IN
        /\ t.alive = [e.alive EXCEPT ![w] = FALSE]
        /\ t.trails = e.trails /\ t.cached = e.cached /\ t.tick = e.tick
        /\ t.round = e.round /\ t.rules = e.rules /\ t.slot = e.slot
        /\ t.pending = e.pending /\ t.over = e.over /\ t.pos = e.pos
        /\ t.owner = e.owner /\ t.score = e.score
    BY <2>1, <2>4 DEF SameGame
  <2>3. MaskAt(Stepped(s, w, d), to) = Dir
    BY <1>7, <2>2 DEF MaskAt, TrailMask
  <2> QED
    BY <1>2, <1>3, <1>5, <2>1, <2>2, <2>3 DEF SameGame, StepDoes, m, a
<1>8. CASE MaskAt(e, to) # Dir
  BY <1>2, <1>3, <1>5, <1>6, <1>8 DEF SameGame, StepDoes, m, a
<1> QED
  BY <1>7, <1>8

------------------------------------------------------------------------------
(* The board invariant: no cached mask is stale, a dot has an owner exactly    *)
(* when it is complete, and a score counts the dots its worm owns.             *)

Owned(s) == \A p \in Point : s.owner[p] # None <=> s.cached[p] = Dir

Dots(owner, w) == {p \in Point : owner[p] = w}

Scored(s) == \A w \in Slot : s.score[w] = Cardinality(Dots(s.owner, w))

\* A board has finitely many dots.
LEMMA PointFinite == IsFiniteSet(Point)
<1>1. /\ IsFiniteSet(Origin .. Origin + Width - 1)
      /\ IsFiniteSet(Origin .. Origin + Height - 1)
  BY FS_Interval, LatticeAssumption DEF Origin
<1> QED
  BY <1>1, FS_Product DEF Point

\* recolorCapture keeps every score equal to the number of dots the worm owns.
LEMMA RecolorKeepsScores ==
  ASSUME NEW s \in State, NEW w \in Slot, NEW p \in Point, Owned(s), Scored(s)
  PROVE  Owned(Recolor(s, w, p)) /\ Scored(Recolor(s, w, p))
<1> DEFINE t == Recolor(s, w, p)
           m == MaskAt(s, p)
           gain == s.owner[p] = None /\ m = Dir
<1>1. /\ t.cached = [s.cached EXCEPT ![p] = m]
      /\ t.owner = IF gain THEN [s.owner EXCEPT ![p] = w] ELSE s.owner
      /\ t.score = IF gain THEN [s.score EXCEPT ![w] = s.score[w] + 1] ELSE s.score
  <2>1. RecolorDoes(s, w, p, Recolor(s, w, p))
    BY RecolorEffect
  <2> QED
    BY <2>1 DEF RecolorDoes
<1>2. /\ s.cached \in [Point -> Mask] /\ s.owner \in [Point -> Slot \cup {None}]
      /\ s.score \in [Slot -> Nat] /\ m \in Mask
  BY MaskType DEF State
<1>3. w # None
  BY DEF Slot, None
<1>4. s.owner[p] # None => m = Dir
  <2>1. s.owner[p] # None => s.cached[p] = Dir
    BY DEF Owned
  <2> QED
    BY <1>2, <2>1 DEF MaskAt, Mask
<1> HIDE DEF t, m
<1>5. Owned(t)
  BY <1>1, <1>2, <1>3, <1>4 DEF Owned
<1>6. ASSUME ~gain PROVE Scored(t)
  BY <1>1, <1>6 DEF Scored
<1>7. ASSUME gain PROVE Scored(t)
  <2>1. ASSUME NEW v \in Slot
        PROVE  t.score[v] = Cardinality(Dots(t.owner, v))
    <3> DEFINE before == Dots(s.owner, v)
               after == Dots(t.owner, v)
    <3>1. s.score[v] = Cardinality(before)
      BY DEF Scored
    <3>2. CASE v = w
      <4>1. after = before \cup {p} /\ p \notin before
        BY <1>1, <1>2, <1>3, <1>7, <3>2 DEF Dots
      <4>2. IsFiniteSet(before)
        BY PointFinite, FS_Subset DEF Dots
      <4>3. Cardinality(after) = Cardinality(before) + 1
        BY <4>1, <4>2, FS_AddElement
      <4> QED
        BY <1>1, <1>2, <1>7, <3>1, <3>2, <4>3
    <3>3. CASE v # w
      <4>1. after = before
        BY <1>1, <1>2, <1>7, <3>3 DEF Dots, Slot, None
      <4> QED
        BY <1>1, <1>2, <1>7, <3>1, <3>3, <4>1
    <3> QED
      BY <3>2, <3>3
  <2> QED
    BY <2>1 DEF Scored
<1> QED
  BY <1>5, <1>6, <1>7 DEF t

\* That equality depends on the owners, the cached masks and the scores only.
LEMMA SameScoresKeep ==
  ASSUME NEW s, NEW t, SameScores(s, t), Owned(s), Scored(s)
  PROVE  Owned(t) /\ Scored(t)
BY DEF SameScores, Owned, Scored

\* Step keeps every score equal to the number of dots the worm owns.
LEMMA StepKeepsScores ==
  ASSUME NEW s \in State, NEW w \in Slot, NEW d \in Dir, CanStep(s, w, d),
         Owned(s), Scored(s)
  PROVE  Owned(Stepped(s, w, d)) /\ Scored(Stepped(s, w, d))
<1> DEFINE c == Claimed(s, w, d)
           r == Recolor(c, w, s.pos[w])
           m == Moved(s, w, d)
           a == Arrived(s, w, d)
           to == Neighbor(s.pos[w], d)
<1>1. s.pos[w] \in Point /\ to \in Point
  BY StepEdge
<1>2. c \in State /\ SameScores(s, c)
  BY ClaimEffect DEF SameScores
<1>3. Owned(c) /\ Scored(c)
  BY <1>2, SameScoresKeep
<1>4. Owned(r) /\ Scored(r)
  <2> HIDE DEF c
  <2> QED
    BY <1>1, <1>2, <1>3, RecolorKeepsScores
<1>5. m \in State /\ SameScores(r, m)
  <2>1. MoveDoes(s, w, d, Moved(s, w, d))
    BY MovedEffect
  <2> QED
    BY <2>1 DEF MoveDoes
<1>6. Owned(m) /\ Scored(m)
  <2> HIDE DEF r, m
  <2> QED
    BY <1>4, <1>5, SameScoresKeep
<1>7. Owned(a) /\ Scored(a)
  <2> HIDE DEF m
  <2>1. a = Recolor(m, w, to)
    BY DEF Arrived, m
  <2> QED
    BY <1>1, <1>5, <1>6, <2>1, RecolorKeepsScores
<1>8. SameScores(a, Stepped(s, w, d))
  <2>1. StepDoes(s, w, d, Stepped(s, w, d))
    BY StepEffect
  <2> QED
    BY <2>1 DEF StepDoes, SameScores
<1> QED
  <2> HIDE DEF a
  <2> QED
    BY <1>7, <1>8, SameScoresKeep

\* A new trail adds a spoke to the patterns of its two ends and leaves all others
\* alone.
LEMMA TrailMaskGrows ==
  ASSUME NEW s \in State, NEW t \in State, NEW e \in Edge, NEW w \in Slot,
         t.trails = [s.trails EXCEPT ![e] = w], NEW p
  PROVE  /\ TrailMask(s, p) \subseteq TrailMask(t, p)
         /\ p \notin e => TrailMask(t, p) = TrailMask(s, p)
<1>1. s.trails \in [Edge -> Slot \cup {None}] /\ w # None
  BY DEF State, Slot, None
<1>2. \A d \in Dir : p \in EdgeOf(p, d)
  BY DEF EdgeOf
<1>3. \A d \in Dir : EdgeOf(p, d) \in Edge /\ s.trails[EdgeOf(p, d)] # None =>
                       t.trails[EdgeOf(p, d)] # None
  BY <1>1
<1>4. p \notin e => \A d \in Dir : EdgeOf(p, d) \in Edge =>
                       t.trails[EdgeOf(p, d)] = s.trails[EdgeOf(p, d)]
  BY <1>1, <1>2
<1> QED
  BY <1>3, <1>4 DEF TrailMask

\* The two dots at the ends of the spoke just taken are the only ones whose
\* pattern changes, and both are refreshed.
LEMMA StepKeepsFresh ==
  ASSUME NEW s \in State, NEW w \in Slot, NEW d \in Dir, CanStep(s, w, d), Fresh(s)
  PROVE  Fresh(Stepped(s, w, d))
<1> DEFINE from == s.pos[w]
           to == Neighbor(from, d)
           c == Claimed(s, w, d)
           m == Moved(s, w, d)
           t == Stepped(s, w, d)
<1>1. from \in Point /\ to \in Point /\ {from, to} \in Edge
  BY StepEdge
<1>2. t \in State /\ t.trails = [s.trails EXCEPT ![{from, to}] = w]
  <2>1. StepDoes(s, w, d, t)
    BY StepEffect
  <2> QED
    BY <2>1 DEF StepDoes
<1>3. c \in State /\ c.trails = [s.trails EXCEPT ![{from, to}] = w] /\ c.cached = s.cached
  <2>1. c \in State /\ c.cached = s.cached
    BY ClaimEffect
  <2>2. c.trails = [s.trails EXCEPT ![{from, to}] = w]
    BY ClaimEffect
  <2> QED
    BY <2>1, <2>2
<1>4. m \in State /\ m.trails = c.trails
  <2>1. MoveDoes(s, w, d, m)
    BY MovedEffect
  <2> QED
    BY <2>1 DEF MoveDoes
<1>5. m.cached = [s.cached EXCEPT ![from] = MaskAt(c, from)]
  <2>1. SameScores(Recolor(c, w, from), m)
    <3>1. MoveDoes(s, w, d, Moved(s, w, d))
      BY MovedEffect
    <3> QED
      BY <3>1 DEF MoveDoes
  <2>2. Recolor(c, w, from).cached = [c.cached EXCEPT ![from] = MaskAt(c, from)]
    <3>1. c \in State /\ from \in Point
      BY <1>1, <1>3
    <3> HIDE DEF c, from
    <3>2. LET r == Recolor(c, w, from) IN
            r.cached = [c.cached EXCEPT ![from] = MaskAt(c, from)]
      <4>1. RecolorDoes(c, w, from, Recolor(c, w, from))
        BY <3>1, RecolorEffect
      <4> QED
        BY <4>1 DEF RecolorDoes
    <3> QED
      BY <3>2
  <2> HIDE DEF c, from, m
  <2> QED
    BY <1>3, <2>1, <2>2 DEF SameScores
<1>6. t.cached = [m.cached EXCEPT ![to] = MaskAt(m, to)]
  <2>1. t.cached = Arrived(s, w, d).cached
    <3>1. StepDoes(s, w, d, Stepped(s, w, d))
      BY StepEffect
    <3> QED
      BY <3>1 DEF StepDoes
  <2>2. Arrived(s, w, d) = Recolor(m, w, to)
    BY DEF Arrived
  <2>3. Recolor(m, w, to).cached = [m.cached EXCEPT ![to] = MaskAt(m, to)]
    <3>1. m \in State /\ to \in Point
      BY <1>1, <1>4
    <3> HIDE DEF m, to
    <3>2. LET r == Recolor(m, w, to) IN r.cached = [m.cached EXCEPT ![to] = MaskAt(m, to)]
      <4>1. RecolorDoes(m, w, to, Recolor(m, w, to))
        BY <3>1, RecolorEffect
      <4> QED
        BY <4>1 DEF RecolorDoes
    <3> QED
      BY <3>2
  <2> QED
    BY <2>1, <2>2, <2>3
<1>7. /\ \A p : TrailMask(s, p) \subseteq TrailMask(t, p)
      /\ \A p : p \notin {from, to} => TrailMask(t, p) = TrailMask(s, p)
  <2> DEFINE e == {from, to}
  <2>1. e \in Edge /\ t.trails = [s.trails EXCEPT ![e] = w] /\ t \in State
    BY <1>1, <1>2
  <2> HIDE DEF t, e
  <2>2. \A p : /\ TrailMask(s, p) \subseteq TrailMask(t, p)
               /\ p \notin e => TrailMask(t, p) = TrailMask(s, p)
    BY <2>1, TrailMaskGrows
  <2> QED
    BY <2>2 DEF e
<1>8. \A p : TrailMask(c, p) = TrailMask(t, p) /\ TrailMask(m, p) = TrailMask(t, p)
  BY <1>2, <1>3, <1>4, TrailMaskOfTrails
<1>9. s.cached \in [Point -> Mask] /\ \A p \in Point : s.cached[p] = TrailMask(s, p)
  BY DEF State, Fresh
<1> HIDE DEF from, to, c, m, t
<1>10. MaskAt(c, from) = TrailMask(t, from)
  BY <1>1, <1>3, <1>7, <1>8, <1>9 DEF MaskAt
<1>11. MaskAt(m, to) = TrailMask(t, to)
  BY <1>1, <1>5, <1>7, <1>8, <1>9, <1>10 DEF MaskAt
<1>12. \A p \in Point : t.cached[p] = TrailMask(t, p)
  BY <1>1, <1>5, <1>6, <1>7, <1>9, <1>10, <1>11
<1> QED
  BY <1>12 DEF Fresh, t


------------------------------------------------------------------------------
(* The inductive invariant of the board, and what no operation ever undoes.    *)

Apart(s) ==
  ~Classic => \A v, w \in Slot : v # w /\ s.alive[v] /\ s.alive[w] => s.pos[v] # s.pos[w]

Sound(s) ==
  /\ Fresh(s)
  /\ Owned(s)
  /\ Scored(s)
  /\ Apart(s)
  /\ \A w \in Slot : ValidRules(s.rules[w])

NothingLost(s, t) ==
  /\ \A e \in Edge : s.trails[e] # None => t.trails[e] = s.trails[e]
  /\ \A p \in Point : s.owner[p] # None => t.owner[p] = s.owner[p]
  /\ \A w \in Slot :
       /\ ~s.alive[w] => ~t.alive[w] /\ t.pos[w] = s.pos[w]
       /\ \A m \in Mask : s.rules[w][m] \in Dir => t.rules[w][m] = s.rules[w][m]

\* From s the engine may come to t.
Leads(s, t) == t \in State /\ Sound(t) /\ NothingLost(s, t)

\* Reaching later sound states is transitive.
LEMMA LeadsOn ==
  ASSUME NEW r, NEW s, NEW t, Leads(r, s), Leads(s, t)
  PROVE  Leads(r, t)
<1>1. NothingLost(r, s) /\ NothingLost(s, t)
  BY DEF Leads
<1>2. NothingLost(r, t)
  <2>1. \A e \in Edge : r.trails[e] # None => t.trails[e] = r.trails[e]
    BY <1>1 DEF NothingLost
  <2>2. \A p \in Point : r.owner[p] # None => t.owner[p] = r.owner[p]
    BY <1>1 DEF NothingLost
  <2>3. \A w \in Slot : ~r.alive[w] => ~t.alive[w] /\ t.pos[w] = r.pos[w]
    BY <1>1 DEF NothingLost
  <2>4. \A w \in Slot : \A m \in Mask : r.rules[w][m] \in Dir => t.rules[w][m] = r.rules[w][m]
    BY <1>1 DEF NothingLost
  <2> QED
    BY <2>1, <2>2, <2>3, <2>4 DEF NothingLost
<1> QED
  BY <1>2 DEF Leads

\* The bookkeeping of a handler leaves the board as it is; at most it kills.
SameBoard(s, t) ==
  /\ t.rules = s.rules /\ t.trails = s.trails /\ t.owner = s.owner
  /\ t.cached = s.cached /\ t.score = s.score /\ t.pos = s.pos
  /\ \A w \in Slot : t.alive[w] => s.alive[w]

\* A state with the same board and tables, and nobody revived, is sound again.
LEMMA SameBoardLeads ==
  ASSUME NEW s \in State, NEW t \in State, Sound(s), SameBoard(s, t)
  PROVE  Leads(s, t)
<1>1. Fresh(t)
  BY DEF Fresh, Sound, SameBoard, TrailMask
<1>2. Owned(t) /\ Scored(t)
  BY DEF Owned, Scored, Sound, SameBoard
<1>3. Apart(t) /\ \A w \in Slot : ValidRules(t.rules[w])
  BY DEF Apart, Sound, SameBoard
<1>4. NothingLost(s, t)
  BY DEF NothingLost, SameBoard
<1> QED
  BY <1>1, <1>2, <1>3, <1>4 DEF Leads, Sound

\* A state that differs in its events only is sound again.
LEMMA SameGameLeads ==
  ASSUME NEW s \in State, NEW t \in State, Sound(s), SameGame(s, t)
  PROVE  Leads(s, t)
BY SameBoardLeads DEF SameBoard, SameGame

\* A dot keeps its owner, or has none and may get w.
OwnersKept(s, t, w) ==
  \A q \in Point : t.owner[q] = s.owner[q] \/ (s.owner[q] = None /\ t.owner[q] = w)

\* recolorCapture takes no dot away from its owner.
LEMMA RecolorKeepsOwners ==
  ASSUME NEW s \in State, NEW w \in Slot, NEW p \in Point
  PROVE  OwnersKept(s, Recolor(s, w, p), w)
<1> DEFINE t == Recolor(s, w, p)
           gain == s.owner[p] = None /\ MaskAt(s, p) = Dir
<1>1. t.owner = IF gain THEN [s.owner EXCEPT ![p] = w] ELSE s.owner
  <2>1. RecolorDoes(s, w, p, Recolor(s, w, p))
    BY RecolorEffect
  <2> QED
    BY <2>1 DEF RecolorDoes
<1>2. s.owner \in [Point -> Slot \cup {None}]
  BY DEF State
<1> HIDE DEF t
<1> QED
  BY <1>1, <1>2 DEF t, OwnersKept

\* Step takes no dot away from its owner.
LEMMA StepKeepsOwners ==
  ASSUME NEW s \in State, NEW w \in Slot, NEW d \in Dir, CanStep(s, w, d)
  PROVE  OwnersKept(s, Stepped(s, w, d), w)
<1> DEFINE c == Claimed(s, w, d)
           r == Recolor(c, w, s.pos[w])
           m == Moved(s, w, d)
           to == Neighbor(s.pos[w], d)
<1>1. s.pos[w] \in Point /\ to \in Point
  BY StepEdge
<1>2. c \in State /\ c.owner = s.owner
  BY ClaimEffect
<1>3. m \in State /\ SameScores(r, m)
  <2>1. MoveDoes(s, w, d, Moved(s, w, d))
    BY MovedEffect
  <2> QED
    BY <2>1 DEF MoveDoes
<1>4. Stepped(s, w, d).owner = Recolor(m, w, to).owner
  <2>1. Stepped(s, w, d).owner = Arrived(s, w, d).owner
    <3>1. StepDoes(s, w, d, Stepped(s, w, d))
      BY StepEffect
    <3> QED
      BY <3>1 DEF StepDoes
  <2> QED
    BY <2>1 DEF Arrived
<1>5. OwnersKept(c, r, w)
  <2> HIDE DEF c
  <2> QED
    BY <1>1, <1>2, RecolorKeepsOwners
<1>6. OwnersKept(m, Recolor(m, w, to), w)
  <2> HIDE DEF m
  <2> QED
    BY <1>1, <1>3, RecolorKeepsOwners
<1> HIDE DEF c, r, m, to
<1> QED
  BY <1>2, <1>3, <1>4, <1>5, <1>6 DEF SameScores, OwnersKept

\* A worm moves to a dot that nobody occupies, so modern worms stay apart.
LEMMA StepKeepsApart ==
  ASSUME NEW s \in State, NEW w \in Slot, NEW d \in Dir, CanStep(s, w, d), Apart(s)
  PROVE  /\ Apart(Stepped(s, w, d))
         /\ \A v \in Slot : Stepped(s, w, d).alive[v] => s.alive[v]
<1> DEFINE to == Neighbor(s.pos[w], d)
           t == Stepped(s, w, d)
<1>1. /\ t.pos = [s.pos EXCEPT ![w] = to]
      /\ t.alive = IF MaskAt(t, to) = Dir THEN [s.alive EXCEPT ![w] = FALSE] ELSE s.alive
  <2>1. StepDoes(s, w, d, t)
    BY StepEffect
  <2> QED
    BY <2>1 DEF StepDoes
<1>2. s.alive \in [Slot -> BOOLEAN] /\ s.pos \in [Slot -> Point]
  BY DEF State
<1>3. ~Classic => \A v \in Slot : s.alive[v] => s.pos[v] # to
  BY DEF CanStep, WormAt
<1> HIDE DEF to, t
<1>4. \A v \in Slot : t.alive[v] => s.alive[v]
  BY <1>1, <1>2
<1>5. ASSUME ~Classic, NEW u \in Slot, NEW v \in Slot, u # v, t.alive[u], t.alive[v]
      PROVE  t.pos[u] # t.pos[v]
  <2>1. s.alive[u] /\ s.alive[v]
    BY <1>4, <1>5
  <2>2. CASE u = w
    BY <1>1, <1>2, <1>3, <1>5, <2>1, <2>2
  <2>3. CASE v = w
    BY <1>1, <1>2, <1>3, <1>5, <2>1, <2>3
  <2>4. CASE u # w /\ v # w
    BY <1>1, <1>2, <1>5, <2>1, <2>4 DEF Apart
  <2> QED
    BY <2>2, <2>3, <2>4
<1> QED
  BY <1>4, <1>5 DEF Apart, t

\* Step leads from a sound state to a later sound state.
LEMMA StepLeads ==
  ASSUME NEW s \in State, NEW w \in Slot, NEW d \in Dir, CanStep(s, w, d), Sound(s)
  PROVE  Leads(s, Stepped(s, w, d))
<1> DEFINE from == s.pos[w]
           to == Neighbor(from, d)
           t == Stepped(s, w, d)
<1>1. from \in Point /\ to \in Point /\ {from, to} \in Edge
  BY StepEdge
<1> StepDoes(s, w, d, t)
  BY StepEffect
<1>2. t \in State /\ t.rules = s.rules
  BY DEF StepDoes
<1>3. t.pos = [s.pos EXCEPT ![w] = to]
  BY DEF StepDoes
<1>4. t.trails = [s.trails EXCEPT ![{from, to}] = w]
  BY DEF StepDoes
<1>5. t.alive = IF MaskAt(t, to) = Dir THEN [s.alive EXCEPT ![w] = FALSE] ELSE s.alive
  BY DEF StepDoes
<1>6. /\ ~s.over /\ s.alive[w] /\ s.trails[{from, to}] = None
      /\ ~Classic => ~WormAt(s, to)
  BY DEF CanStep
<1>7. /\ s.alive \in [Slot -> BOOLEAN] /\ s.pos \in [Slot -> Point]
      /\ s.trails \in [Edge -> Slot \cup {None}]
  BY DEF State
<1>8. Fresh(t) /\ Owned(t) /\ Scored(t)
  BY StepKeepsFresh, StepKeepsScores DEF Sound
<1>9. \A q \in Point : s.owner[q] # None => t.owner[q] = s.owner[q]
  BY StepKeepsOwners DEF OwnersKept
<1>11. Apart(t)
  BY StepKeepsApart DEF Sound
<1> HIDE DEF from, to, t
<1>12. \A v \in Slot : ValidRules(t.rules[v])
  BY <1>2 DEF Sound
<1>13. NothingLost(s, t)
  <2>1. \A e \in Edge : s.trails[e] # None => t.trails[e] = s.trails[e]
    BY <1>1, <1>4, <1>6, <1>7
  <2>2. \A v \in Slot : ~s.alive[v] => ~t.alive[v] /\ t.pos[v] = s.pos[v]
    BY <1>3, <1>5, <1>6, <1>7
  <2> QED
    BY <1>2, <1>9, <2>1, <2>2 DEF NothingLost
<1> QED
  BY <1>2, <1>8, <1>11, <1>12, <1>13 DEF Leads, Sound, t

\* kill leads to a later sound state and touches the life of one worm only.
LEMMA KillLeads ==
  ASSUME NEW s \in State, Sound(s), NEW w \in Slot,
         NEW cause \in {"worm_died", "worm_blocked"}
  PROVE  LET t == Kill(s, w, cause) IN
         /\ Leads(s, t)
         /\ t.pending = s.pending /\ t.slot = s.slot /\ t.over = s.over
         /\ t.round = s.round /\ t.tick = s.tick /\ t.trails = s.trails
         /\ t.alive = [s.alive EXCEPT ![w] = FALSE]
<1> DEFINE u == [s EXCEPT !.alive[w] = FALSE]
           t == Kill(s, w, cause)
<1>1. t \in State /\ SameGame(u, t)
  BY KillType
<1>2. /\ u.alive = [s.alive EXCEPT ![w] = FALSE]
      /\ u.rules = s.rules /\ u.trails = s.trails /\ u.owner = s.owner
      /\ u.cached = s.cached /\ u.score = s.score /\ u.pos = s.pos
      /\ u.pending = s.pending /\ u.slot = s.slot /\ u.over = s.over
      /\ u.round = s.round /\ u.tick = s.tick
  BY DEF State
<1>3. s.alive \in [Slot -> BOOLEAN]
  BY DEF State
<1> HIDE DEF u, t
<1>4. SameBoard(s, t)
  BY <1>1, <1>2, <1>3 DEF SameGame, SameBoard
<1>5. Leads(s, t)
  BY <1>1, <1>4, SameBoardLeads
<1> QED
  BY <1>1, <1>2, <1>5 DEF SameGame, t

\* What a move leaves alone: the decision, the slot and the end of the game.
SameTurn(s, t) == t.pending = s.pending /\ t.slot = s.slot /\ t.over = s.over

\* A move learned under a pattern is an exit that the pattern leaves free, so a
\* table stays acceptable; nothing but that one entry changes.
LEMMA LearnEffect ==
  ASSUME NEW s \in State, \A v \in Slot : ValidRules(s.rules[v]),
         NEW w \in Slot, NEW m \in Mask, NEW d \in Dir, d \notin m
  PROVE  LET t == Learn(s, w, m, d) IN
         /\ t \in State
         /\ t.rules = [s.rules EXCEPT ![w][m] = d]
         /\ SameGame([s EXCEPT !.rules = t.rules], t)
         /\ \A v \in Slot : ValidRules(t.rules[v])
<1> DEFINE rules == [s.rules EXCEPT ![w][m] = d]
           u == [s EXCEPT !.rules[w][m] = d]
           body == [worm |-> w, mask |-> m, action |-> d]
           t == Learn(s, w, m, d)
<1>1. s.rules \in [Slot -> [Mask -> Action]]
  BY DEF State
<1>2. rules \in [Slot -> [Mask -> Action]]
  BY <1>1 DEF Action
<1>3. \A f \in [Slot -> [Mask -> Action]] : [s EXCEPT !.rules = f] \in State
  BY DEF State
<1>16. u = [s EXCEPT !.rules = rules]
  OBVIOUS
<1>4. u \in State
  <2> HIDE DEF rules, u
  <2> QED
    BY <1>2, <1>3, <1>16
<1>5. u.rules = rules
  BY DEF State
<1>6. body \in EventBody
  BY DEF EventBody
<1>7. t \in State /\ SameGame(u, t)
  BY <1>4, <1>6, EmitType DEF Learn, EventType
<1>8. ASSUME NEW v \in Slot PROVE ValidRules(rules[v])
  <2>1. ValidRules(s.rules[v])
    OBVIOUS
  <2>2. CASE v # w
    BY <1>1, <2>1, <2>2
  <2>3. CASE v = w
    <3>1. rules[v] = [s.rules[w] EXCEPT ![m] = d]
      BY <1>1, <2>3
    <3>2. ASSUME NEW e \in Dir, m = Dir \ {e} PROVE d = e
      BY <3>2
    <3>3. m # Dir
      OBVIOUS
    <3> HIDE DEF rules
    <3>4. rules[v] \in [Mask -> Action]
      BY <1>2
    <3>5. \A n \in Mask : rules[v][n] = IF n = m THEN d ELSE s.rules[w][n]
      BY <1>1, <3>1
    <3>6. \A n \in Mask : rules[v][n] \in Dir => rules[v][n] \notin n
      BY <2>1, <2>3, <3>5 DEF ValidRules
    <3>7. \A e \in Dir : Dir \ {e} \in Mask /\ Dir \in Mask
      BY DEF Mask
    <3>8. \A e \in Dir : rules[v][Dir \ {e}] = e
      BY <2>1, <2>3, <3>2, <3>5, <3>7 DEF ValidRules
    <3>9. rules[v][Dir] = DIE
      BY <2>1, <2>3, <3>3, <3>5, <3>7 DEF ValidRules
    <3> QED
      BY <3>4, <3>6, <3>8, <3>9 DEF ValidRules
  <2> QED
    BY <2>2, <2>3
<1> HIDE DEF u, t, rules
<1>9. t.rules = rules
  BY <1>5, <1>7 DEF SameGame
<1>10. SameGame([s EXCEPT !.rules = t.rules], t)
  BY <1>7, <1>9, <1>16
<1>11. t.rules = [s.rules EXCEPT ![w][m] = d]
  BY <1>9 DEF rules
<1>12. \A v \in Slot : ValidRules(t.rules[v])
  BY <1>8, <1>9
<1> QED
  BY <1>7, <1>10, <1>11, <1>12 DEF t

\* It replaces a sentinel, never another move.
LEMMA LearnLeads ==
  ASSUME NEW s \in State, Sound(s), NEW w \in Slot, NEW m \in Mask, NEW d \in Dir,
         d \notin m, s.rules[w][m] \notin Dir
  PROVE  Leads(s, Learn(s, w, m, d)) /\ SameTurn(s, Learn(s, w, m, d))
<1> DEFINE t == Learn(s, w, m, d)
           u == [s EXCEPT !.rules = t.rules]
<1>1. \A v \in Slot : ValidRules(s.rules[v])
  BY DEF Sound
<1>2. /\ t \in State /\ SameGame(u, t)
      /\ t.rules = [s.rules EXCEPT ![w][m] = d]
      /\ \A v \in Slot : ValidRules(t.rules[v])
  BY <1>1, LearnEffect
<1>3. s.rules \in [Slot -> [Mask -> Action]]
  BY DEF State
<1> HIDE DEF t
<1>5. /\ u.tick = s.tick /\ u.round = s.round /\ u.alive = s.alive
      /\ u.pos = s.pos /\ u.score = s.score /\ u.trails = s.trails
      /\ u.owner = s.owner /\ u.cached = s.cached /\ u.slot = s.slot
      /\ u.pending = s.pending /\ u.over = s.over
  BY DEF State
<1>9. \A v \in Slot : \A n \in Mask : s.rules[v][n] \in Dir => t.rules[v][n] = s.rules[v][n]
  BY <1>2, <1>3
<1> HIDE DEF u
<1>10. Fresh(t)
  BY <1>2, <1>5 DEF Fresh, Sound, SameGame, TrailMask
<1>11. Owned(t) /\ Scored(t)
  BY <1>2, <1>5 DEF Owned, Scored, Sound, SameGame
<1>12. Apart(t)
  BY <1>2, <1>5 DEF Apart, Sound, SameGame
<1>14. NothingLost(s, t)
  BY <1>2, <1>5, <1>9 DEF SameGame, NothingLost
<1>15. Leads(s, t)
  BY <1>2, <1>10, <1>11, <1>12, <1>14 DEF Leads, Sound
<1>17. SameTurn(s, t)
  BY <1>2, <1>5 DEF SameGame, SameTurn
<1> QED
  BY <1>15, <1>17 DEF t

------------------------------------------------------------------------------
(* One slot of the scan.                                                       *)

\* Recording the use of a rule changes nothing but the events.
LEMMA UseRuleType ==
  ASSUME NEW s \in State, NEW w \in Slot, NEW m \in Mask, NEW d \in Dir
  PROVE  UseRule(s, w, m, d) \in State /\ SameGame(s, UseRule(s, w, m, d))
<1>1. [worm |-> w, mask |-> m, action |-> d] \in EventBody
  BY DEF EventBody
<1>2. "rule_used" \in EventType
  BY DEF EventType
<1> QED
  BY <1>1, <1>2, EmitType DEF UseRule

\* So it leads to a sound state.
LEMMA UseRuleLeads ==
  ASSUME NEW s \in State, Sound(s), NEW w \in Slot, NEW m \in Mask, NEW d \in Dir
  PROVE  /\ UseRule(s, w, m, d) \in State
         /\ SameGame(s, UseRule(s, w, m, d))
         /\ Leads(s, UseRule(s, w, m, d))
<1>1. UseRule(s, w, m, d) \in State /\ SameGame(s, UseRule(s, w, m, d))
  BY UseRuleType
<1> HIDE DEF UseRule
<1> QED
  BY <1>1, SameGameLeads

\* Following a remembered direction leads to a later sound state of the same turn.
LEMMA FollowLeads ==
  ASSUME NEW s \in State, Sound(s), NEW w \in Slot, NEW m \in Mask, NEW d \in Dir,
         NEW t \in Follow(s, w, m, d)
  PROVE  Leads(s, t) /\ SameTurn(s, t)
<1> DEFINE u == UseRule(s, w, m, d)
<1>1. u \in State /\ SameGame(s, u) /\ Leads(s, u)
  BY UseRuleLeads
<1>2. CanStep(u, w, d) /\ t = Stepped(u, w, d)
  BY StepIsStepped DEF Follow
<1> HIDE DEF u
<1>3. Sound(u)
  BY <1>1 DEF Leads
<1>4. Leads(u, t)
  BY <1>1, <1>2, <1>3, StepLeads
<1>5. SameTurn(u, t)
  <2>1. StepDoes(u, w, d, Stepped(u, w, d))
    BY <1>1, <1>2, StepEffect
  <2> QED
    BY <1>2, <2>1 DEF StepDoes, SameTurn
<1> QED
  BY <1>1, <1>4, <1>5, LeadsOn DEF SameTurn, SameGame

\* A question is put on record, and nothing else changes.
LEMMA AskEffect ==
  ASSUME NEW s \in State, NEW w \in Slot, NEW m \in Mask
  PROVE  LET t == Ask(s, w, m) IN
         /\ t \in State /\ SameGame([s EXCEPT !.pending = t.pending], t)
         /\ t.pending = [slot |-> w, mask |-> m, request |-> t.seq]
         /\ t.pending # NoDecision
<1> DEFINE decision == [slot |-> w, mask |-> m, request |-> s.seq + 1]
           u == [s EXCEPT !.pending = decision]
           body == [worm |-> w, mask |-> m, request |-> s.seq + 1]
           t == Ask(s, w, m)
<1>1. s.seq + 1 \in Nat
  BY DEF State
<1>2. decision \in Decision /\ body \in EventBody
  BY <1>1 DEF Decision, EventBody
<1>3. /\ \A f \in Decision : [s EXCEPT !.pending = f] \in State
      /\ \A f : [s EXCEPT !.pending = f].pending = f /\ [s EXCEPT !.pending = f].seq = s.seq
  BY DEF State
<1>4. u \in State /\ u.pending = decision /\ u.seq = s.seq
  BY <1>2, <1>3
<1>5. t = Emit(u, "decision_pending", body)
  BY DEF Ask
<1> HIDE DEF t
<1>6. t \in State /\ SameGame(u, t)
  BY <1>2, <1>4, <1>5, EmitType DEF EventType
<1>7. t.seq = u.seq + 1
  <2> HIDE DEF u
  <2>1. \A x, y : [u EXCEPT !.seq = x, !.events = y].seq = x
    BY <1>4 DEF State
  <2> QED
    BY <1>5, <2>1 DEF Emit
<1>8. t.pending = decision
  BY <1>4, <1>6 DEF SameGame
<1>9. decision # NoDecision
  <2>1. decision.slot = w /\ NoDecision.slot = None /\ w # None
    BY DEF NoDecision, Slot, None
  <2> QED
    BY <2>1
<1>10. t.pending = [slot |-> w, mask |-> m, request |-> t.seq]
  BY <1>4, <1>7, <1>8
<1> QED
  BY <1>6, <1>8, <1>9, <1>10 DEF t

\* A question is asked under the pattern that its worm sees.
LEMMA AskLeads ==
  ASSUME NEW s \in State, Sound(s), NEW w \in Slot, s.slot = w, s.alive[w],
         s.rules[w][MaskAt(s, s.pos[w])] = GETNEW, LegalMoves(s, w) # {}
  PROVE  LET t == Ask(s, w, MaskAt(s, s.pos[w]))
         IN  Leads(s, t) /\ PendingCurrent(t) /\ t.slot = s.slot /\ t.over = s.over
<1> DEFINE m == MaskAt(s, s.pos[w])
           t == Ask(s, w, m)
           u == [s EXCEPT !.pending = t.pending]
<1>1. m \in Mask
  <2>1. s.pos[w] \in Point
    BY DEF State
  <2> QED
    BY <2>1, MaskType
<1> HIDE DEF m
<1>2. /\ t \in State /\ SameGame(u, t)
      /\ t.pending = [slot |-> w, mask |-> m, request |-> t.seq]
  BY <1>1, AskEffect
<1> HIDE DEF t
<1>3. /\ u.pending = t.pending /\ u.tick = s.tick /\ u.round = s.round /\ u.alive = s.alive
      /\ u.pos = s.pos /\ u.score = s.score /\ u.trails = s.trails /\ u.rules = s.rules
      /\ u.owner = s.owner /\ u.cached = s.cached /\ u.slot = s.slot
      /\ u.over = s.over
  BY DEF State
<1> HIDE DEF u
<1>4. t.pending.slot = w /\ t.pending.mask = m /\ t.pending.request = t.seq
  BY <1>2
<1>9. SameBoard(s, t)
  BY <1>2, <1>3 DEF SameGame, SameBoard
<1>10. Leads(s, t)
  BY <1>2, <1>9, SameBoardLeads
<1>11. MaskAt(t, t.pos[w]) = m /\ LegalMoves(t, w) = LegalMoves(s, w)
  BY <1>2, <1>3 DEF SameGame, MaskAt, TrailMask, LegalMoves, WormAt, m
<1>12. PendingCurrent(t)
  <2>1. t.slot = w /\ t.alive[w] /\ t.rules[w][m] = GETNEW
    BY <1>2, <1>3 DEF SameGame, m
  <2> QED
    BY <2>1, <1>4, <1>11 DEF PendingCurrent
<1>13. t.over = s.over /\ t.slot = s.slot
  BY <1>2, <1>3 DEF SameGame
<1> QED
  BY <1>10, <1>12, <1>13 DEF t, m

\* Where a slot of the scan may take the game.
Runs(s, t) == Leads(s, t) /\ PendingCurrent(t)

\* Whatever AdvanceRound finds in the table of a living worm, its turn ends in a
\* later sound state, with a current decision if it has to ask.
LEMMA DispatchLeads ==
  ASSUME NEW s \in State, Sound(s), NEW w \in Slot, s.slot = w, s.alive[w],
         s.pending = NoDecision, NEW t \in Dispatch(s, w)
  PROVE  Runs(s, t) /\ t.over = s.over /\ t.slot = s.slot
<1> DEFINE m == MaskAt(s, s.pos[w])
           a == s.rules[w][m]
<1>1. m \in Mask /\ a \in Action
  <2>1. s.pos[w] \in Point /\ s.rules[w] \in [Mask -> Action]
    BY DEF State
  <2>2. m \in Mask
    BY <2>1, MaskType
  <2> QED
    BY <2>1, <2>2
<1>2. \A u : u.pending = NoDecision => PendingCurrent(u)
  BY DEF PendingCurrent
<1>3. CASE LegalMoves(s, w) = {}
  <2>1. t = Kill(s, w, "worm_blocked")
    BY <1>3 DEF Dispatch
  <2> QED
    BY <1>2, <2>1, KillLeads DEF Runs
<1>4. CASE LegalMoves(s, w) # {} /\ a = GETNEW
  <2>1. t = Ask(s, w, m)
    BY <1>4 DEF Dispatch, GETNEW, DIE, DOAI, Dir
  <2> QED
    BY <1>4, <2>1, AskLeads DEF Runs
<1>5. CASE LegalMoves(s, w) # {} /\ a = DIE
  <2>1. t = Kill(s, w, "worm_died")
    BY <1>5 DEF Dispatch, GETNEW, DIE, DOAI, Dir
  <2> QED
    BY <1>2, <2>1, KillLeads DEF Runs
<1>6. CASE LegalMoves(s, w) # {} /\ a = DOAI
  <2>1. PICK d \in AutoChoices(s, w) :
           t \in Follow(IF Frozen(w) THEN s ELSE Learn(s, w, m, d), w, m, d)
    <3>1. Dispatch(s, w) = UNION {Follow(IF Frozen(w) THEN s ELSE Learn(s, w, m, d), w, m, d) :
                                    d \in AutoChoices(s, w)}
      BY <1>6 DEF Dispatch, GETNEW, DIE, DOAI, Dir
    <3> QED
      BY <3>1
  <2>2. d \in Dir /\ d \notin m
    BY DEF AutoChoices, LegalMoves
  <2>3. a \notin Dir
    BY <1>6 DEF DOAI, Dir
  <2> HIDE DEF m
  <2>4. CASE Frozen(w)
    <3>1. t \in Follow(s, w, m, d)
      BY <2>1, <2>4
    <3> QED
      BY <1>1, <1>2, <2>2, <3>1, FollowLeads DEF Runs, SameTurn
  <2>5. CASE ~Frozen(w)
    <3> DEFINE u == Learn(s, w, m, d)
    <3>1. Leads(s, u) /\ SameTurn(s, u)
      <4>1. s.rules[w][m] \notin Dir
        BY <2>3
      <4> HIDE DEF a
      <4> QED
        BY <1>1, <2>2, <4>1, LearnLeads
    <3>2. t \in Follow(u, w, m, d)
      BY <2>1, <2>5
    <3> HIDE DEF u
    <3>3. u \in State /\ Sound(u)
      BY <3>1 DEF Leads
    <3>4. Leads(u, t) /\ SameTurn(u, t)
      BY <1>1, <2>2, <3>2, <3>3, FollowLeads
    <3>5. Leads(s, t)
      BY <3>1, <3>4, LeadsOn
    <3>6. SameTurn(s, t)
      BY <3>1, <3>4 DEF SameTurn
    <3> QED
      BY <1>2, <3>5, <3>6 DEF Runs, SameTurn
  <2> QED
    BY <2>4, <2>5
<1>7. CASE LegalMoves(s, w) # {} /\ a \in Dir
  <2>1. t \in Follow(s, w, m, a)
    BY <1>7 DEF Dispatch, GETNEW, DIE, DOAI, Dir
  <2> HIDE DEF m, a
  <2>2. Leads(s, t) /\ SameTurn(s, t)
    BY <1>1, <1>7, <2>1, FollowLeads
  <2> QED
    BY <1>2, <2>2 DEF Runs, SameTurn
<1> QED
  BY <1>1, <1>3, <1>4, <1>5, <1>6, <1>7 DEF Action


------------------------------------------------------------------------------
(* The scan, and the operations.                                               *)

Good(s) == s \in State /\ Sound(s) /\ PendingCurrent(s)

\* A run after a step is a run.
LEMMA RunsOn ==
  ASSUME NEW r, NEW s, NEW t, Leads(r, s), Runs(s, t)
  PROVE  Runs(r, t)
BY LeadsOn DEF Runs

\* Moving the cursor, or closing the round, touches no part of the board.
LEMMA SlotLeads ==
  ASSUME NEW s \in State, Sound(s), NEW n \in Slot \cup {None, N}
  PROVE  LET t == [s EXCEPT !.slot = n]
         IN  /\ Leads(s, t)
             /\ t.slot = n /\ t.alive = s.alive /\ t.pending = s.pending /\ t.over = s.over
<1> DEFINE t == [s EXCEPT !.slot = n]
<1>1. t \in State
  BY DEF State
<1>2. /\ t.slot = n /\ t.alive = s.alive /\ t.pending = s.pending /\ t.over = s.over
      /\ t.rules = s.rules /\ t.trails = s.trails /\ t.owner = s.owner
      /\ t.cached = s.cached /\ t.score = s.score /\ t.pos = s.pos
  BY DEF State
<1> HIDE DEF t
<1>3. SameBoard(s, t)
  BY <1>2 DEF SameBoard
<1>4. Leads(s, t)
  BY <1>1, <1>3, SameBoardLeads
<1> QED
  BY <1>2, <1>4 DEF t

\* One iteration of the loop over the slots runs on, also for the dead.
LEMMA VisitLeads ==
  ASSUME NEW s, Good(s), NEW w \in 0 .. 3, NEW first, NEW t \in Visit(s, w, first)
  PROVE  Runs(s, t) /\ t.over = s.over
<1> DEFINE u == [s EXCEPT !.slot = w]
<1>1. s \in State /\ Sound(s) /\ PendingCurrent(s)
  BY DEF Good
<1>2. CASE w \notin Slot \/ w < first \/ s.pending # NoDecision
  <2>1. t = s
    BY <1>2 DEF Visit
  <2>2. SameGame(s, s)
    BY DEF SameGame
  <2> QED
    BY <1>1, <2>1, <2>2, SameGameLeads DEF Runs
<1>3. CASE w \in Slot /\ ~(w < first) /\ s.pending = NoDecision
  <2>1. t \in IF ~s.alive[w] THEN {u} ELSE Dispatch(u, w)
    BY <1>3 DEF Visit
  <2>2. /\ Leads(s, u)
        /\ u.slot = w /\ u.alive = s.alive /\ u.pending = s.pending /\ u.over = s.over
    BY <1>1, <1>3, SlotLeads
  <2> HIDE DEF u
  <2>3. CASE ~s.alive[w]
    BY <1>3, <2>1, <2>2, <2>3 DEF Runs, PendingCurrent
  <2>4. CASE s.alive[w]
    <3>1. u \in State /\ Sound(u)
      BY <2>2 DEF Leads
    <3>2. Runs(u, t) /\ t.over = u.over
      BY <1>3, <2>1, <2>2, <2>4, <3>1, DispatchLeads
    <3> QED
      BY <2>2, <3>2, RunsOn
  <2> QED
    BY <2>3, <2>4
<1> QED
  BY <1>2, <1>3

\* Every state of S is one the scan that began at s may be in.
AllRun(s, S) == \A u \in S : Runs(s, u) /\ u.over = s.over

\* The same for every outcome of the iterations before it.
LEMMA VisitAllLeads ==
  ASSUME NEW s, NEW S, NEW w \in 0 .. 3, NEW first, AllRun(s, S)
  PROVE  AllRun(s, VisitAll(S, w, first))
<1> SUFFICES ASSUME NEW t \in VisitAll(S, w, first)
             PROVE  Runs(s, t) /\ t.over = s.over
  BY DEF AllRun
<1>1. PICK u \in S : t \in Visit(u, w, first)
  BY DEF VisitAll
<1>2. Runs(s, u) /\ u.over = s.over
  BY DEF AllRun
<1>3. Good(u) /\ Leads(s, u)
  BY <1>2 DEF Good, Runs, Leads
<1>4. Runs(u, t) /\ t.over = u.over
  BY <1>1, <1>3, VisitLeads
<1> QED
  BY <1>2, <1>3, <1>4, RunsOn

\* The loop over the slots runs on, from whichever slot it starts.
LEMMA ScanLeads ==
  ASSUME NEW s, Good(s), NEW first
  PROVE  AllRun(s, Scan(s, first))
<1> DEFINE S0 == VisitAll({s}, 0, first)
           S1 == VisitAll(S0, 1, first)
           S2 == VisitAll(S1, 2, first)
<1>1. AllRun(s, {s})
  <2>1. SameGame(s, s)
    BY DEF SameGame
  <2> QED
    BY <2>1, SameGameLeads DEF Good, Runs, AllRun
<1>2. AllRun(s, S0)
  BY <1>1, VisitAllLeads
<1> HIDE DEF S0
<1>3. AllRun(s, S1)
  BY <1>2, VisitAllLeads
<1> HIDE DEF S1
<1>4. AllRun(s, S2)
  BY <1>3, VisitAllLeads
<1> HIDE DEF S2
<1>5. AllRun(s, VisitAll(S2, 3, first))
  BY <1>4, VisitAllLeads
<1> QED
  BY <1>5 DEF Scan, S0, S1, S2

\* The end of a round runs on.
LEMMA EndRoundLeads ==
  ASSUME NEW s, Good(s)
  PROVE  Runs(s, EndRound(s))
<1> DEFINE u    == [s EXCEPT !.slot = None, !.round = @ + 1]
           body == [worm |-> None]
           done == Emit(u, "round_completed", body)
           last == [done EXCEPT !.over = TRUE]
<1>1. s \in State /\ Sound(s) /\ PendingCurrent(s)
  BY DEF Good
<1>2. body \in EventBody /\ {"round_completed", "game_over"} \subseteq EventType
  BY DEF EventBody, EventType
<1>3. CASE s.pending # NoDecision
  <2>1. SameGame(s, s)
    BY DEF SameGame
  <2>2. EndRound(s) = s
    BY <1>3 DEF EndRound
  <2> QED
    BY <1>1, <2>1, <2>2, SameGameLeads DEF Runs
<1>4. CASE s.pending = NoDecision
  <2>1. u \in State
    <3>1. \A n \in Nat : [s EXCEPT !.slot = None, !.round = n] \in State
      BY <1>1 DEF State
    <3>2. s.round + 1 \in Nat
      BY <1>1 DEF State
    <3> QED
      BY <3>1, <3>2
  <2>2. /\ u.rules = s.rules /\ u.trails = s.trails /\ u.owner = s.owner
        /\ u.cached = s.cached /\ u.score = s.score /\ u.pos = s.pos
        /\ u.alive = s.alive /\ u.pending = s.pending
    BY <1>1 DEF State
  <2> HIDE DEF u
  <2>3. done \in State /\ SameGame(u, done)
    BY <1>2, <2>1, EmitType
  <2>4. /\ last \in State
        /\ last.rules = done.rules /\ last.trails = done.trails
        /\ last.owner = done.owner /\ last.cached = done.cached
        /\ last.score = done.score /\ last.pos = done.pos
        /\ last.alive = done.alive /\ last.pending = done.pending
    <3> HIDE DEF done
    <3> QED
      BY <2>3 DEF State
  <2>5. EndRound(s) \in {done, Emit(last, "game_over", body)}
    BY <1>4 DEF EndRound, u
  <2> HIDE DEF done
  <2>6. SameBoard(s, done) /\ done.pending = NoDecision
    BY <1>4, <2>2, <2>3 DEF SameBoard, SameGame
  <2> HIDE DEF last
  <2>7. /\ Emit(last, "game_over", body) \in State
        /\ SameGame(last, Emit(last, "game_over", body))
    BY <1>2, <2>4, EmitType
  <2>8. /\ SameBoard(s, Emit(last, "game_over", body))
        /\ Emit(last, "game_over", body).pending = NoDecision
    BY <2>4, <2>6, <2>7 DEF SameBoard, SameGame
  <2>9. EndRound(s) \in State /\ SameBoard(s, EndRound(s)) /\ EndRound(s).pending = NoDecision
    BY <2>3, <2>5, <2>6, <2>7, <2>8
  <2> QED
    BY <1>1, <2>9, SameBoardLeads DEF Runs, PendingCurrent
<1> QED
  BY <1>3, <1>4

\* The last line of a handler ends the game exactly when nobody is left; a
\* pending decision is the question of a living worm.
LEMMA EndRoundEnds ==
  ASSUME NEW s, Good(s), ~s.over
  PROVE  ScanEnded(EndRound(s))
<1> DEFINE u    == [s EXCEPT !.slot = None, !.round = @ + 1]
           body == [worm |-> None]
           done == Emit(u, "round_completed", body)
           last == [done EXCEPT !.over = TRUE]
           end  == Emit(last, "game_over", body)
<1>1. s \in State /\ PendingCurrent(s)
  BY DEF Good
<1>2. body \in EventBody /\ {"round_completed", "game_over"} \subseteq EventType
  BY DEF EventBody, EventType
<1>3. CASE s.pending # NoDecision
  <2>1. s.pending.slot \in Slot /\ s.alive[s.pending.slot]
    <3>1. s.pending \in Decision
      BY <1>1 DEF State
    <3> QED
      BY <1>1, <1>3, <3>1 DEF PendingCurrent, Decision
  <2>2. EndRound(s) = s
    BY <1>3 DEF EndRound
  <2> QED
    BY <2>1, <2>2 DEF ScanEnded
<1>4. CASE s.pending = NoDecision
  <2>1. u \in State
    <3>1. \A n \in Nat : [s EXCEPT !.slot = None, !.round = n] \in State
      BY <1>1 DEF State
    <3>2. s.round + 1 \in Nat
      BY <1>1 DEF State
    <3> QED
      BY <3>1, <3>2
  <2>2. u.alive = s.alive /\ u.pending = s.pending /\ u.slot = None /\ u.over = s.over
    BY <1>1 DEF State
  <2> HIDE DEF u
  <2>3. done \in State /\ SameGame(u, done)
    BY <1>2, <2>1, EmitType
  <2>4. EndRound(s) = IF \E w \in Slot : s.alive[w] THEN done ELSE end
    BY <1>4 DEF EndRound, u
  <2> HIDE DEF done
  <2>5. /\ last \in State /\ last.alive = done.alive /\ last.pending = done.pending
        /\ last.slot = done.slot /\ last.over = TRUE
    BY <2>3 DEF State
  <2> HIDE DEF last
  <2>6. end \in State /\ SameGame(last, end)
    BY <1>2, <2>5, EmitType
  <2> HIDE DEF end
  <2> QED
    BY <1>4, <2>2, <2>3, <2>4, <2>5, <2>6 DEF SameGame, ScanEnded
<1> QED
  BY <1>3, <1>4

\* Dropping the events of earlier handlers changes nothing else.
LEMMA QuietType ==
  ASSUME NEW s \in State
  PROVE  Quiet(s) \in State /\ SameGame(s, Quiet(s))
<1>1. Quiet(s) \in State
  <2>1. << >> \in Seq(Event)
    OBVIOUS
  <2>2. \A q \in Seq(Event) : [s EXCEPT !.events = q] \in State
    BY DEF State
  <2> QED
    BY <2>1, <2>2 DEF Quiet
<1>2. SameGame(s, Quiet(s))
  BY DEF Quiet, SameGame, State
<1> QED
  BY <1>1, <1>2

\* So it leads to a sound state.
LEMMA QuietLeads ==
  ASSUME NEW s \in State, Sound(s)
  PROVE  /\ Leads(s, Quiet(s))
         /\ SameGame(s, Quiet(s))
BY QuietType, SameGameLeads

\* Every outcome of AdvanceRound is sound, current, and over only after its scan.
LEMMA AdvanceLeads ==
  ASSUME NEW s, Good(s), CanAdvance(s), NEW t \in AdvanceOutcomes(s)
  PROVE  Runs(s, t) /\ ScanEnded(t)
<1> DEFINE q == Quiet(s)
<1>1. s \in State /\ Sound(s) /\ s.pending = NoDecision
  BY DEF Good, CanAdvance
<1>2. Leads(s, q) /\ SameGame(s, q)
  BY <1>1, QuietLeads
<1>3. PICK first, u : u \in Scan(q, first) /\ t = EndRound(u)
  BY DEF AdvanceOutcomes
<1> HIDE DEF q
<1>4. Good(q)
  BY <1>1, <1>2 DEF Good, Leads, SameGame, PendingCurrent
<1>5. Runs(q, u) /\ u.over = q.over
  BY <1>3, <1>4, ScanLeads DEF AllRun
<1>6. Good(u)
  BY <1>5 DEF Good, Runs, Leads
<1>7. Runs(u, t)
  BY <1>3, <1>6, EndRoundLeads
<1>8. ~u.over
  BY <1>2, <1>5 DEF SameGame, CanAdvance
<1>9. ScanEnded(t)
  BY <1>3, <1>6, <1>8, EndRoundEnds
<1> QED
  BY <1>2, <1>5, <1>7, <1>9, RunsOn DEF Runs


\* The answer is stored under the pattern the question was asked about, and that
\* pattern is still the one the worm sees.
LEMMA SubmitLeads ==
  ASSUME NEW s, Good(s), ~s.over, NEW d \in Dir, CanSubmit(s, d),
         NEW t \in SubmitOutcomes(s, d)
  PROVE  Runs(s, t) /\ ScanEnded(t)
<1> DEFINE w == s.pending.slot
           m == s.pending.mask
           q == Quiet(s)
           l == Learn(q, w, m, d)
           answered == [l EXCEPT !.pending = NoDecision, !.slot = w + 1]
<1>1. s \in State /\ Sound(s) /\ PendingCurrent(s) /\ s.pending # NoDecision
  BY DEF Good, CanSubmit
<1>2. w \in Slot /\ m \in Mask
  <2>1. s.pending \in Decision
    BY <1>1 DEF State
  <2> QED
    BY <1>1, <2>1 DEF Decision
<1>3. m = MaskAt(s, s.pos[w]) /\ s.rules[w][m] = GETNEW
  BY <1>1 DEF PendingCurrent
<1>4. d \notin m
  BY <1>3 DEF CanSubmit, LegalMoves
<1>5. Leads(s, q) /\ SameGame(s, q) /\ q \in State /\ Sound(q)
  BY <1>1, QuietLeads DEF Leads
<1> HIDE DEF q, w, m
<1>6. q.rules[w][m] \notin Dir
  BY <1>3, <1>5 DEF SameGame, GETNEW, Dir
<1>7. Leads(q, l) /\ SameTurn(q, l)
  BY <1>2, <1>4, <1>5, <1>6, LearnLeads
<1> HIDE DEF l
<1>8. l \in State /\ Sound(l)
  BY <1>7 DEF Leads
<1>9. /\ answered \in State /\ SameBoard(l, answered)
      /\ answered.pending = NoDecision /\ answered.over = l.over
  <2>1. w + 1 \in Slot \cup {None, N} /\ NoDecision \in Decision
    BY <1>2, EngineAssumption DEF Slot, Decision
  <2>2. \A n \in Slot \cup {None, N}, f \in Decision :
           /\ [l EXCEPT !.pending = f, !.slot = n] \in State
           /\ SameBoard(l, [l EXCEPT !.pending = f, !.slot = n])
           /\ [l EXCEPT !.pending = f, !.slot = n].pending = f
           /\ [l EXCEPT !.pending = f, !.slot = n].over = l.over
    BY <1>8 DEF State, SameBoard
  <2> QED
    BY <2>1, <2>2
<1>10. PICK u, v : /\ u \in Follow(answered, w, m, d)
                   /\ v \in Scan(u, w + 1)
                   /\ t = EndRound(v)
  BY DEF SubmitOutcomes, q, w, m, l
<1> HIDE DEF answered
<1>11. Leads(l, answered) /\ Sound(answered)
  BY <1>8, <1>9, SameBoardLeads DEF Leads
<1>12. Leads(answered, u) /\ SameTurn(answered, u)
  BY <1>2, <1>9, <1>10, <1>11, FollowLeads
<1>13. Good(u)
  BY <1>9, <1>12 DEF Good, Leads, SameTurn, PendingCurrent
<1>14. Runs(u, v) /\ v.over = u.over
  BY <1>10, <1>13, ScanLeads DEF AllRun
<1>15. Good(v)
  BY <1>14 DEF Good, Runs, Leads
<1>16. Runs(v, t)
  BY <1>10, <1>15, EndRoundLeads
<1>17. Leads(s, u)
  BY <1>5, <1>7, <1>11, <1>12, LeadsOn
<1>18. Leads(s, v)
  BY <1>14, <1>17, LeadsOn DEF Runs
<1>19. ~v.over
  BY <1>5, <1>7, <1>9, <1>12, <1>14 DEF SameGame, SameTurn
<1>20. ScanEnded(t)
  BY <1>10, <1>15, <1>19, EndRoundEnds
<1> QED
  BY <1>16, <1>18, <1>20, RunsOn

------------------------------------------------------------------------------
(* The theorems.                                                               *)

\* The initial state is sound: no trails, no owners, no scores, accepted tables.
LEMMA InitGood == Good(InitialState)
<1> DEFINE s == InitialState
<1>1. \A w \in Slot : ConfiguredRules(w) \in [Mask -> Action]
  BY EngineAssumption DEF ValidRules
<1>2. s \in State
  <2>1. /\ None \in Slot \cup {None, N} /\ NoDecision \in Decision
        /\ {} \in Mask /\ << >> \in Seq(Event)
    BY DEF Decision, Mask
  <2>2. Start \in [Slot -> Point]
    BY EngineAssumption
  <2> QED
    BY <1>1, <2>1, <2>2 DEF State, InitialState
<1>3. /\ s.alive = [w \in Slot |-> Kind[w] # "ASLEEP"] /\ s.pos = Start
      /\ s.rules = [w \in Slot |-> ConfiguredRules(w)]
      /\ s.score = [w \in Slot |-> 0]
      /\ s.trails = [e \in Edge |-> None] /\ s.owner = [p \in Point |-> None]
      /\ s.cached = [p \in Point |-> {}] /\ s.pending = NoDecision
  BY DEF InitialState
<1> HIDE DEF s
<1>4. Fresh(s)
  BY <1>3 DEF Fresh, TrailMask
<1>5. Owned(s)
  <2>1. Dir # {}
    BY DEF Dir
  <2> QED
    BY <1>3, <2>1 DEF Owned
<1>6. Scored(s)
  <2>1. \A w \in Slot : Dots(s.owner, w) = {}
    <3>1. None \notin Slot
      BY DEF Slot, None
    <3>2. \A f : f = [p \in Point |-> None] => \A p \in Point : f[p] = None
      OBVIOUS
    <3>3. \A w \in Slot, p \in Point : s.owner[p] # w
      BY <1>3, <3>1, <3>2
    <3> QED
      BY <3>3 DEF Dots
  <2>2. \A w \in Slot : s.score[w] = 0
    BY <1>3
  <2> QED
    BY <2>1, <2>2, FS_EmptySet DEF Scored
<1>7. Apart(s)
  BY <1>3, EngineAssumption DEF Apart
<1>8. \A w \in Slot : ValidRules(s.rules[w])
  BY <1>3, EngineAssumption
<1> QED
  BY <1>2, <1>3, <1>4, <1>5, <1>6, <1>7, <1>8 DEF Good, Sound, PendingCurrent, s

\* The inductive invariant.
Inductive == Good(game) /\ ScanEnded(game)

\* Both handlers preserve the inductive invariant and undo nothing.
LEMMA NextRuns ==
  ASSUME Inductive, Next
  PROVE  Runs(game, game') /\ ScanEnded(game')
<1>1. CASE AdvanceRound
  BY <1>1, AdvanceLeads DEF AdvanceRound, Inductive
<1>2. CASE Answer
  <2>1. PICK d \in Dir : CanSubmit(game, d) /\ game' \in SubmitOutcomes(game, d)
    BY <1>2 DEF Answer, Submit
  <2>2. ~game.over
    BY <2>1 DEF CanSubmit, ScanEnded, Inductive
  <2> QED
    BY <2>1, <2>2, SubmitLeads DEF Inductive
<1> QED
  BY <1>1, <1>2 DEF Next

\* The inductive invariant holds throughout every game.
LEMMA AlwaysInductive == Spec => []Inductive
<1>1. Init => Inductive
  BY InitGood DEF Init, Inductive, ScanEnded, InitialState
<1>2. Inductive /\ [Next]_game => Inductive'
  <2>1. CASE Next
    BY <2>1, NextRuns DEF Good, Runs, Leads, Inductive
  <2>2. CASE UNCHANGED game
    BY <2>2 DEF Inductive
  <2> QED
    BY <2>1, <2>2
<1> QED
  BY <1>1, <1>2, PTL DEF Spec

\* Every operation returns a state of the engine's type.
THEOREM TypeCorrect == Spec => []TypeOK
<1>1. Inductive => TypeOK
  BY DEF Inductive, Good, TypeOK
<1> QED
  BY <1>1, AlwaysInductive, PTL

\* Refreshing the two ends of the spoke just taken is enough: on every board no
\* territory ever shows a pattern other than the trails around it.
THEOREM MasksFresh == Spec => []CachedMasksAreFresh
<1>1. Inductive => CachedMasksAreFresh
  BY DEF Inductive, Good, Sound, CachedMasksAreFresh
<1> QED
  BY <1>1, AlwaysInductive, PTL

\* The tori with more than one column, and every bounded board.
Wide == Classic => Width > 1

\* On these no dot is its own neighbour: a step changes the row, or the column if it
\* leaves the row.  Around a single column a step East comes back to where it began.
LEMMA NoOwnNeighbor ==
  ASSUME Wide, NEW p \in Point, NEW d \in Dir
  PROVE  Neighbor(p, d) # p
<1>1. /\ Width \in Nat \ {0} /\ Height \in Nat \ {0}
      /\ p = <<p[1], p[2]>> /\ p[1] \in Int /\ p[2] \in Int
      /\ p[1] \in Origin .. Origin + Width - 1 /\ p[2] \in Origin .. Origin + Height - 1
      /\ Origin \in Int
  BY LatticeAssumption DEF Point, Origin
<1>2. /\ RowStep[d + 1] \in -1 .. 1 /\ ColumnStep(p)[d + 1] \in -1 .. 1
      /\ RowStep[d + 1] = 0 => ColumnStep(p)[d + 1] # 0
  <2>1. \A c \in Dir : RowStep[c + 1] = 0 =>
          /\ OddStep[c + 1] # 0 /\ EvenStep[c + 1] # 0 /\ AxialStep[c + 1] # 0
    BY DEF Dir, RowStep, OddStep, EvenStep, AxialStep
  <2> QED
    BY <2>1, StepRange DEF ColumnStep
<1> DEFINE dx == ColumnStep(p)[d + 1]
           dy == RowStep[d + 1]
           x == p[1] + dx
           y == p[2] + dy
<1>3. x \in Int /\ y \in Int /\ dx \in -1 .. 1 /\ dy \in -1 .. 1 /\ (dy = 0 => dx # 0)
  BY <1>1, <1>2
<1>4. CASE Classic
  <2>1. Neighbor(p, d) = <<((x - 1) % Width) + 1, ((y - 1) % Height) + 1>>
    BY <1>1, <1>3, <1>4, ClassicNeighbor
  <2>2. /\ p[1] - 1 \in 0 .. Width - 1 /\ p[2] - 1 \in 0 .. Height - 1
        /\ Width > 1 /\ Height > 1
    <3>1. Origin = 1 /\ Height % 2 = 0 /\ Width > 1
      BY <1>4, LatticeAssumption DEF Wide, Origin, Classic
    <3> QED
      BY <1>1, <3>1
  <2> HIDE DEF dx, dy
  <2>3. CASE dy = 0
    <3>1. x - 1 \in -1 .. Width /\ x - 1 = (p[1] - 1) + dx /\ dx \in {-1, 1}
      BY <1>1, <1>3, <2>2, <2>3
    <3>2. (x - 1) % Width = IF x - 1 = -1 THEN Width - 1 ELSE IF x - 1 = Width THEN 0 ELSE x - 1
      BY <1>1, <3>1, ModSmall
    <3>3. ((x - 1) % Width) + 1 # p[1]
      BY <1>1, <2>2, <3>1, <3>2
    <3> QED
      BY <1>1, <2>1, <3>3
  <2>4. CASE dy # 0
    <3>1. y - 1 \in -1 .. Height /\ y - 1 = (p[2] - 1) + dy /\ dy \in {-1, 1}
      BY <1>1, <1>3, <2>2, <2>4
    <3>2. (y - 1) % Height = IF y - 1 = -1 THEN Height - 1 ELSE IF y - 1 = Height THEN 0 ELSE y - 1
      BY <1>1, <3>1, ModSmall
    <3>3. ((y - 1) % Height) + 1 # p[2]
      BY <1>1, <2>2, <3>1, <3>2
    <3> QED
      BY <1>1, <2>1, <3>3
  <2> QED
    BY <2>3, <2>4
<1>5. CASE ~Classic
  <2>1. Neighbor(p, d) = <<x, y>>
    BY <1>5 DEF Neighbor
  <2> HIDE DEF dx, dy
  <2>2. x # p[1] \/ y # p[2]
    BY <1>1, <1>3
  <2> QED
    BY <1>1, <2>1, <2>2
<1> QED
  BY <1>4, <1>5

\* What State.Validate asks of a board; it does not compare masks with trails.
LEMMA BoardValidates ==
  ASSUME Wide, NEW s \in State, Owned(s), Scored(s), Apart(s),
         \A w \in Slot : ValidRules(s.rules[w])
  PROVE  Validate(s)
<1>2. ValidOccupancy(s)
  BY DEF State, ValidOccupancy, InBounds, Apart
<1>3. ValidTrails(s)
  <2>1. ASSUME NEW e \in Edge, NEW p \in e
        PROVE  \E d \in Dir : EdgeOf(p, d) = e
    <3>1. PICK q \in Point, d \in Dir : e = EdgeOf(q, d)
      BY DEF Edge
    <3>2. e = {q, Neighbor(q, d)} /\ Neighbor(q, d) \in Point
      BY <3>1 DEF Edge, EdgeOf
    <3>3. CASE p = q
      BY <3>1, <3>3
    <3>4. CASE p = Neighbor(q, d)
      <4>1. Neighbor(p, Opposite(d)) = q
        BY <3>2, <3>4, OppositeLeadsBack
      <4>2. Opposite(d) \in Dir
        BY OppositeSteps
      <4> QED
        BY <3>2, <3>4, <4>1, <4>2 DEF EdgeOf
    <3> QED
      BY <2>1, <3>2, <3>3, <3>4
  <2>2. ASSUME NEW e \in Edge PROVE Cardinality(e) = 2
    <3>1. PICK q \in Point, d \in Dir : e = {q, Neighbor(q, d)}
      BY DEF Edge, EdgeOf
    <3>2. q # Neighbor(q, d)
      BY NoOwnNeighbor
    <3>3. Cardinality({q}) = 1 /\ IsFiniteSet({q})
      BY FS_Singleton
    <3>4. Cardinality({q} \cup {Neighbor(q, d)}) = Cardinality({q}) + 1
      BY <3>2, <3>3, FS_AddElement
    <3>5. e = {q} \cup {Neighbor(q, d)}
      BY <3>1
    <3> QED
      BY <3>3, <3>4, <3>5
  <2> QED
    BY <2>1, <2>2 DEF ValidTrails
<1>4. ValidScores(s)
  <2>1. \A p \in Point : s.owner[p] \in Slot \cup {None}
    BY DEF State
  <2>2. \A p \in Point : s.cached[p] = Dir => s.owner[p] \in Slot
    BY <2>1 DEF Owned
  <2>3. ASSUME NEW w \in Slot
        PROVE  {p \in Point : s.cached[p] = Dir /\ s.owner[p] = w} = Dots(s.owner, w)
    BY DEF Owned, Dots, Slot, None
  <2> QED
    BY <2>2, <2>3 DEF ValidScores, Scored
<1> QED
  BY <1>2, <1>3, <1>4 DEF Validate

\* A sound state passes State.Validate.
LEMMA GoodValidates ==
  ASSUME Wide, NEW s, Good(s)
  PROVE  Validate(s)
BY BoardValidates DEF Good, Sound

\* Whatever is stored after a handler can be loaded again, on every board but a torus of
\* one column.  newState makes that one too; a worm that moves East on it leaves a trail
\* from a dot to itself, which Validate refuses.
THEOREM StatesValidate == Spec => [](Wide => StateValidates)
<1>1. Inductive => (Wide => StateValidates)
  BY GoodValidates DEF Inductive, StateValidates
<1> QED
  BY <1>1, AlwaysInductive, PTL

\* No answer can be filed under a pattern its worm no longer sees.
THEOREM DecisionsCurrent == Spec => []PendingIsCurrent
<1>1. Inductive => PendingIsCurrent
  BY DEF Inductive, Good, PendingIsCurrent
<1> QED
  BY <1>1, AlwaysInductive, PTL

\* Trails, completed territories, deaths and learned moves are for good, whatever
\* the controllers decide.
THEOREM NothingUndone == Spec => Permanent
<1>1. Inductive /\ [Next]_game => [NothingLost(game, game')]_game
  BY NextRuns DEF Runs, Leads
<1> QED
  BY <1>1, AlwaysInductive, PTL DEF Spec, Permanent, NothingLost


\* A game ends at the end of a scan that leaves nobody alive, and never before.
THEOREM EndsWithTheScan == Spec => []OverAfterWholeScan
<1>1. Inductive => OverAfterWholeScan
  BY DEF Inductive, OverAfterWholeScan
<1> QED
  BY <1>1, AlwaysInductive, PTL


------------------------------------------------------------------------------
(* The order of the slots: how many moves each worm has made.                  *)

Served(w, k) == IF w < k THEN 1 ELSE 0

\* The first k slots have had their turn in the current round: the trails of a
\* living worm say so exactly, those of a dead one never say more, and the clock
\* counts all of them.
Counted(s, k) ==
  /\ \A w \in Slot :
       IF s.alive[w] THEN Moves(s, w) = s.round + Served(w, k)
                     ELSE Moves(s, w) <= s.round + Served(w, k)
  /\ s.tick = Cardinality({e \in Edge : s.trails[e] # None})

\* Between two handlers the cursor is at rest, or on the slot that has to answer.
Ordered(s) ==
  IF s.pending = NoDecision THEN s.slot = None /\ Counted(s, 0) ELSE Counted(s, s.slot)

\* A board has finitely many spokes, so trails can be counted.
LEMMA TrailsFinite ==
  ASSUME NEW T, T \subseteq Edge
  PROVE  IsFiniteSet(T) /\ Cardinality(T) \in Nat
<1>1. IsFiniteSet(SUBSET Point)
  BY PointFinite, FS_SUBSET
<1>2. T \in SUBSET SUBSET Point
  BY DEF Edge
<1>3. IsFiniteSet(T)
  BY <1>1, <1>2, FS_Subset
<1> QED
  BY <1>3, FS_CardinalityType

\* A trail on a free spoke is one more for its worm, and for nobody else.
LEMMA OneMoreTrail ==
  ASSUME NEW s \in State, NEW t \in State, NEW w \in Slot, NEW e \in Edge,
         s.trails[e] = None, t.trails = [s.trails EXCEPT ![e] = w]
  PROVE  /\ Moves(t, w) = Moves(s, w) + 1
         /\ \A v \in Slot \ {w} : Moves(t, v) = Moves(s, v)
         /\ Cardinality({x \in Edge : t.trails[x] # None})
              = Cardinality({x \in Edge : s.trails[x] # None}) + 1
<1> DEFINE Of(v) == {x \in Edge : s.trails[x] = v}
           Then(v) == {x \in Edge : t.trails[x] = v}
           Taken == {x \in Edge : s.trails[x] # None}
           Now == {x \in Edge : t.trails[x] # None}
<1>1. None \notin Slot /\ w # None
  BY DEF Slot, None
<1>2. \A x \in Edge : t.trails[x] = IF x = e THEN w ELSE s.trails[x]
  BY DEF State
<1>3. Then(w) = Of(w) \cup {e} /\ e \notin Of(w)
  BY <1>1, <1>2
<1>4. \A v \in Slot \ {w} : Then(v) = Of(v)
  BY <1>1, <1>2
<1>5. Now = Taken \cup {e} /\ e \notin Taken
  BY <1>1, <1>2
<1>6. IsFiniteSet(Of(w)) /\ IsFiniteSet(Taken)
  BY TrailsFinite
<1>7. Moves(s, w) = Cardinality(Of(w)) /\ Moves(t, w) = Cardinality(Then(w))
  BY DEF Moves
<1>8. \A v \in Slot \ {w} : Moves(t, v) = Moves(s, v)
  BY <1>4 DEF Moves
<1> HIDE DEF Of, Then, Taken, Now
<1>9. Cardinality(Then(w)) = Cardinality(Of(w)) + 1
  BY <1>3, <1>6, FS_AddElement
<1>10. Cardinality(Now) = Cardinality(Taken) + 1
  BY <1>5, <1>6, FS_AddElement
<1> QED
  BY <1>7, <1>8, <1>9, <1>10 DEF Taken, Now

\* What the counting reads of a state.
SameCount(s, t) ==
  t.trails = s.trails /\ t.round = s.round /\ t.tick = s.tick /\ t.alive = s.alive

\* States that agree on it are counted alike.
LEMMA SameCountKeeps ==
  ASSUME NEW s, NEW t, NEW k, SameCount(s, t), Counted(s, k)
  PROVE  Counted(t, k)
BY DEF SameCount, Counted, Moves

\* A legal move is the turn of its worm.
LEMMA StepServes ==
  ASSUME NEW s \in State, NEW w \in Slot, NEW d \in Dir, CanStep(s, w, d),
         Counted(s, w)
  PROVE  Counted(Stepped(s, w, d), w + 1)
<1> DEFINE t == Stepped(s, w, d)
           e == {s.pos[w], Neighbor(s.pos[w], d)}
<1>1. e \in Edge /\ s.trails[e] = None /\ s.alive[w]
  BY StepEdge DEF CanStep
<1>2. /\ t \in State /\ t.tick = s.tick + 1 /\ t.round = s.round
      /\ t.trails = [s.trails EXCEPT ![e] = w]
      /\ t.alive = [s.alive EXCEPT ![w] = FALSE] \/ t.alive = s.alive
  BY StepEffect DEF StepDoes
<1> HIDE DEF t, e
<1>3. /\ Moves(t, w) = Moves(s, w) + 1
      /\ \A v \in Slot \ {w} : Moves(t, v) = Moves(s, v)
      /\ Cardinality({x \in Edge : t.trails[x] # None})
           = Cardinality({x \in Edge : s.trails[x] # None}) + 1
  BY <1>1, <1>2, OneMoreTrail
<1>4. s.alive \in [Slot -> BOOLEAN] /\ s.round \in Nat /\ Slot \subseteq Int
  BY DEF State, Slot
<1>5. Moves(t, w) = t.round + Served(w, w + 1)
  BY <1>1, <1>2, <1>3, <1>4 DEF Counted, Served
<1>6. ASSUME NEW v \in Slot \ {w}
      PROVE  IF t.alive[v] THEN Moves(t, v) = t.round + Served(v, w + 1)
                           ELSE Moves(t, v) <= t.round + Served(v, w + 1)
  <2>1. t.alive[v] = s.alive[v]
    BY <1>2, <1>4
  <2>2. Served(v, w + 1) = Served(v, w)
    BY <1>4 DEF Served
  <2> QED
    BY <1>2, <1>3, <2>1, <2>2 DEF Counted
<1>7. IF t.alive[w] THEN Moves(t, w) = t.round + Served(w, w + 1)
                    ELSE Moves(t, w) <= t.round + Served(w, w + 1)
  <2>1. t.round + Served(w, w + 1) \in Int
    BY <1>2, <1>4 DEF Served
  <2> QED
    BY <1>5, <2>1
<1>8. t.tick = Cardinality({x \in Edge : t.trails[x] # None})
  BY <1>2, <1>3 DEF Counted
<1> QED
  BY <1>6, <1>7, <1>8 DEF Counted, t

\* So is a turn that ends in death or falls to a worm already dead: it adds no
\* trail, and the dead may be behind.
LEMMA DeadServes ==
  ASSUME NEW s \in State, NEW t \in State, NEW w \in Slot, Counted(s, w),
         t.trails = s.trails, t.round = s.round, t.tick = s.tick,
         t.alive = [s.alive EXCEPT ![w] = FALSE]
  PROVE  Counted(t, w + 1)
<1>1. /\ s.alive \in [Slot -> BOOLEAN] /\ s.round \in Nat /\ Slot \subseteq Int
  BY DEF State, Slot
<1>2. \A v \in Slot : Moves(t, v) = Moves(s, v) /\ Moves(s, v) \in Nat
  BY TrailsFinite DEF Moves
<1>3. ASSUME NEW v \in Slot
      PROVE  IF t.alive[v] THEN Moves(t, v) = t.round + Served(v, w + 1)
                           ELSE Moves(t, v) <= t.round + Served(v, w + 1)
  <2>1. CASE v = w
    <3>1. ~t.alive[v]
      BY <1>1, <2>1
    <3>2. Moves(s, v) <= s.round
      BY <1>1, <1>2, <2>1 DEF Counted, Served
    <3> QED
      BY <1>1, <1>2, <3>1, <3>2 DEF Served
  <2>2. CASE v # w
    <3>1. t.alive[v] = s.alive[v] /\ Served(v, w + 1) = Served(v, w)
      BY <1>1, <2>2 DEF Served
    <3> QED
      BY <1>2, <3>1 DEF Counted
  <2> QED
    BY <2>1, <2>2
<1> QED
  BY <1>3 DEF Counted

\* Learning a rule takes no trail.
LEMMA LearnKeepsCount ==
  ASSUME NEW s \in State, NEW w \in Slot, NEW m \in Mask, NEW d \in Dir
  PROVE  SameCount(s, Learn(s, w, m, d))
<1> DEFINE u == [s EXCEPT !.rules[w][m] = d]
           body == [worm |-> w, mask |-> m, action |-> d]
<1>1. /\ u.trails = s.trails /\ u.round = s.round /\ u.tick = s.tick
      /\ u.alive = s.alive
  BY DEF State
<1>2. \A q, evs : SameCount(u, [u EXCEPT !.seq = q, !.events = evs])
  <2>1. PICK g : u = [s EXCEPT !.rules = g]
    OBVIOUS
  <2> HIDE DEF u
  <2> QED
    BY <2>1 DEF State, SameCount
<1>3. SameCount(u, Learn(s, w, m, d))
  BY <1>2 DEF Learn, Emit
<1> QED
  BY <1>1, <1>3 DEF SameCount

\* Asking a question takes no trail.
LEMMA AskKeepsCount ==
  ASSUME NEW s \in State, NEW w \in Slot, NEW m \in Mask
  PROVE  SameCount(s, Ask(s, w, m)) /\ Ask(s, w, m).pending # NoDecision
<1> DEFINE t == Ask(s, w, m)
<1>1. SameGame([s EXCEPT !.pending = t.pending], t) /\ t.pending # NoDecision
  BY AskEffect
<1> HIDE DEF t
<1>2. SameCount(s, [s EXCEPT !.pending = t.pending])
  BY DEF State, SameCount
<1> QED
  BY <1>1, <1>2 DEF SameGame, SameCount, t

\* Following a remembered direction is the turn of its worm.
LEMMA FollowServes ==
  ASSUME NEW s \in State, Sound(s), NEW w \in Slot, NEW m \in Mask, NEW d \in Dir,
         NEW t \in Follow(s, w, m, d), Counted(s, w)
  PROVE  Counted(t, w + 1)
<1> DEFINE u == UseRule(s, w, m, d)
<1>1. u \in State /\ SameGame(s, u)
  BY UseRuleLeads
<1>2. CanStep(u, w, d) /\ t = Stepped(u, w, d)
  BY StepIsStepped DEF Follow
<1> HIDE DEF u
<1>3. Counted(u, w)
  BY <1>1, SameCountKeeps DEF SameCount, SameGame
<1> QED
  BY <1>1, <1>2, <1>3, StepServes

\* The scan has come to slot k, or waits at the slot of the cursor.
Reached(s, k) ==
  IF s.pending = NoDecision THEN Counted(s, k) ELSE Counted(s, s.slot)

\* Whatever its table says, a living worm moves, dies or asks in its turn, and
\* never moves twice.
LEMMA DispatchServes ==
  ASSUME NEW s \in State, Sound(s), NEW w \in Slot, s.slot = w, s.alive[w],
         s.pending = NoDecision, Counted(s, w), NEW t \in Dispatch(s, w)
  PROVE  Reached(t, w + 1)
<1> DEFINE m == MaskAt(s, s.pos[w])
           a == s.rules[w][m]
<1>1. m \in Mask /\ a \in Action
  <2>1. s.pos[w] \in Point /\ s.rules[w] \in [Mask -> Action]
    BY DEF State
  <2>2. m \in Mask
    BY <2>1, MaskType
  <2> QED
    BY <2>1, <2>2
<1>2. t.slot = w
  BY DispatchLeads
<1>3. ASSUME NEW cause \in {"worm_died", "worm_blocked"}, t = Kill(s, w, cause)
      PROVE  Reached(t, w + 1)
  <2>1. /\ Leads(s, t) /\ t.pending = s.pending
        /\ t.round = s.round /\ t.tick = s.tick /\ t.trails = s.trails
        /\ t.alive = [s.alive EXCEPT ![w] = FALSE]
    BY <1>3, KillLeads
  <2>2. t \in State
    BY <2>1 DEF Leads
  <2>3. Counted(t, w + 1)
    BY <2>1, <2>2, DeadServes
  <2> QED
    BY <2>1, <2>3 DEF Reached
<1>4. ASSUME NEW u \in State, Sound(u), SameCount(s, u), u.pending = NoDecision,
             NEW n \in Mask, NEW d \in Dir, t \in Follow(u, w, n, d)
      PROVE  Reached(t, w + 1)
  <2>1. Counted(u, w)
    BY <1>4, SameCountKeeps
  <2>2. Counted(t, w + 1)
    BY <1>4, <2>1, FollowServes
  <2>3. t.pending = NoDecision
    BY <1>4, FollowLeads DEF SameTurn
  <2> QED
    BY <2>2, <2>3 DEF Reached
<1>5. SameCount(s, s)
  BY DEF SameCount
<1>6. CASE LegalMoves(s, w) = {}
  <2>1. t = Kill(s, w, "worm_blocked")
    BY <1>6 DEF Dispatch
  <2> QED
    BY <1>3, <2>1
<1>7. CASE LegalMoves(s, w) # {} /\ a = GETNEW
  <2>1. t = Ask(s, w, m)
    BY <1>7 DEF Dispatch, GETNEW, DIE, DOAI, Dir
  <2> HIDE DEF m
  <2>2. SameCount(s, t) /\ t.pending # NoDecision
    BY <1>1, <2>1, AskKeepsCount
  <2>3. Counted(t, w)
    BY <2>2, SameCountKeeps
  <2> QED
    BY <1>2, <2>2, <2>3 DEF Reached
<1>8. CASE LegalMoves(s, w) # {} /\ a = DIE
  <2>1. t = Kill(s, w, "worm_died")
    BY <1>8 DEF Dispatch, GETNEW, DIE, DOAI, Dir
  <2> QED
    BY <1>3, <2>1
<1>9. CASE LegalMoves(s, w) # {} /\ a = DOAI
  <2>1. PICK d \in AutoChoices(s, w) :
           t \in Follow(IF Frozen(w) THEN s ELSE Learn(s, w, m, d), w, m, d)
    <3>1. Dispatch(s, w) = UNION {Follow(IF Frozen(w) THEN s ELSE Learn(s, w, m, d), w, m, d) :
                                    d \in AutoChoices(s, w)}
      BY <1>9 DEF Dispatch, GETNEW, DIE, DOAI, Dir
    <3> QED
      BY <3>1
  <2>2. d \in Dir /\ d \notin m
    BY DEF AutoChoices, LegalMoves
  <2>3. s.rules[w][m] \notin Dir
    BY <1>9 DEF DOAI, Dir
  <2> HIDE DEF m, a
  <2>4. CASE Frozen(w)
    <3>1. t \in Follow(s, w, m, d)
      BY <2>1, <2>4
    <3> QED
      BY <1>1, <1>4, <1>5, <2>2, <3>1
  <2>5. CASE ~Frozen(w)
    <3> DEFINE u == Learn(s, w, m, d)
    <3>1. Leads(s, u) /\ SameTurn(s, u) /\ SameCount(s, u)
      BY <1>1, <2>2, <2>3, LearnLeads, LearnKeepsCount
    <3>2. t \in Follow(u, w, m, d)
      BY <2>1, <2>5
    <3> HIDE DEF u
    <3>3. u \in State /\ Sound(u) /\ u.pending = NoDecision
      BY <3>1 DEF Leads, SameTurn
    <3> QED
      BY <1>1, <1>4, <2>2, <3>1, <3>2, <3>3
  <2> QED
    BY <2>4, <2>5
<1>10. CASE LegalMoves(s, w) # {} /\ a \in Dir
  <2>1. t \in Follow(s, w, m, a)
    BY <1>10 DEF Dispatch, GETNEW, DIE, DOAI, Dir
  <2> HIDE DEF m, a
  <2> QED
    BY <1>1, <1>4, <1>5, <1>10, <2>1
<1> QED
  BY <1>1, <1>6, <1>7, <1>8, <1>9, <1>10 DEF Action

\* The slot a scan that began at first has to serve next when its loop is at w.
NextSlot(w, first) == IF w < first THEN first ELSE w

\* One iteration of the loop serves one slot, unless the scan waits already.
LEMMA VisitServes ==
  ASSUME NEW s, Good(s), NEW w \in 0 .. 3, NEW first \in 0 .. 4,
         Reached(s, NextSlot(w, first)), NEW t \in Visit(s, w, first)
  PROVE  Reached(t, NextSlot(w + 1, first))
<1>1. s \in State /\ Sound(s)
  BY DEF Good
<1>2. CASE w < first
  <2>1. t = s /\ NextSlot(w + 1, first) = NextSlot(w, first)
    BY <1>2 DEF Visit, NextSlot
  <2> QED
    BY <2>1
<1>3. CASE s.pending # NoDecision
  <2>1. t = s
    BY <1>3 DEF Visit
  <2> QED
    BY <1>3, <2>1 DEF Reached
<1>4. CASE ~(w < first) /\ s.pending = NoDecision
  <2>1. Counted(s, w) /\ NextSlot(w + 1, first) = w + 1
    BY <1>4 DEF Reached, NextSlot
  <2>2. CASE w \notin Slot
    <3>1. t = s
      BY <2>2 DEF Visit
    <3>2. \A v \in Slot : Served(v, w + 1) = Served(v, w)
      BY <2>2, EngineAssumption DEF Served, Slot
    <3>3. Counted(s, w + 1)
      BY <2>1, <3>2 DEF Counted
    <3> QED
      BY <1>4, <2>1, <3>1, <3>3 DEF Reached
  <2>3. CASE w \in Slot
    <3> DEFINE u == [s EXCEPT !.slot = w]
    <3>1. /\ Leads(s, u) /\ u.slot = w /\ u.alive = s.alive /\ u.pending = s.pending
      BY <1>1, <2>3, SlotLeads
    <3>2. u.trails = s.trails /\ u.round = s.round /\ u.tick = s.tick
      BY <1>1 DEF State
    <3>3. t \in IF ~s.alive[w] THEN {u} ELSE Dispatch(u, w)
      BY <1>4, <2>3 DEF Visit
    <3> HIDE DEF u
    <3>4. u \in State /\ Sound(u)
      BY <3>1 DEF Leads
    <3>5. CASE ~s.alive[w]
      <4>1. s.alive = [s.alive EXCEPT ![w] = FALSE]
        <5>1. s.alive \in [Slot -> BOOLEAN] /\ s.alive[w] = FALSE
          BY <1>1, <2>3, <3>5 DEF State
        <5> QED
          BY <5>1
      <4>2. Counted(u, w + 1)
        BY <1>1, <2>1, <2>3, <3>1, <3>2, <3>4, <4>1, DeadServes
      <4> QED
        BY <1>4, <2>1, <3>1, <3>3, <3>5, <4>2 DEF Reached
    <3>6. CASE s.alive[w]
      <4>1. Counted(u, w)
        BY <2>1, <3>1, <3>2, SameCountKeeps DEF SameCount
      <4>2. Reached(t, w + 1)
        BY <1>4, <2>3, <3>1, <3>3, <3>4, <3>6, <4>1, DispatchServes
      <4> QED
        BY <2>1, <4>2
    <3> QED
      BY <3>5, <3>6
  <2> QED
    BY <2>2, <2>3
<1> QED
  BY <1>2, <1>3, <1>4

\* Every state of S is good and has come to slot k.
AllReached(S, k) == \A u \in S : Good(u) /\ Reached(u, k)

\* The same for every outcome of the iterations before it.
LEMMA VisitAllServes ==
  ASSUME NEW S, NEW w \in 0 .. 3, NEW first \in 0 .. 4, AllReached(S, NextSlot(w, first))
  PROVE  AllReached(VisitAll(S, w, first), NextSlot(w + 1, first))
<1> SUFFICES ASSUME NEW t \in VisitAll(S, w, first)
             PROVE  Good(t) /\ Reached(t, NextSlot(w + 1, first))
  BY DEF AllReached
<1>1. PICK u \in S : t \in Visit(u, w, first)
  BY DEF VisitAll
<1>2. Good(u) /\ Reached(u, NextSlot(w, first))
  BY DEF AllReached
<1>3. Good(t)
  BY <1>1, <1>2, VisitLeads DEF Good, Runs, Leads
<1> QED
  BY <1>1, <1>2, <1>3, VisitServes

\* A scan serves every slot from the first on, in index order, once.
LEMMA ScanServes ==
  ASSUME NEW s, Good(s), NEW first \in 0 .. 4, Reached(s, first)
  PROVE  AllReached(Scan(s, first), 4)
<1> DEFINE S0 == VisitAll({s}, 0, first)
           S1 == VisitAll(S0, 1, first)
           S2 == VisitAll(S1, 2, first)
           S3 == VisitAll(S2, 3, first)
<1>1. AllReached({s}, NextSlot(0, first))
  <2>1. NextSlot(0, first) = first
    BY DEF NextSlot
  <2> QED
    BY <2>1 DEF AllReached
<1>2. AllReached(S0, NextSlot(1, first))
  <2>1. AllReached(S0, NextSlot(0 + 1, first))
    BY <1>1, VisitAllServes
  <2> QED
    BY <2>1
<1> HIDE DEF S0
<1>3. AllReached(S1, NextSlot(2, first))
  <2>1. AllReached(S1, NextSlot(1 + 1, first))
    BY <1>2, VisitAllServes
  <2> QED
    BY <2>1
<1> HIDE DEF S1
<1>4. AllReached(S2, NextSlot(3, first))
  <2>1. AllReached(S2, NextSlot(2 + 1, first))
    BY <1>3, VisitAllServes
  <2> QED
    BY <2>1
<1> HIDE DEF S2
<1>5. AllReached(S3, NextSlot(3 + 1, first))
  BY <1>4, VisitAllServes
<1>6. NextSlot(3 + 1, first) = 4
  BY DEF NextSlot
<1>7. AllReached(S3, 4)
  BY <1>5, <1>6
<1> QED
  BY <1>7 DEF Scan, S0, S1, S2, S3

\* The end of a round that nothing interrupted moves the cursor and counts the
\* round, and may end the game; the board stays as it is.
LEMMA EndRoundEffect ==
  ASSUME NEW s \in State, s.pending = NoDecision
  PROVE  LET t == EndRound(s)
         IN  /\ t \in State /\ t.slot = None /\ t.round = s.round + 1
             /\ t.alive = s.alive /\ t.pending = NoDecision /\ t.trails = s.trails
             /\ t.tick = s.tick /\ t.pos = s.pos /\ t.rules = s.rules
             /\ t.owner = s.owner /\ t.cached = s.cached /\ t.score = s.score
             /\ t.over => s.over \/ \A w \in Slot : ~s.alive[w]
<1> DEFINE u    == [s EXCEPT !.slot = None, !.round = @ + 1]
           body == [worm |-> None]
           done == Emit(u, "round_completed", body)
           last == [done EXCEPT !.over = TRUE]
           end  == Emit(last, "game_over", body)
           t    == EndRound(s)
<1>1. body \in EventBody /\ {"round_completed", "game_over"} \subseteq EventType
  BY DEF EventBody, EventType
<1>2. u \in State
  <2>1. \A n \in Nat : [s EXCEPT !.slot = None, !.round = n] \in State
    BY DEF State
  <2>2. s.round + 1 \in Nat
    BY DEF State
  <2> QED
    BY <2>1, <2>2
<1>3. /\ u.alive = s.alive /\ u.pending = s.pending /\ u.slot = None
      /\ u.trails = s.trails /\ u.tick = s.tick /\ u.round = s.round + 1
      /\ u.pos = s.pos /\ u.rules = s.rules /\ u.over = s.over
      /\ u.owner = s.owner /\ u.cached = s.cached /\ u.score = s.score
  BY DEF State
<1> HIDE DEF u
<1>4. done \in State /\ SameGame(u, done)
  BY <1>1, <1>2, EmitType
<1>5. t = IF \E w \in Slot : s.alive[w] THEN done ELSE end
  BY DEF EndRound, u
<1> HIDE DEF done
<1>6. /\ last \in State /\ last.alive = done.alive /\ last.pending = done.pending
      /\ last.slot = done.slot /\ last.trails = done.trails
      /\ last.tick = done.tick /\ last.round = done.round
      /\ last.pos = done.pos /\ last.rules = done.rules
      /\ last.owner = done.owner /\ last.cached = done.cached /\ last.score = done.score
  BY <1>4 DEF State
<1> HIDE DEF last
<1>7. end \in State /\ SameGame(last, end)
  BY <1>1, <1>6, EmitType
<1> HIDE DEF end, t
<1>8. /\ t \in State /\ t.slot = None /\ t.round = s.round + 1
      /\ t.alive = s.alive /\ t.pending = NoDecision /\ t.trails = s.trails
      /\ t.tick = s.tick /\ t.pos = s.pos /\ t.rules = s.rules
      /\ t.owner = s.owner /\ t.cached = s.cached /\ t.score = s.score
      /\ t.over => s.over \/ \A w \in Slot : ~s.alive[w]
  BY <1>3, <1>4, <1>5, <1>6, <1>7 DEF SameGame
<1> QED
  BY <1>8 DEF t

\* The end of a round counts it and puts the cursor to rest.
LEMMA EndRoundServes ==
  ASSUME NEW s, Good(s), Reached(s, 4)
  PROVE  Ordered(EndRound(s))
<1> DEFINE t == EndRound(s)
<1>1. s \in State
  BY DEF Good
<1>2. CASE s.pending # NoDecision
  BY <1>2 DEF EndRound, Ordered, Reached
<1>3. CASE s.pending = NoDecision
  <2>1. /\ t.alive = s.alive /\ t.pending = NoDecision /\ t.slot = None
        /\ t.trails = s.trails /\ t.tick = s.tick /\ t.round = s.round + 1
    BY <1>1, <1>3, EndRoundEffect
  <2> HIDE DEF t
  <2>2. \A v \in Slot : s.round + Served(v, 4) = s.round + 1 + Served(v, 0)
    BY <1>1, EngineAssumption DEF Served, Slot, State
  <2>3. Counted(s, 4)
    BY <1>3 DEF Reached
  <2>4. Counted(t, 0)
    BY <2>1, <2>2, <2>3 DEF Counted, Moves
  <2> QED
    BY <2>1, <2>4 DEF Ordered, t
<1> QED
  BY <1>2, <1>3

\* AdvanceRound starts at the first slot, because the cursor is at rest.
LEMMA AdvanceServes ==
  ASSUME NEW s, Good(s), Ordered(s), CanAdvance(s), NEW t \in AdvanceOutcomes(s)
  PROVE  Ordered(t)
<1> DEFINE q == Quiet(s)
<1>1. s \in State /\ Sound(s) /\ s.pending = NoDecision /\ s.slot = None
  BY DEF Good, CanAdvance, Ordered
<1>2. Leads(s, q) /\ SameGame(s, q)
  BY <1>1, QuietLeads
<1>3. PICK u : u \in Scan(q, 0) /\ t = EndRound(u)
  BY <1>1 DEF AdvanceOutcomes
<1> HIDE DEF q
<1>4. Good(q)
  BY <1>1, <1>2 DEF Good, Leads, SameGame, PendingCurrent
<1>5. Counted(q, 0)
  BY <1>1, <1>2, SameCountKeeps DEF Ordered, SameGame, SameCount
<1>6. Reached(q, 0)
  BY <1>1, <1>2, <1>5 DEF Reached, SameGame
<1>7. AllReached(Scan(q, 0), 4)
  BY <1>4, <1>6, ScanServes
<1>8. Good(u) /\ Reached(u, 4)
  BY <1>3, <1>7 DEF AllReached
<1> QED
  BY <1>3, <1>8, EndRoundServes

\* Submit makes the move that was asked for and goes on with the slot behind it.
LEMMA SubmitServes ==
  ASSUME NEW s, Good(s), Ordered(s), NEW d \in Dir, CanSubmit(s, d),
         NEW t \in SubmitOutcomes(s, d)
  PROVE  Ordered(t)
<1> DEFINE w == s.pending.slot
           m == s.pending.mask
           q == Quiet(s)
           l == Learn(q, w, m, d)
           answered == [l EXCEPT !.pending = NoDecision, !.slot = w + 1]
<1>1. s \in State /\ Sound(s) /\ PendingCurrent(s) /\ s.pending # NoDecision
  BY DEF Good, CanSubmit
<1>2. w \in Slot /\ m \in Mask
  <2>1. s.pending \in Decision
    BY <1>1 DEF State
  <2> QED
    BY <1>1, <2>1 DEF Decision
<1>3. m = MaskAt(s, s.pos[w]) /\ s.rules[w][m] = GETNEW /\ s.slot = w
  BY <1>1 DEF PendingCurrent
<1>4. d \notin m
  BY <1>3 DEF CanSubmit, LegalMoves
<1>5. Leads(s, q) /\ SameGame(s, q) /\ q \in State /\ Sound(q)
  BY <1>1, QuietLeads DEF Leads
<1>6. Counted(s, w)
  BY <1>1, <1>3 DEF Ordered
<1> HIDE DEF q, w, m
<1>7. q.rules[w][m] \notin Dir
  BY <1>3, <1>5 DEF SameGame, GETNEW, Dir
<1>8. Leads(q, l) /\ SameCount(q, l)
  BY <1>2, <1>4, <1>5, <1>7, LearnLeads, LearnKeepsCount
<1> HIDE DEF l
<1>9. l \in State /\ Sound(l)
  BY <1>8 DEF Leads
<1>10. /\ answered \in State /\ SameBoard(l, answered)
       /\ answered.pending = NoDecision /\ SameCount(l, answered)
  <2>1. w + 1 \in Slot \cup {None, N} /\ NoDecision \in Decision
    BY <1>2, EngineAssumption DEF Slot, Decision
  <2>2. \A n \in Slot \cup {None, N}, f \in Decision :
           /\ [l EXCEPT !.pending = f, !.slot = n] \in State
           /\ SameBoard(l, [l EXCEPT !.pending = f, !.slot = n])
           /\ [l EXCEPT !.pending = f, !.slot = n].pending = f
           /\ SameCount(l, [l EXCEPT !.pending = f, !.slot = n])
    BY <1>9 DEF State, SameBoard, SameCount
  <2> QED
    BY <2>1, <2>2
<1>11. PICK u, v : /\ u \in Follow(answered, w, m, d)
                   /\ v \in Scan(u, w + 1)
                   /\ t = EndRound(v)
  BY DEF SubmitOutcomes, q, w, m, l
<1> HIDE DEF answered
<1>12. Sound(answered) /\ Counted(answered, w)
  <2>1. Sound(answered)
    BY <1>9, <1>10, SameBoardLeads DEF Leads
  <2>2. SameCount(s, answered)
    BY <1>5, <1>8, <1>10 DEF SameGame, SameCount
  <2> QED
    BY <1>6, <2>1, <2>2, SameCountKeeps
<1>13. Leads(answered, u) /\ SameTurn(answered, u)
  BY <1>2, <1>10, <1>11, <1>12, FollowLeads
<1>14. Good(u) /\ u.pending = NoDecision
  BY <1>10, <1>13 DEF Good, Leads, SameTurn, PendingCurrent
<1>15. Counted(u, w + 1)
  BY <1>2, <1>10, <1>11, <1>12, FollowServes
<1>16. Reached(u, w + 1) /\ w + 1 \in 0 .. 4
  BY <1>2, <1>14, <1>15, EngineAssumption DEF Reached, Slot
<1>17. AllReached(Scan(u, w + 1), 4)
  BY <1>14, <1>16, ScanServes
<1>18. Good(v) /\ Reached(v, 4)
  BY <1>11, <1>17 DEF AllReached
<1> QED
  BY <1>11, <1>18, EndRoundServes

\* Nobody has moved in the initial state.
LEMMA InitOrdered == Ordered(InitialState)
<1> DEFINE s == InitialState
<1>1. /\ s.trails = [e \in Edge |-> None] /\ s.pending = NoDecision /\ s.slot = None
      /\ s.round = 0 /\ s.tick = 0
  BY DEF InitialState
<1> HIDE DEF s
<1>2. \A e \in Edge : s.trails[e] = None
  BY <1>1
<1>3. {e \in Edge : s.trails[e] # None} = {}
  BY <1>2
<1>4. ASSUME NEW w \in Slot PROVE Moves(s, w) = 0 /\ Served(w, 0) = 0
  <2>1. w # None /\ ~(w < 0)
    BY DEF Slot, None
  <2>2. {e \in Edge : s.trails[e] = w} = {}
    BY <1>2, <2>1
  <2> QED
    BY <2>1, <2>2, FS_EmptySet DEF Moves, Served
<1>5. Counted(s, 0)
  BY <1>1, <1>3, <1>4, FS_EmptySet DEF Counted
<1> QED
  BY <1>1, <1>5 DEF Ordered, s

\* In every game every worm that lives has made exactly one move for every turn
\* it has had, and no slot has overtaken the one that is waited for.
THEOREM SlotsTakeTurns == Spec => []SlotOrder
<1>1. Init => Ordered(game)
  BY InitOrdered DEF Init
<1>2. Inductive /\ Ordered(game) /\ [Next]_game => Ordered(game)'
  <2> SUFFICES ASSUME Inductive, Ordered(game), [Next]_game
               PROVE  Ordered(game')
    OBVIOUS
  <2>1. CASE AdvanceRound
    BY <2>1, AdvanceServes DEF AdvanceRound, Inductive
  <2>2. CASE Answer
    <3>1. PICK d \in Dir : CanSubmit(game, d) /\ game' \in SubmitOutcomes(game, d)
      BY <2>2 DEF Answer, Submit
    <3> QED
      BY <3>1, SubmitServes DEF Inductive
  <2>3. CASE UNCHANGED game
    BY <2>3
  <2> QED
    BY <2>1, <2>2, <2>3 DEF Next
<1>3. Inductive /\ Ordered(game) => SlotOrder
  <2> SUFFICES ASSUME Inductive, Ordered(game)
               PROVE  SlotOrder
    OBVIOUS
  <2>1. game \in State /\ PendingCurrent(game)
    BY DEF Inductive, Good
  <2>2. CASE game.pending = NoDecision
    <3>1. \A w \in Slot : Turns(game, w) = game.round + Served(w, 0)
      BY <2>2 DEF Ordered, Turns, Served, Slot
    <3> QED
      BY <2>2, <3>1 DEF Ordered, Counted, SlotOrder
  <2>3. CASE game.pending # NoDecision
    <3>1. game.slot \in Slot
      <4>1. game.pending \in Decision
        BY <2>1 DEF State
      <4> QED
        BY <2>1, <2>3, <4>1 DEF PendingCurrent, Decision
    <3>2. game.slot # None
      BY <3>1 DEF Slot, None
    <3>3. \A w \in Slot : Turns(game, w) = game.round + Served(w, game.slot)
      BY <3>2 DEF Turns, Served
    <3> QED
      BY <2>3, <3>3 DEF Ordered, Counted, SlotOrder
  <2> QED
    BY <2>2, <2>3
<1> QED
  BY <1>1, <1>2, <1>3, AlwaysInductive, PTL DEF Spec

=============================================================================
