---------------------------- MODULE ExtensionProofs ----------------------------
(***************************************************************************)
(* Machine-checked facts about Extension, for every board, every number of *)
(* worms (one to four), every configuration that Validate accepts and every *)
(* world that New generates from it.                                       *)
(***************************************************************************)
EXTENDS Extension, WormsEngineProofs

\* Different spokes of a dot lead to different dots.  Every bounded board is roomy,
\* and every torus with more than two columns and two rows.
Roomy == ~Classic \/ (Width > 2 /\ Height > 2)

\* The board, or a configuration without expiry, on which no cached mask goes stale.
Tidy(s) == Roomy \/ s.config.ttl = 0

Firm(b) ==
  /\ b \in State
  /\ Owned(b) /\ Scored(b) /\ Apart(b)
  /\ \A w \in Slot : ValidRules(b.rules[w])

\* The dots of a team.
TeamDots(s, t) ==
  {p \in Point : s.base.owner[p] \in {w \in Slot : s.config.team[w] = t}}

\* The weighted scores and, but for the credit that w's team still gets, the teams'.
Weighed(s) == \A w \in Slot : s.weighted[w] = Worth(s, Dots(s.base.owner, w))

Owing(s, w, credit) ==
  \A t \in Team : s.team[t] + (IF s.config.team[w] = t THEN credit ELSE 0)
                    = Worth(s, TeamDots(s, t))

\* Every trail that fades, and no other edge, has an expiry no earlier than n.
Timed(s, n) ==
  \A e \in Edge :
    /\ s.temporary[e] # 0 => /\ s.config.ttl > 0 /\ s.base.trails[e] # None
                             /\ s.temporary[e] \in n .. s.base.tick + s.config.ttl
    /\ s.config.ttl > 0 /\ s.base.trails[e] # None => s.temporary[e] # 0

Fed(s) ==
  s.config.limit > 0 =>
    \A w \in Slot : /\ s.energy[w] <= s.config.limit
                    /\ s.base.alive[w] => s.energy[w] > 0

\* The dots that the world of a new game passes over.
Spared(c) ==
  {Start[w] : w \in {v \in Slot : Kind[v] # "ASLEEP"}} \cup UNION {e \in Edge : c.oneWay[e] # Free}

\* The world is the one of the new game, a worm that has not moved is where it started,
\* and none is where the configuration has a barrier.
Placed(s) ==
  /\ s.config.seed \in Draws(s.config.rates)
  /\ s.barred = World(s.config, Spared(s.config))
  /\ \A w \in Slot : /\ w \notin s.moved => s.base.pos[w] = Start[w]
                     /\ w \in s.moved \/ s.base.alive[w] => Kind[w] # "ASLEEP"
                     /\ s.config.barred[s.base.pos[w]] = {}

\* Inside a handler: expiries run from n on, and w's team has a credit to come.
Stirred(s, n, w, credit) ==
  /\ s \in ExtendedState /\ s.config.enabled
  /\ Placed(s)
  /\ Firm(s.base)
  /\ Tidy(s) => Fresh(s.base)
  /\ Weighed(s) /\ Owing(s, w, credit)
  /\ Timed(s, n)
  /\ Fed(s)
  /\ s.base.over => \A v \in Slot : ~s.base.alive[v]

\* Between two moves nothing is due.
Held(s) ==
  /\ Stirred(s, s.base.tick + 1, 0, 0)
  /\ s.base.tick > 0 => s.records > 0

\* A question is about the present, and somebody could answer it.
Asked(s) ==
  s.base.pending # NoDecision =>
    LET w == s.base.pending.slot IN
      /\ s.base.slot = w
      /\ s.base.alive[w]
      /\ s.base.pending.mask = MaskAt(s.base, s.base.pos[w])
      /\ s.base.rules[w][s.base.pending.mask] = GETNEW
      /\ Exits(s, w) # {}

\* The first k slots have had their turn in this round and paid for it.
Paid(s, k) ==
  s.config.limit > 0 =>
    \A w \in Slot :
      LET due == s.config.limit - (s.base.round + Served(w, k))
      IN  IF s.base.alive[w] THEN s.energy[w] = due ELSE s.energy[w] >= due

AtRest(s) ==
  IF s.base.pending = NoDecision THEN s.base.slot = None /\ Paid(s, 0)
                                 ELSE Paid(s, s.base.slot)

\* What a handler leaves behind.
Rests(s) == Held(s) /\ Asked(s) /\ AtRest(s)

\* A game without extensions.
PlainGame(s) ==
  /\ s \in ExtendedState /\ ~s.config.enabled
  /\ Good(s.base) /\ ScanEnded(s.base)
  /\ \A e \in Edge : s.temporary[e] = 0

ExtensionInv == PlainGame(game) \/ Rests(game)

\* From s the game may come to t, and only an expiry takes something back.
Faded(s, e, t) == s.temporary[e] \in 1 .. t.base.tick

\* The table of a frozen worm stays what it is.
FrozenKept(b, c) == \A v \in Slot : Frozen(v) => c.rules[v] = b.rules[v]

Onward(s, t) ==
  /\ t.config = s.config
  /\ FrozenKept(s.base, t.base)
  /\ s.base.tick <= t.base.tick
  /\ \A e \in Edge : s.base.trails[e] # None =>
       \/ Faded(s, e, t)
       \/ t.base.trails[e] = s.base.trails[e] /\ t.temporary[e] = s.temporary[e]
  /\ Tidy(s) => \A p \in Point :
       (s.base.owner[p] # None /\ t.base.owner[p] # s.base.owner[p]) =>
         \E e \in Edge : p \in e /\ Faded(s, e, t)
  /\ \A w \in Slot : ~s.base.alive[w] => ~t.base.alive[w]

------------------------------------------------------------------------------
(* Sums.                                                                   *)

Units(f, S) == UNION {{x} \X (1 .. f[x]) : x \in S}

\* The units of a sum are finitely many.
LEMMA UnitsFinite ==
  ASSUME NEW A, NEW f \in [A -> Nat], NEW S, S \subseteq A, IsFiniteSet(S)
  PROVE  IsFiniteSet(Units(f, S)) /\ Total(f, S) \in Nat
<1>1. \A x \in S : IsFiniteSet({x} \X (1 .. f[x]))
  <2>1. SUFFICES ASSUME NEW x \in S PROVE IsFiniteSet({x} \X (1 .. f[x]))
    OBVIOUS
  <2>2. f[x] \in Int /\ 1 \in Int
    OBVIOUS
  <2>3. IsFiniteSet({x}) /\ IsFiniteSet(1 .. f[x])
    BY <2>2, FS_Singleton, FS_Interval
  <2> QED
    BY <2>3, FS_Product
<1>2. IsFiniteSet({{x} \X (1 .. f[x]) : x \in S})
  <2>1. LET T == {{x} \X (1 .. f[x]) : x \in S} IN
          \A g : g = [x \in S |-> {x} \X (1 .. f[x])] => g \in Surjection(S, T)
    BY DEF Surjection
  <2> QED
    BY <2>1, FS_Surjection
<1>3. IsFiniteSet(Units(f, S))
  BY <1>1, <1>2, FS_UNION DEF Units
<1> QED
  BY <1>3, FS_CardinalityType DEF Total, Units

\* A sum over no element is zero.
LEMMA TotalOfNone == \A f : Total(f, {}) = 0
BY FS_EmptySet DEF Total

\* A sum over one element is its value.
LEMMA TotalOfOne ==
  ASSUME NEW A, NEW f \in [A -> Nat], NEW x \in A
  PROVE  Total(f, {x}) = f[x]
<1>1. Units(f, {x}) = {x} \X (1 .. f[x])
  BY DEF Units
<1>2. f[x] \in Nat /\ 1 \in Int
  OBVIOUS
<1>3. /\ IsFiniteSet({x}) /\ Cardinality({x}) = 1
      /\ IsFiniteSet(1 .. f[x]) /\ Cardinality(1 .. f[x]) = f[x]
  <2>1. PICK n \in Nat : n = f[x]
    BY <1>2
  <2>2. IsFiniteSet(1 .. n) /\ Cardinality(1 .. n) = IF 1 > n THEN 0 ELSE n - 1 + 1
    BY FS_Interval
  <2>3. Cardinality(1 .. n) = n
    BY <2>2
  <2> QED
    BY <2>1, <2>2, <2>3, FS_Singleton
<1>4. Cardinality({x} \X (1 .. f[x])) = 1 * f[x]
  BY <1>3, FS_Product
<1> QED
  BY <1>1, <1>2, <1>4 DEF Total, Units

\* The sum over two disjoint sets is the sum of both sums.
LEMMA TotalOfBoth ==
  ASSUME NEW A, NEW f \in [A -> Nat], NEW S, NEW T, S \subseteq A, T \subseteq A,
         IsFiniteSet(S), IsFiniteSet(T), S \cap T = {}
  PROVE  Total(f, S \cup T) = Total(f, S) + Total(f, T)
<1>1. IsFiniteSet(Units(f, S)) /\ IsFiniteSet(Units(f, T))
  BY UnitsFinite
<1>2. Units(f, S \cup T) = Units(f, S) \cup Units(f, T)
  BY DEF Units
<1>3. Units(f, S) \cap Units(f, T) = {}
  BY DEF Units
<1>4. Cardinality({}) = 0
  BY FS_EmptySet
<1>5. Cardinality(Units(f, S) \cup Units(f, T))
        = Cardinality(Units(f, S)) + Cardinality(Units(f, T)) - 0
  BY <1>1, <1>3, <1>4, FS_Union
<1>6. Cardinality(Units(f, S)) \in Nat /\ Cardinality(Units(f, T)) \in Nat
  BY <1>1, FS_CardinalityType
<1>7. /\ Total(f, S) = Cardinality(Units(f, S)) /\ Total(f, T) = Cardinality(Units(f, T))
      /\ Total(f, S \cup T) = Cardinality(Units(f, S) \cup Units(f, T))
  BY <1>2 DEF Total, Units
<1> HIDE DEF Units, Total
<1> QED
  BY <1>5, <1>6, <1>7

\* What is taken out of a set is taken off its sum.
LEMMA TotalOfRest ==
  ASSUME NEW A, NEW f \in [A -> Nat], NEW S, NEW T, S \subseteq A, T \subseteq S,
         IsFiniteSet(S)
  PROVE  Total(f, S \ T) = Total(f, S) - Total(f, T)
<1>1. IsFiniteSet(T) /\ IsFiniteSet(S \ T)
  BY FS_Subset, FS_Difference
<1>2. (S \ T) \cup T = S /\ (S \ T) \cap T = {} /\ T \subseteq A /\ S \ T \subseteq A
  OBVIOUS
<1>3. Total(f, S) = Total(f, S \ T) + Total(f, T)
  BY <1>1, <1>2, TotalOfBoth
<1>4. Total(f, S \ T) \in Nat /\ Total(f, T) \in Nat
  BY <1>1, <1>2, UnitsFinite
<1> QED
  BY <1>3, <1>4

------------------------------------------------------------------------------
(* The ends of a trail.                                                    *)

\* Every dot of an edge has a spoke that is this edge.
LEMMA EdgeHasSpoke ==
  ASSUME NEW e \in Edge, NEW p \in e
  PROVE  p \in Point /\ \E d \in Dir : EdgeOf(p, d) = e
<1>1. PICK q \in Point, d \in Dir : e = EdgeOf(q, d)
  BY DEF Edge
<1>2. e \subseteq Point
  BY DEF Edge
<1>3. CASE p = q
  BY <1>1, <1>2, <1>3
<1>4. CASE p # q
  <2>1. p = Neighbor(q, d) /\ p \in Point
    BY <1>1, <1>2, <1>4 DEF EdgeOf
  <2>2. Opposite(d) \in Dir /\ Neighbor(p, Opposite(d)) = q
    BY <2>1, OppositeLeadsBack DEF Dir, Opposite
  <2>3. EdgeOf(p, Opposite(d)) = e
    BY <1>1, <2>1, <2>2 DEF EdgeOf
  <2> QED
    BY <2>1, <2>2, <2>3
<1> QED
  BY <1>3, <1>4

\* One step to either side, or none, around a ring of more than two.
LEMMA RingSteps ==
  ASSUME NEW W \in Nat, W > 2, NEW a \in 0 .. W - 1, NEW i \in -1 .. 1, NEW j \in -1 .. 1,
         (a + i) % W = (a + j) % W
  PROVE  i = j
<1>1. a + i \in -1 .. W /\ a + j \in -1 .. W
  OBVIOUS
<1>2. (a + i) % W = IF a + i = -1 THEN W - 1 ELSE IF a + i = W THEN 0 ELSE a + i
  BY <1>1, ModSmall
<1>3. (a + j) % W = IF a + j = -1 THEN W - 1 ELSE IF a + j = W THEN 0 ELSE a + j
  BY <1>1, ModSmall
<1>4. /\ a \in Int /\ i \in Int /\ j \in Int /\ W \in Int /\ W > 2 /\ 0 <= a /\ a <= W - 1
      /\ -1 <= i /\ i <= 1 /\ -1 <= j /\ j <= 1
  OBVIOUS
<1> QED
  BY <1>2, <1>3, <1>4

\* The offsets of two directions differ.
LEMMA OffsetsDiffer ==
  ASSUME NEW p, NEW d \in Dir, NEW e \in Dir, RowStep[d + 1] = RowStep[e + 1],
         ColumnStep(p)[d + 1] = ColumnStep(p)[e + 1]
  PROVE  d = e
<1>1. ColumnStep(p) \in {OddStep, EvenStep, AxialStep}
  BY DEF ColumnStep
<1>2. ASSUME NEW step \in {OddStep, EvenStep, AxialStep}, step[d + 1] = step[e + 1]
      PROVE  d = e
  BY <1>2 DEF RowStep, OddStep, EvenStep, AxialStep, Dir
<1> QED
  BY <1>1, <1>2

\* Two pairs of coordinates that wrap to one dot agree in each.
LEMMA WrapsMeet ==
  ASSUME NEW x, NEW y, NEW u, NEW v, Wrap(<<x, y>>) = Wrap(<<u, v>>)
  PROVE  /\ ((x - Origin) % Width) + Origin = ((u - Origin) % Width) + Origin
         /\ ((y - Origin) % Height) + Origin = ((v - Origin) % Height) + Origin
<1> DEFINE X(z) == ((z - Origin) % Width) + Origin
           Y(z) == ((z - Origin) % Height) + Origin
<1>1. \A p : Wrap(p) = <<X(p[1]), Y(p[2])>>
  BY DEF Wrap
<1> HIDE DEF X, Y
<1>2. <<X(x), Y(y)>> = <<X(u), Y(v)>>
  BY <1>1
<1>3. X(x) = X(u) /\ Y(y) = Y(v)
  BY <1>2
<1> QED
  BY <1>3 DEF X, Y

\* On a roomy board a dot's spokes lead to six different dots.
LEMMA SpokesDiffer ==
  ASSUME Roomy, NEW p \in Point, NEW d \in Dir, NEW e \in Dir, Neighbor(p, d) = Neighbor(p, e)
  PROVE  d = e
<1> DEFINE c(x) == ColumnStep(p)[x + 1]
           r(x) == RowStep[x + 1]
<1>1. c(d) \in -1 .. 1 /\ c(e) \in -1 .. 1 /\ r(d) \in -1 .. 1 /\ r(e) \in -1 .. 1
  BY StepRange
<1>2. SUFFICES c(d) = c(e) /\ r(d) = r(e)
  BY OffsetsDiffer
<1>3. /\ p[1] - Origin \in 0 .. Width - 1 /\ p[2] - Origin \in 0 .. Height - 1
      /\ p[1] \in Int /\ p[2] \in Int /\ Origin \in Int /\ Width \in Nat /\ Height \in Nat
  BY LatticeAssumption DEF Point, Origin
<1>4. CASE ~Classic
  <2>1. \A x : Neighbor(p, x) = <<p[1] + c(x), p[2] + r(x)>>
    BY <1>4 DEF Neighbor
  <2>2. p[1] + c(d) = p[1] + c(e) /\ p[2] + r(d) = p[2] + r(e)
    BY <2>1
  <2> HIDE DEF c, r
  <2> QED
    BY <1>1, <1>3, <2>2
<1>5. CASE Classic
  <2>1. /\ Neighbor(p, d) = Wrap(<<p[1] + c(d), p[2] + r(d)>>)
        /\ Neighbor(p, e) = Wrap(<<p[1] + c(e), p[2] + r(e)>>)
    BY <1>5 DEF Neighbor
  <2> HIDE DEF c, r
  <2>2. PICK i, j, k, l : i = p[1] + c(d) /\ j = p[2] + r(d) /\ k = p[1] + c(e) /\ l = p[2] + r(e)
    OBVIOUS
  <2>3. /\ ((i - Origin) % Width) + Origin = ((k - Origin) % Width) + Origin
        /\ ((j - Origin) % Height) + Origin = ((l - Origin) % Height) + Origin
    <3>1. Wrap(<<i, j>>) = Wrap(<<k, l>>)
      BY <2>1, <2>2
    <3> QED
      BY <3>1, WrapsMeet
  <2> DEFINE a == p[1] - Origin
             b == p[2] - Origin
  <2>4. /\ ((a + c(d)) % Width) + Origin = ((a + c(e)) % Width) + Origin
        /\ ((b + r(d)) % Height) + Origin = ((b + r(e)) % Height) + Origin
    <3>1. /\ i - Origin = a + c(d) /\ k - Origin = a + c(e)
          /\ j - Origin = b + r(d) /\ l - Origin = b + r(e)
      BY <1>1, <1>3, <2>2
    <3> HIDE DEF a, b
    <3> QED
      BY <2>3, <3>1
  <2> a \in 0 .. Width - 1 /\ b \in 0 .. Height - 1
    BY <1>3
  <2> HIDE DEF a, b
  <2>5. Width > 2 /\ Height > 2
    BY <1>5 DEF Roomy
  <2>6. \A m, n \in Int : m + Origin = n + Origin => m = n
    BY <1>3
  <2>7. \A n \in Int : n % Width \in Int /\ n % Height \in Int
    BY <1>3, <2>5
  <2>8. a + c(d) \in Int /\ a + c(e) \in Int /\ b + r(d) \in Int /\ b + r(e) \in Int
    BY <1>1
  <2>9. (a + c(d)) % Width = (a + c(e)) % Width /\ (b + r(d)) % Height = (b + r(e)) % Height
    BY <2>4, <2>6, <2>7, <2>8
  <2>10. c(d) = c(e)
    BY <1>1, <1>3, <2>5, <2>9, RingSteps
  <2>11. r(d) = r(e)
    BY <1>1, <1>3, <2>5, <2>9, RingSteps
  <2> QED
    BY <2>10, <2>11
<1> QED
  BY <1>4, <1>5

\* direction names a spoke that leads there, if there is one.
LEMMA DirectionLeadsThere ==
  ASSUME NEW p, NEW d \in Dir
  PROVE  LET q == Neighbor(p, d) IN
         DirectionTo(p, q) \in Dir /\ Neighbor(p, DirectionTo(p, q)) = q
<1> DEFINE q == Neighbor(p, d)
           T == {x \in Dir : Neighbor(p, x) = q}
<1>1. \E x \in Dir : Neighbor(p, x) = q /\ \A y \in 0 .. x - 1 : Neighbor(p, y) # q
  <2> HIDE DEF q
  <2>1. \E x \in T : \A y \in T : x <= y
    <3>1. d \in T
      BY DEF q
    <3>2. T \subseteq 0 .. 5
      BY DEF Dir
    <3> HIDE DEF T
    <3> QED
      BY <3>1, <3>2
  <2>2. PICK x \in T : \A y \in T : x <= y
    BY <2>1
  <2>3. ASSUME NEW y \in 0 .. x - 1, Neighbor(p, y) = q PROVE FALSE
    BY <2>2, <2>3 DEF Dir
  <2> QED
    BY <2>2, <2>3
<1> HIDE DEF q
<1> QED
  BY <1>1 DEF DirectionTo, q

------------------------------------------------------------------------------
(* Expiry.                                                                 *)

\* What some dots count is a number.
LEMMA WorthType ==
  ASSUME NEW s \in ExtendedState, NEW S, S \subseteq Point
  PROVE  /\ s.config.weight \in [Point -> Nat] /\ IsFiniteSet(S)
         /\ Worth(s, S) \in Nat
<1>1. s.config.weight \in [Point -> Nat]
  BY DEF ExtendedState, Config
<1>2. IsFiniteSet(S)
  BY PointFinite, FS_Subset
<1> QED
  BY <1>1, <1>2, UnitsFinite DEF Worth

\* The dots at the ends of the trails that are due.
Ends(s) == UNION Due(s)

\* A spoke is given back at both ends of a trail, and nowhere else.
LEMMA FreedAtTheEnds ==
  ASSUME NEW s \in ExtendedState, NEW p \in Point
  PROVE  IF p \in Ends(s) THEN FreedAt(s, p) \cap Dir # {} ELSE FreedAt(s, p) = {}
<1>1. CASE p \notin Ends(s)
  <2>1. {r \in Point : {p, r} \in Due(s)} = {}
    BY <1>1 DEF Ends
  <2> QED
    BY <1>1, <2>1 DEF FreedAt
<1>2. CASE p \in Ends(s)
  <2>1. PICK e \in Due(s) : p \in e
    BY <1>2 DEF Ends
  <2>2. e \in Edge
    BY DEF Due
  <2>3. PICK d \in Dir : EdgeOf(p, d) = e
    BY <2>1, <2>2, EdgeHasSpoke
  <2>4. {p, Neighbor(p, d)} \in Due(s) /\ Neighbor(p, d) \in Point
    BY <2>2, <2>3 DEF EdgeOf, Edge
  <2>5. DirectionTo(p, Neighbor(p, d)) \in Dir
    BY DirectionLeadsThere
  <2>6. DirectionTo(p, Neighbor(p, d)) \in FreedAt(s, p)
    BY <2>4 DEF FreedAt
  <2> QED
    BY <1>2, <2>5, <2>6
<1> QED
  BY <1>1, <1>2

\* A worm loses the dots it owns at the ends of the trails that are due.
LEMMA LostAtTheEnds ==
  ASSUME NEW s \in ExtendedState, NEW w
  PROVE  LostBy(s, w) = {p \in Ends(s) : s.base.owner[p] = w} /\ LostBy(s, w) \subseteq Point
<1>1. Ends(s) \subseteq Point
  BY DEF Ends, Due, Edge
<1>2. \A p \in Ends(s) : s.base.cached[p] \ FreedAt(s, p) # Dir
  BY <1>1, FreedAtTheEnds
<1> QED
  BY <1>1, <1>2 DEF LostBy, Ends

\* What neither an expiry nor the bookkeeping of energy and scores touches.
SameMoment(b, c) ==
  /\ c.tick = b.tick /\ c.round = b.round /\ c.pos = b.pos /\ c.rules = b.rules
  /\ c.slot = b.slot /\ c.pending = b.pending

\* What expire does to the board.
ClearedDoes(s, b) ==
  /\ b \in State
  /\ SameMoment(s.base, b) /\ b.alive = s.base.alive /\ b.over = s.base.over
  /\ b.trails = [e \in Edge |-> IF e \in Due(s) THEN None ELSE s.base.trails[e]]
  /\ b.cached = [p \in Point |-> s.base.cached[p] \ FreedAt(s, p)]
  /\ b.owner = [p \in Point |-> IF \E w \in Slot : p \in LostBy(s, w)
                                THEN None ELSE s.base.owner[p]]
  /\ b.score = [w \in Slot |-> Floor(s.base.score[w] - Cardinality(LostBy(s, w)))]

\* It does that, and stays in the type.
LEMMA ClearedEffect ==
  ASSUME NEW s \in ExtendedState
  PROVE  ClearedDoes(s, Cleared(s))
<1> DEFINE trails == [e \in Edge |-> IF e \in Due(s) THEN None ELSE s.base.trails[e]]
           cached == [p \in Point |-> s.base.cached[p] \ FreedAt(s, p)]
           owner == [p \in Point |-> IF \E w \in Slot : p \in LostBy(s, w)
                                     THEN None ELSE s.base.owner[p]]
           score == [w \in Slot |-> Floor(s.base.score[w] - Cardinality(LostBy(s, w)))]
<1>1. s.base \in State
  BY DEF ExtendedState
<1>2. PICK r : r = s.base
  OBVIOUS
<1>3. Cleared(s) = [r EXCEPT !.trails = trails, !.cached = cached, !.owner = owner,
                             !.score = score]
  BY <1>2 DEF Cleared
<1>4. /\ trails \in [Edge -> Slot \cup {None}]
      /\ cached \in [Point -> Mask]
      /\ owner \in [Point -> Slot \cup {None}]
  BY <1>1 DEF State, Mask
<1>5. score \in [Slot -> Nat]
  <2>1. ASSUME NEW w \in Slot PROVE Floor(s.base.score[w] - Cardinality(LostBy(s, w))) \in Nat
    <3>1. LostBy(s, w) \subseteq Point
      BY LostAtTheEnds
    <3>2. Cardinality(LostBy(s, w)) \in Nat
      BY <3>1, PointFinite, FS_Subset, FS_CardinalityType
    <3>3. s.base.score[w] \in Nat
      BY <1>1 DEF State
    <3> QED
      BY <3>2, <3>3 DEF Floor
  <2> QED
    BY <2>1
<1> HIDE DEF trails, cached, owner, score
<1> DEFINE C(x, y, z, u) == [r EXCEPT !.trails = x, !.cached = y, !.owner = z, !.score = u]
<1>6. \A x, y, z, u :
        /\ C(x, y, z, u).trails = x /\ C(x, y, z, u).cached = y
        /\ C(x, y, z, u).owner = z /\ C(x, y, z, u).score = u
        /\ SameMoment(r, C(x, y, z, u))
        /\ C(x, y, z, u).alive = r.alive /\ C(x, y, z, u).over = r.over
  BY <1>1, <1>2 DEF State, SameMoment
<1>7. \A x \in [Edge -> Slot \cup {None}], y \in [Point -> Mask],
         z \in [Point -> Slot \cup {None}], u \in [Slot -> Nat] : C(x, y, z, u) \in State
  BY <1>1, <1>2 DEF State
<1>10. Cleared(s) = C(trails, cached, owner, score)
  BY <1>3
<1> HIDE DEF C
<1>8. Cleared(s) \in State
  BY <1>4, <1>5, <1>7, <1>10
<1>9. LET c == Cleared(s) IN
        /\ c.trails = trails /\ c.cached = cached /\ c.owner = owner /\ c.score = score
        /\ SameMoment(r, c) /\ c.alive = r.alive /\ c.over = r.over
  BY <1>6, <1>10
<1> QED
  BY <1>2, <1>8, <1>9 DEF ClearedDoes, trails, cached, owner, score

\* The dots that the worms of a team lose.
LostIn(s, c) == UNION {LostBy(s, w) : w \in {v \in Slot : s.config.team[v] = c}}

ExpireDoes(s, t) ==
  /\ t \in ExtendedState
  /\ t.base = Cleared(s)
  /\ t.config = s.config /\ t.energy = s.energy
  /\ t.barred = s.barred /\ t.moved = s.moved
  /\ t.temporary = [e \in Edge |-> IF e \in Due(s) THEN 0 ELSE s.temporary[e]]
  /\ t.weighted = [w \in Slot |-> s.weighted[w] - Worth(s, LostBy(s, w))]
  /\ t.team = [c \in Team |-> s.team[c] - Worth(s, LostIn(s, c))]

\* expire does to the board what Cleared says, forgets the times that have come,
\* and takes the lost dots off both counters.
LEMMA ExpireEffect ==
  ASSUME NEW s \in ExtendedState
  PROVE  ExpireDoes(s, Expire(s)) /\ Expire(s).records >= s.records
<1> DEFINE base == Cleared(s)
           temporary == [e \in Edge |-> IF e \in Due(s) THEN 0 ELSE s.temporary[e]]
           weighted == [w \in Slot |-> s.weighted[w] - Worth(s, LostBy(s, w))]
           team == [c \in Team |-> s.team[c] - Worth(s, LostIn(s, c))]
           records == s.records + Cardinality(Due(s))
           C(b, x, y, z, n) ==
             [s EXCEPT !.base = b, !.temporary = x, !.weighted = y, !.team = z, !.records = n]
<1>1. Expire(s) = C(base, temporary, weighted, team, records)
  BY DEF Expire, LostIn
<1>2. \A w : LostBy(s, w) \subseteq Point
  BY LostAtTheEnds
<1>3. \A c : LostIn(s, c) \subseteq Point
  BY <1>2 DEF LostIn
<1>4. base \in State
  BY ClearedEffect DEF ClearedDoes
<1>5. temporary \in [Edge -> Nat]
  BY DEF ExtendedState
<1>6. weighted \in [Slot -> Int]
  <2>1. ASSUME NEW w \in Slot PROVE s.weighted[w] - Worth(s, LostBy(s, w)) \in Int
    <3>1. s.weighted[w] \in Int
      BY DEF ExtendedState
    <3>2. Worth(s, LostBy(s, w)) \in Nat
      BY <1>2, WorthType
    <3> QED
      BY <3>1, <3>2
  <2> QED
    BY <2>1
<1>7. team \in [Team -> Int]
  <2>1. ASSUME NEW c \in Team PROVE s.team[c] - Worth(s, LostIn(s, c)) \in Int
    <3>1. s.team[c] \in Int
      BY DEF ExtendedState
    <3>2. Worth(s, LostIn(s, c)) \in Nat
      BY <1>3, WorthType
    <3> QED
      BY <3>1, <3>2
  <2> QED
    BY <2>1
<1>8. records \in Nat /\ records >= s.records
  <2>1. Cardinality(Due(s)) \in Nat
    BY TrailsFinite DEF Due
  <2>2. s.records \in Nat
    BY DEF ExtendedState
  <2> QED
    BY <2>1, <2>2
<1> HIDE DEF base, temporary, weighted, team, records
<1>9. \A b \in State, x \in [Edge -> Nat], y \in [Slot -> Int], z \in [Team -> Int], n \in Nat :
        C(b, x, y, z, n) \in ExtendedState
  BY DEF ExtendedState
<1>10. \A b, x, y, z, n :
         /\ C(b, x, y, z, n).base = b /\ C(b, x, y, z, n).temporary = x
         /\ C(b, x, y, z, n).weighted = y /\ C(b, x, y, z, n).team = z
         /\ C(b, x, y, z, n).records = n
         /\ C(b, x, y, z, n).config = s.config /\ C(b, x, y, z, n).barred = s.barred
         /\ C(b, x, y, z, n).energy = s.energy /\ C(b, x, y, z, n).moved = s.moved
  BY DEF ExtendedState
<1> HIDE DEF C
<1>11. Expire(s) \in ExtendedState
  BY <1>1, <1>4, <1>5, <1>6, <1>7, <1>8, <1>9
<1>12. LET t == Expire(s) IN
         /\ t.base = base /\ t.temporary = temporary /\ t.weighted = weighted
         /\ t.team = team /\ t.records = records /\ t.moved = s.moved
         /\ t.config = s.config /\ t.barred = s.barred /\ t.energy = s.energy
  BY <1>1, <1>10
<1> QED
  BY <1>8, <1>11, <1>12 DEF ExpireDoes, base, temporary, weighted, team

\* After an expiry a worm owns what it owned and has not lost.
LEMMA ExpireOwners ==
  ASSUME NEW s \in ExtendedState
  PROVE  LET b == Cleared(s) IN
         /\ \A w \in Slot : /\ LostBy(s, w) \subseteq Dots(s.base.owner, w)
                            /\ Dots(b.owner, w) = Dots(s.base.owner, w) \ LostBy(s, w)
         /\ \A p \in Point : b.owner[p] = IF p \in Ends(s) THEN None ELSE s.base.owner[p]
<1> DEFINE b == Cleared(s)
<1>1. b.owner = [p \in Point |-> IF \E w \in Slot : p \in LostBy(s, w)
                                 THEN None ELSE s.base.owner[p]]
  BY ClearedEffect DEF ClearedDoes
<1>2. s.base.owner \in [Point -> Slot \cup {None}] /\ None \notin Slot
  BY DEF ExtendedState, State, Slot, None
<1>3. \A w : LostBy(s, w) = {p \in Ends(s) : s.base.owner[p] = w} /\ LostBy(s, w) \subseteq Point
  BY LostAtTheEnds
<1> HIDE DEF b
<1>4. \A p \in Point : b.owner[p] = IF p \in Ends(s) THEN None ELSE s.base.owner[p]
  BY <1>1, <1>2, <1>3
<1>5. ASSUME NEW w \in Slot
      PROVE  /\ LostBy(s, w) \subseteq Dots(s.base.owner, w)
             /\ Dots(b.owner, w) = Dots(s.base.owner, w) \ LostBy(s, w)
  BY <1>2, <1>3, <1>4 DEF Dots
<1> QED
  BY <1>4, <1>5 DEF b

\* A dot that loses a spoke loses its owner, so that still the complete dots are owned.
LEMMA ExpireKeepsOwned ==
  ASSUME NEW s \in ExtendedState, Owned(s.base)
  PROVE  Owned(Cleared(s))
<1> DEFINE b == Cleared(s)
<1>1. b.cached = [p \in Point |-> s.base.cached[p] \ FreedAt(s, p)]
  BY ClearedEffect DEF ClearedDoes
<1>2. \A p \in Point : b.owner[p] = IF p \in Ends(s) THEN None ELSE s.base.owner[p]
  BY ExpireOwners
<1> HIDE DEF b
<1>3. \A p \in Point : IF p \in Ends(s) THEN FreedAt(s, p) \cap Dir # {} ELSE FreedAt(s, p) = {}
  BY FreedAtTheEnds
<1>4. \A p \in Point : p \in Ends(s) => b.cached[p] # Dir
  BY <1>1, <1>3
<1>5. \A p \in Point : p \notin Ends(s) => b.cached[p] = s.base.cached[p]
  BY <1>1, <1>3
<1> QED
  BY <1>2, <1>4, <1>5 DEF Owned, b

\* A score loses a point for every dot its worm loses.
LEMMA ExpireKeepsScored ==
  ASSUME NEW s \in ExtendedState, Scored(s.base)
  PROVE  Scored(Cleared(s))
<1> SUFFICES ASSUME NEW w \in Slot
             PROVE  Cleared(s).score[w] = Cardinality(Dots(Cleared(s).owner, w))
  BY DEF Scored
<1> DEFINE D == Dots(s.base.owner, w)
           L == LostBy(s, w)
<1>1. Cleared(s).score[w] = Floor(Cardinality(D) - Cardinality(L))
  <2>1. Cleared(s).score = [v \in Slot |-> Floor(s.base.score[v] - Cardinality(LostBy(s, v)))]
    BY ClearedEffect DEF ClearedDoes
  <2>2. s.base.score[w] = Cardinality(D)
    BY DEF Scored
  <2> QED
    BY <2>1, <2>2
<1>2. Dots(Cleared(s).owner, w) = D \ L /\ L \subseteq D
  BY ExpireOwners
<1>3. IsFiniteSet(D)
  BY PointFinite, FS_Subset DEF Dots
<1> HIDE DEF D, L
<1>4. IsFiniteSet(L) /\ IsFiniteSet(D \ L) /\ D \cap L = L
  BY <1>2, <1>3, FS_Subset
<1>5. Cardinality(D \ L) = Cardinality(D) - Cardinality(D \cap L)
  BY <1>3, <1>4, FS_Difference
<1>6. Cardinality(D \ L) \in Nat /\ Cardinality(D) \in Nat /\ Cardinality(L) \in Nat
  BY <1>3, <1>4, FS_CardinalityType
<1>7. Floor(Cardinality(D) - Cardinality(L)) = Cardinality(D \ L)
  <2>1. \A m, n, k \in Nat : k = m - n => Floor(m - n) = k
    BY DEF Floor
  <2> QED
    BY <1>4, <1>5, <1>6, <2>1
<1> QED
  BY <1>1, <1>2, <1>7

\* A weighted score loses what the lost dots count, and a team's as well.
LEMMA ExpireKeepsWeighed ==
  ASSUME NEW s \in ExtendedState, Weighed(s)
  PROVE  Weighed(Expire(s))
<1> SUFFICES ASSUME NEW w \in Slot
             PROVE  Expire(s).weighted[w] = Worth(Expire(s), Dots(Expire(s).base.owner, w))
  BY DEF Weighed
<1> DEFINE D == Dots(s.base.owner, w)
           L == LostBy(s, w)
<1>1. /\ Expire(s).base = Cleared(s) /\ Expire(s).config = s.config
      /\ Expire(s).weighted[w] = Worth(s, D) - Worth(s, L)
  <2>1. /\ Expire(s).base = Cleared(s) /\ Expire(s).config = s.config
        /\ Expire(s).weighted = [v \in Slot |-> s.weighted[v] - Worth(s, LostBy(s, v))]
    BY ExpireEffect DEF ExpireDoes
  <2>2. s.weighted[w] = Worth(s, D)
    BY DEF Weighed
  <2> QED
    BY <2>1, <2>2
<1>2. Dots(Expire(s).base.owner, w) = D \ L /\ L \subseteq D
  BY <1>1, ExpireOwners
<1>3. D \subseteq Point
  BY DEF Dots
<1> HIDE DEF D, L
<1>4. s.config.weight \in [Point -> Nat] /\ IsFiniteSet(D)
  BY <1>3, WorthType
<1>5. Worth(s, D \ L) = Worth(s, D) - Worth(s, L)
  BY <1>2, <1>3, <1>4, TotalOfRest DEF Worth
<1> QED
  BY <1>1, <1>2, <1>5 DEF Worth

\* So does the score of a team.
LEMMA ExpireKeepsOwing ==
  ASSUME NEW s \in ExtendedState, NEW w \in Slot, NEW credit \in Int, Owing(s, w, credit)
  PROVE  Owing(Expire(s), w, credit)
<1> SUFFICES ASSUME NEW c \in Team
             PROVE  Expire(s).team[c] + (IF s.config.team[w] = c THEN credit ELSE 0)
                      = Worth(s, TeamDots(Expire(s), c))
  <2>1. Expire(s).config = s.config
    BY ExpireEffect DEF ExpireDoes
  <2> QED
    BY <2>1 DEF Owing, Worth
<1> DEFINE D == TeamDots(s, c)
           L == LostIn(s, c)
<1>1. /\ Expire(s).base = Cleared(s) /\ Expire(s).config = s.config
      /\ Expire(s).team[c] = s.team[c] - Worth(s, L)
  BY ExpireEffect DEF ExpireDoes
<1>2. L = {p \in Ends(s) : s.base.owner[p] \in {v \in Slot : s.config.team[v] = c}}
  BY LostAtTheEnds DEF LostIn
<1>3. \A p \in Point : Cleared(s).owner[p] = IF p \in Ends(s) THEN None ELSE s.base.owner[p]
  BY ExpireOwners
<1>4. D \subseteq Point /\ Ends(s) \subseteq Point /\ None \notin Slot
  BY DEF TeamDots, Ends, Due, Edge, Slot, None
<1>5. TeamDots(Expire(s), c) = D \ L /\ L \subseteq D
  BY <1>1, <1>2, <1>3, <1>4 DEF TeamDots
<1> HIDE DEF D, L
<1>6. s.config.weight \in [Point -> Nat] /\ IsFiniteSet(D)
  BY <1>4, WorthType
<1>7. Worth(s, D \ L) = Worth(s, D) - Worth(s, L)
  BY <1>4, <1>5, <1>6, TotalOfRest DEF Worth
<1>8. s.team[c] + (IF s.config.team[w] = c THEN credit ELSE 0) = Worth(s, D)
  BY DEF Owing, D
<1>9. /\ s.team[c] \in Int /\ Worth(s, L) \in Nat /\ Worth(s, D) \in Nat
  <2>1. s.team[c] \in Int
    BY DEF ExtendedState
  <2> QED
    BY <1>4, <1>5, <2>1, WorthType
<1> QED
  BY <1>1, <1>5, <1>7, <1>8, <1>9

\* On a roomy board expire gives back the spokes of the due trails, and no others.
LEMMA FreedSpokes ==
  ASSUME Roomy, NEW s \in ExtendedState, NEW p \in Point
  PROVE  FreedAt(s, p) = {d \in Dir : EdgeOf(p, d) \in Due(s)}
<1>1. ASSUME NEW d \in Dir, EdgeOf(p, d) \in Due(s) PROVE d \in FreedAt(s, p)
  <2> DEFINE q == Neighbor(p, d)
  <2>1. {p, q} \in Due(s) /\ q \in Point
    BY <1>1 DEF EdgeOf, Due, Edge
  <2>2. DirectionTo(p, q) \in Dir /\ Neighbor(p, DirectionTo(p, q)) = q
    BY DirectionLeadsThere
  <2>3. DirectionTo(p, q) = d
    BY <2>2, SpokesDiffer
  <2> QED
    BY <2>1, <2>3 DEF FreedAt
<1>2. ASSUME NEW d \in FreedAt(s, p) PROVE d \in Dir /\ EdgeOf(p, d) \in Due(s)
  <2>1. PICK r \in Point : {p, r} \in Due(s) /\ d = DirectionTo(p, r)
    BY <1>2 DEF FreedAt
  <2>2. {p, r} \in Edge
    BY <2>1 DEF Due
  <2>3. PICK x \in Dir : EdgeOf(p, x) = {p, r}
    BY <2>2, EdgeHasSpoke
  <2>4. Neighbor(p, x) = r
    BY <2>3 DEF EdgeOf
  <2>5. d \in Dir /\ Neighbor(p, d) = r
    BY <2>1, <2>4, DirectionLeadsThere
  <2> QED
    BY <2>1, <2>5 DEF EdgeOf
<1> QED
  BY <1>1, <1>2

\* So the cached masks stay what the trails say.
LEMMA ExpireKeepsFresh ==
  ASSUME NEW s \in ExtendedState, Roomy \/ Due(s) = {}, Fresh(s.base)
  PROVE  Fresh(Cleared(s))
<1> DEFINE b == Cleared(s)
<1>1. /\ b.cached = [p \in Point |-> s.base.cached[p] \ FreedAt(s, p)]
      /\ b.trails = [e \in Edge |-> IF e \in Due(s) THEN None ELSE s.base.trails[e]]
  BY ClearedEffect DEF ClearedDoes
<1> HIDE DEF b
<1>2. \A p : TrailMask(b, p) = TrailMask(s.base, p) \ {d \in Dir : EdgeOf(p, d) \in Due(s)}
  <2>1. \A e \in Edge : b.trails[e] # None <=> e \notin Due(s) /\ s.base.trails[e] # None
    BY <1>1
  <2> QED
    BY <2>1 DEF TrailMask
<1>3. \A p \in Point : FreedAt(s, p) = {d \in Dir : EdgeOf(p, d) \in Due(s)}
  <2>1. CASE Roomy
    BY <2>1, FreedSpokes
  <2>2. CASE Due(s) = {}
    BY <2>2, FreedAtTheEnds DEF Ends
  <2> QED
    BY <2>1, <2>2
<1>4. \A p \in Point : s.base.cached[p] = TrailMask(s.base, p)
  BY DEF Fresh
<1> QED
  BY <1>1, <1>2, <1>3, <1>4 DEF Fresh, b

\* After an expiry nothing is due.
LEMMA ExpireKeepsTimed ==
  ASSUME NEW s \in ExtendedState, NEW n \in Nat, Timed(s, n)
  PROVE  Timed(Expire(s), s.base.tick + 1)
<1> DEFINE t == Expire(s)
<1>1. /\ t.base = Cleared(s) /\ t.config = s.config
      /\ t.temporary = [e \in Edge |-> IF e \in Due(s) THEN 0 ELSE s.temporary[e]]
  BY ExpireEffect DEF ExpireDoes
<1>2. /\ t.base.trails = [e \in Edge |-> IF e \in Due(s) THEN None ELSE s.base.trails[e]]
      /\ t.base.tick = s.base.tick
  BY <1>1, ClearedEffect DEF ClearedDoes, SameMoment
<1> HIDE DEF t
<1>3. s.base.tick \in Nat /\ s.temporary \in [Edge -> Nat] /\ s.config.ttl \in Nat
  BY DEF ExtendedState, State, Config
<1>4. ASSUME NEW e \in Edge, e \in Due(s)
      PROVE  t.temporary[e] = 0 /\ t.base.trails[e] = None
  BY <1>1, <1>2, <1>4
<1>5. ASSUME NEW e \in Edge, e \notin Due(s)
      PROVE  /\ t.temporary[e] = s.temporary[e] /\ t.base.trails[e] = s.base.trails[e]
             /\ s.temporary[e] = 0 \/ s.temporary[e] > s.base.tick
  BY <1>1, <1>2, <1>3, <1>5 DEF Due
<1>6. ASSUME NEW e \in Edge, t.temporary[e] # 0
      PROVE  /\ t.config.ttl > 0 /\ t.base.trails[e] # None
             /\ t.temporary[e] \in s.base.tick + 1 .. t.base.tick + t.config.ttl
  <2>1. e \notin Due(s)
    BY <1>4, <1>6
  <2>2. /\ s.config.ttl > 0 /\ s.base.trails[e] # None /\ s.temporary[e] > s.base.tick
        /\ s.temporary[e] \in n .. s.base.tick + s.config.ttl
    BY <1>5, <1>6, <2>1 DEF Timed
  <2> QED
    BY <1>1, <1>2, <1>3, <1>5, <2>1, <2>2
<1>7. ASSUME NEW e \in Edge, t.config.ttl > 0, t.base.trails[e] # None
      PROVE  t.temporary[e] # 0
  BY <1>1, <1>4, <1>5, <1>7 DEF Timed
<1> QED
  BY <1>6, <1>7 DEF Timed, t

\* Where the worms stand and what world they are in is a matter of the places, the
\* lives, the moves and the barriers.
LEMMA PlacedSame ==
  ASSUME NEW s, NEW t, Placed(s), t.config = s.config, t.barred = s.barred,
         t.moved = s.moved, t.base.pos = s.base.pos,
         \A w \in Slot : t.base.alive[w] => s.base.alive[w]
  PROVE  Placed(t)
BY DEF Placed

\* A living worm that moves to a free dot is known to have moved, and stands free.
LEMMA PlacedOn ==
  ASSUME NEW s \in ExtendedState, NEW t, Placed(s), t.config = s.config, t.barred = s.barred,
         NEW w \in Slot, s.base.alive[w], t.moved = s.moved \cup {w},
         NEW q \in Point, s.barred[q] = {}, t.base.pos = [s.base.pos EXCEPT ![w] = q],
         \A v \in Slot : t.base.alive[v] => s.base.alive[v]
  PROVE  Placed(t)
<1>1. s.base.pos \in [Slot -> Point]
  BY DEF ExtendedState, State
<1>2. s.config.barred[q] = {}
  <2>1. s.barred[q] = s.config.barred[q] \cup (IF q \in Spared(s.config) THEN {}
                        ELSE s.config.seed[Place(q, Spared(s.config))])
    BY DEF Placed, World
  <2> QED
    BY <2>1
<1>3. \A v \in Slot : t.base.pos[v] = IF v = w THEN q ELSE s.base.pos[v]
  BY <1>1
<1> QED
  BY <1>2, <1>3 DEF Placed

\* expire leads on.
LEMMA ExpireStirs ==
  ASSUME NEW s, NEW n \in Nat, NEW w \in Slot, NEW credit \in Int, Stirred(s, n, w, credit)
  PROVE  LET t == Expire(s) IN
         /\ Stirred(t, s.base.tick + 1, w, credit)
         /\ Onward(s, t)
         /\ SameMoment(s.base, t.base) /\ t.base.alive = s.base.alive
         /\ t.base.over = s.base.over
         /\ t.energy = s.energy /\ t.config = s.config
         /\ t.barred = s.barred /\ t.moved = s.moved /\ t.base.pos = s.base.pos
<1> DEFINE t == Expire(s)
<1>1. /\ s \in ExtendedState /\ s.config.enabled /\ Placed(s)
      /\ Firm(s.base) /\ (Tidy(s) => Fresh(s.base)) /\ Weighed(s) /\ Owing(s, w, credit)
      /\ Timed(s, n) /\ Fed(s)
      /\ s.base.over => \A v \in Slot : ~s.base.alive[v]
  BY DEF Stirred
<1>2. /\ t \in ExtendedState /\ t.base = Cleared(s)
      /\ t.config = s.config /\ t.energy = s.energy
      /\ t.barred = s.barred /\ t.moved = s.moved
      /\ t.temporary = [e \in Edge |-> IF e \in Due(s) THEN 0 ELSE s.temporary[e]]
  BY <1>1, ExpireEffect DEF ExpireDoes
<1>3. ClearedDoes(s, t.base)
  BY <1>1, <1>2, ClearedEffect
<1>4. /\ SameMoment(s.base, t.base) /\ t.base.alive = s.base.alive
      /\ t.base.over = s.base.over /\ t.base \in State
      /\ t.base.trails = [e \in Edge |-> IF e \in Due(s) THEN None ELSE s.base.trails[e]]
  BY <1>3 DEF ClearedDoes
<1>5. Owned(t.base) /\ Scored(t.base)
  BY <1>1, <1>2, ExpireKeepsOwned, ExpireKeepsScored DEF Firm
<1>6. Weighed(t) /\ Owing(t, w, credit)
  BY <1>1, ExpireKeepsWeighed, ExpireKeepsOwing
<1>7. Timed(t, s.base.tick + 1)
  BY <1>1, ExpireKeepsTimed
<1>8. Tidy(t) => Fresh(t.base)
  <2> SUFFICES ASSUME Tidy(t) PROVE Fresh(Cleared(s))
    BY <1>2
  <2>1. Tidy(s)
    BY <1>2 DEF Tidy
  <2>2. s.config.ttl = 0 => Due(s) = {}
    BY <1>1 DEF Timed, Due
  <2> QED
    BY <1>1, <2>1, <2>2, ExpireKeepsFresh DEF Tidy
<1>9. \A p \in Point : t.base.owner[p] = IF p \in Ends(s) THEN None ELSE s.base.owner[p]
  BY <1>1, <1>2, ExpireOwners
<1>10. \A e \in Due(s) : s.temporary[e] \in 1 .. s.base.tick
  <2>1. s.temporary \in [Edge -> Nat] /\ s.base.tick \in Nat
    BY <1>1 DEF ExtendedState, State
  <2> QED
    BY <2>1 DEF Due
<1> HIDE DEF t
<1>11. Firm(t.base)
  BY <1>1, <1>4, <1>5 DEF Firm, Apart, SameMoment
<1>12. Fed(t)
  BY <1>1, <1>2, <1>4 DEF Fed
<1>13. Stirred(t, s.base.tick + 1, w, credit)
  <2>1. Placed(t)
    BY <1>1, <1>2, <1>4, PlacedSame DEF SameMoment
  <2> QED
    BY <1>1, <1>2, <1>4, <1>6, <1>7, <1>8, <1>11, <1>12, <2>1 DEF Stirred
<1>14. Onward(s, t)
  <2>1. t.base.tick = s.base.tick /\ s.base.tick \in Nat
    BY <1>1, <1>4 DEF SameMoment, ExtendedState, State
  <2>2. \A e \in Due(s) : Faded(s, e, t)
    BY <1>10, <2>1 DEF Faded
  <2>3. ASSUME NEW e \in Edge, e \notin Due(s)
        PROVE  t.base.trails[e] = s.base.trails[e] /\ t.temporary[e] = s.temporary[e]
    BY <1>2, <1>4, <2>3
  <2>4. ASSUME NEW p \in Point, t.base.owner[p] # s.base.owner[p]
        PROVE  \E e \in Edge : p \in e /\ Faded(s, e, t)
    <3>1. PICK e \in Due(s) : p \in e
      BY <1>9, <2>4 DEF Ends
    <3> QED
      BY <2>2, <3>1 DEF Due
  <2>5. FrozenKept(s.base, t.base)
    BY <1>4 DEF SameMoment, FrozenKept
  <2> QED
    BY <1>2, <1>4, <2>1, <2>2, <2>3, <2>4, <2>5 DEF Onward
<1>15. t.base.pos = s.base.pos
  BY <1>4 DEF SameMoment
<1> QED
  BY <1>2, <1>4, <1>13, <1>14, <1>15 DEF t

------------------------------------------------------------------------------
(* One move.                                                               *)

\* From r to s and from s to t the game has come from r to t: a dot that is owned in
\* r has all its trails there, so that what s took from it r had set to fade.
LEMMA OnwardOn ==
  ASSUME NEW r, NEW s \in ExtendedState, NEW t \in ExtendedState,
         NEW n, NEW w, NEW credit, Stirred(r, n, w, credit), Onward(r, s), Onward(s, t)
  PROVE  Onward(r, t)
<1>1. /\ r.base \in State /\ Owned(r.base) /\ (Tidy(r) => Fresh(r.base))
      /\ r.base.tick \in Nat /\ s.base.tick \in Nat /\ t.base.tick \in Nat
  BY DEF Stirred, Firm, State, ExtendedState
<1>2. /\ s.config = r.config /\ t.config = s.config
      /\ r.base.tick <= s.base.tick /\ s.base.tick <= t.base.tick
  BY DEF Onward
<1>3. \A e : Faded(r, e, s) => Faded(r, e, t)
  BY <1>1, <1>2 DEF Faded
<1>4. ASSUME NEW e \in Edge, r.base.trails[e] # None
      PROVE  \/ Faded(r, e, t)
             \/ t.base.trails[e] = r.base.trails[e] /\ t.temporary[e] = r.temporary[e]
  <2>1. \/ Faded(r, e, s)
        \/ s.base.trails[e] = r.base.trails[e] /\ s.temporary[e] = r.temporary[e]
    BY <1>4 DEF Onward
  <2>2. s.base.trails[e] # None =>
          \/ Faded(s, e, t)
          \/ t.base.trails[e] = s.base.trails[e] /\ t.temporary[e] = s.temporary[e]
    BY DEF Onward
  <2> QED
    BY <1>3, <1>4, <2>1, <2>2 DEF Faded
<1>5. ASSUME Tidy(r), NEW p \in Point, r.base.owner[p] # None,
             t.base.owner[p] # r.base.owner[p]
      PROVE  \E e \in Edge : p \in e /\ Faded(r, e, t)
  <2>1. Tidy(s)
    BY <1>2, <1>5 DEF Tidy
  <2>2. CASE s.base.owner[p] # r.base.owner[p]
    <3>1. PICK e \in Edge : p \in e /\ Faded(r, e, s)
      BY <1>5, <2>2 DEF Onward
    <3> QED
      BY <1>3, <3>1
  <2>3. CASE s.base.owner[p] = r.base.owner[p]
    <3>1. PICK e \in Edge : p \in e /\ Faded(s, e, t)
      BY <1>5, <2>1, <2>3 DEF Onward
    <3>2. r.base.trails[e] # None
      <4>1. PICK d \in Dir : EdgeOf(p, d) = e
        BY <3>1, EdgeHasSpoke
      <4>2. TrailMask(r.base, p) = Dir
        BY <1>1, <1>5 DEF Owned, Fresh
      <4> QED
        BY <4>1, <4>2 DEF TrailMask
    <3>3. \/ Faded(r, e, s)
          \/ s.base.trails[e] = r.base.trails[e] /\ s.temporary[e] = r.temporary[e]
      BY <3>2 DEF Onward
    <3> QED
      BY <1>3, <3>1, <3>3 DEF Faded
  <2> QED
    BY <2>2, <2>3
<1>6. \A v \in Slot : ~r.base.alive[v] => ~t.base.alive[v]
  BY DEF Onward
<1>7. r.base.tick <= t.base.tick
  BY <1>1, <1>2
<1>8. FrozenKept(r.base, t.base)
  BY DEF Onward, FrozenKept
<1> QED
  BY <1>2, <1>4, <1>5, <1>6, <1>7, <1>8 DEF Onward

\* What a worm takes with a move: the dots that get their owner by it.
Taken(s, b, w) == {p \in Point : s.base.owner[p] = None /\ b.owner[p] = w}

\* The board after a move is firm, and its dots are those before and the ones taken.
LEMMA StepFirm ==
  ASSUME NEW s \in ExtendedState, Firm(s.base), NEW w \in Slot, NEW d \in Dir,
         CanStep(s.base, w, d)
  PROVE  LET b == Stepped(s.base, w, d) IN
         /\ Firm(b) /\ (Fresh(s.base) => Fresh(b))
         /\ StepDoes(s.base, w, d, b)
         /\ OwnersKept(s.base, b, w)
         /\ \A v \in Slot : b.alive[v] => s.base.alive[v]
<1> DEFINE r == s.base
           b == Stepped(r, w, d)
<1>1. r \in State /\ Owned(r) /\ Scored(r) /\ Apart(r) /\ \A v \in Slot : ValidRules(r.rules[v])
  BY DEF Firm
<1> HIDE DEF r
<1>2. CanStep(r, w, d)
  BY DEF r
<1>3. StepDoes(r, w, d, b)
  BY <1>1, <1>2, StepEffect
<1>4. Owned(b) /\ Scored(b) /\ Apart(b) /\ \A v \in Slot : b.alive[v] => r.alive[v]
  BY <1>1, <1>2, StepKeepsScores, StepKeepsApart
<1>5. Fresh(r) => Fresh(b)
  BY <1>1, <1>2, StepKeepsFresh
<1>6. OwnersKept(r, b, w)
  BY <1>1, <1>2, StepKeepsOwners
<1>7. b \in State /\ b.rules = r.rules
  BY <1>3 DEF StepDoes
<1> HIDE DEF b
<1>8. Firm(b)
  BY <1>1, <1>4, <1>7 DEF Firm
<1> QED
  BY <1>3, <1>4, <1>5, <1>6, <1>8 DEF b, r

\* The dots of a worm, and of its team, grow by those it takes.
LEMMA DotsGrow ==
  ASSUME NEW s \in ExtendedState, NEW b \in State, NEW w \in Slot, OwnersKept(s.base, b, w)
  PROVE  /\ Dots(b.owner, w) = Dots(s.base.owner, w) \cup Taken(s, b, w)
         /\ \A v \in Slot \ {w} : Dots(b.owner, v) = Dots(s.base.owner, v)
         /\ \A c : TeamDots(With(s, b), c) =
                     TeamDots(s, c) \cup (IF s.config.team[w] = c THEN Taken(s, b, w) ELSE {})
         /\ Dots(s.base.owner, w) \cap Taken(s, b, w) = {}
         /\ \A c : TeamDots(s, c) \cap Taken(s, b, w) = {}
<1>1. None \notin Slot /\ With(s, b).base = b /\ With(s, b).config = s.config
  BY DEF Slot, None, With, ExtendedState
<1>2. \A p \in Point : b.owner[p] = IF p \in Taken(s, b, w) THEN w ELSE s.base.owner[p]
  BY <1>1 DEF OwnersKept, Taken
<1>3. \A p \in Taken(s, b, w) : p \in Point /\ s.base.owner[p] = None
  BY DEF Taken
<1> HIDE DEF With, Taken
<1>4. Dots(b.owner, w) = Dots(s.base.owner, w) \cup Taken(s, b, w)
  BY <1>2, <1>3 DEF Dots
<1>5. ASSUME NEW v \in Slot \ {w} PROVE Dots(b.owner, v) = Dots(s.base.owner, v)
  BY <1>1, <1>2, <1>3 DEF Dots
<1>6. ASSUME NEW c
      PROVE  /\ TeamDots(With(s, b), c) =
                  TeamDots(s, c) \cup (IF s.config.team[w] = c THEN Taken(s, b, w) ELSE {})
             /\ TeamDots(s, c) \cap Taken(s, b, w) = {}
  <2>1. \A p \in Point : p \in TeamDots(With(s, b), c) <=>
           p \in TeamDots(s, c) \/ (s.config.team[w] = c /\ p \in Taken(s, b, w))
    BY <1>1, <1>2, <1>3 DEF TeamDots
  <2>2. TeamDots(s, c) \cap Taken(s, b, w) = {}
    BY <1>1, <1>3 DEF TeamDots
  <2>3. TeamDots(s, c) \subseteq Point /\ TeamDots(With(s, b), c) \subseteq Point
    BY DEF TeamDots
  <2> QED
    BY <1>3, <2>1, <2>2, <2>3
<1>7. Dots(s.base.owner, w) \cap Taken(s, b, w) = {}
  BY <1>1, <1>3 DEF Dots
<1> QED
  BY <1>4, <1>5, <1>6, <1>7

\* What With changes, and what it does not.
LEMMA WithEffect ==
  ASSUME NEW s \in ExtendedState, NEW b \in State
  PROVE  LET t == With(s, b) IN
         /\ t \in ExtendedState /\ t.base = b
         /\ t.config = s.config /\ t.barred = s.barred /\ t.energy = s.energy
         /\ t.temporary = s.temporary /\ t.weighted = s.weighted /\ t.team = s.team
         /\ t.records = s.records /\ t.moved = s.moved
BY DEF With, ExtendedState

\* The board of the move, with what the dots taken count for the worm.
Gained(s, b, w) ==
  [With(s, b) EXCEPT !.moved = @ \cup {w}, !.weighted[w] = @ + Worth(s, Taken(s, b, w))]

\* The worm's score gets what the dots count, the team's score is to get it.
LEMMA GainWeighs ==
  ASSUME NEW s \in ExtendedState, NEW b \in State, NEW w \in Slot,
         OwnersKept(s.base, b, w), Weighed(s), Owing(s, w, 0)
  PROVE  LET t == Gained(s, b, w) IN
         /\ t \in ExtendedState /\ t.base = b
         /\ t.config = s.config /\ t.barred = s.barred /\ t.energy = s.energy
         /\ t.temporary = s.temporary /\ t.team = s.team /\ t.records = s.records
         /\ t.moved = s.moved \cup {w}
         /\ Weighed(t) /\ Owing(t, w, Worth(s, Taken(s, b, w)))
<1> DEFINE u == With(s, b)
           T == Taken(s, b, w)
           f == [s.weighted EXCEPT ![w] = @ + Worth(s, T)]
           moved == s.moved \cup {w}
           t == Gained(s, b, w)
<1>1. /\ u \in ExtendedState /\ u.base = b
      /\ u.config = s.config /\ u.barred = s.barred /\ u.energy = s.energy
      /\ u.temporary = s.temporary /\ u.weighted = s.weighted /\ u.team = s.team
      /\ u.records = s.records /\ u.moved = s.moved
  BY WithEffect
<1>2. T \subseteq Point
  BY DEF Taken
<1>3. Worth(s, T) \in Nat /\ s.config.weight \in [Point -> Nat]
  BY <1>2, WorthType
<1>4. f \in [Slot -> Int] /\ moved \in SUBSET Slot
  BY <1>3 DEF ExtendedState
<1> HIDE DEF u
<1> DEFINE C(h, g) == [u EXCEPT !.moved = h, !.weighted = g]
<1>5. t = C(moved, f)
  BY <1>1 DEF Gained, u
<1>6. /\ \A h \in SUBSET Slot, g \in [Slot -> Int] : C(h, g) \in ExtendedState
      /\ \A h, g :
           /\ C(h, g).moved = h /\ C(h, g).weighted = g /\ C(h, g).base = u.base
           /\ C(h, g).config = u.config /\ C(h, g).barred = u.barred
           /\ C(h, g).energy = u.energy /\ C(h, g).temporary = u.temporary
           /\ C(h, g).team = u.team /\ C(h, g).records = u.records
  BY <1>1 DEF ExtendedState
<1> HIDE DEF f, t, moved, C
<1>7. /\ t \in ExtendedState /\ t.base = b /\ t.weighted = f /\ t.moved = moved
      /\ t.config = s.config /\ t.barred = s.barred /\ t.energy = s.energy
      /\ t.temporary = s.temporary /\ t.team = s.team /\ t.records = s.records
  BY <1>1, <1>4, <1>5, <1>6
<1>8. /\ Dots(b.owner, w) = Dots(s.base.owner, w) \cup T
      /\ \A v \in Slot \ {w} : Dots(b.owner, v) = Dots(s.base.owner, v)
      /\ Dots(s.base.owner, w) \cap T = {}
      /\ \A c : TeamDots(u, c) = TeamDots(s, c) \cup (IF s.config.team[w] = c THEN T ELSE {})
      /\ \A c : TeamDots(s, c) \cap T = {}
  BY DotsGrow DEF u
<1> HIDE DEF T
<1>9. ASSUME NEW D, D \subseteq Point, D \cap T = {}
      PROVE  Worth(s, D \cup T) = Worth(s, D) + Worth(s, T)
  <2>1. IsFiniteSet(D) /\ IsFiniteSet(T)
    BY <1>2, <1>9, PointFinite, FS_Subset
  <2> QED
    BY <1>2, <1>3, <1>9, <2>1, TotalOfBoth DEF Worth
<1>10. \A D : Worth(t, D) = Worth(s, D)
  BY <1>7 DEF Worth
<1>11. ASSUME NEW v \in Slot PROVE t.weighted[v] = Worth(t, Dots(t.base.owner, v))
  <2>1. s.weighted[v] = Worth(s, Dots(s.base.owner, v))
    BY DEF Weighed
  <2>2. f[v] = IF v = w THEN s.weighted[v] + Worth(s, T) ELSE s.weighted[v]
    BY DEF f, ExtendedState
  <2>3. CASE v = w
    <3>1. Dots(s.base.owner, w) \subseteq Point
      BY DEF Dots
    <3> QED
      BY <1>7, <1>8, <1>9, <1>10, <2>1, <2>2, <2>3, <3>1
  <2>4. CASE v # w
    BY <1>7, <1>8, <1>10, <2>1, <2>2, <2>4
  <2> QED
    BY <2>3, <2>4
<1>12. ASSUME NEW c \in Team
       PROVE  t.team[c] + (IF t.config.team[w] = c THEN Worth(s, T) ELSE 0)
                = Worth(t, TeamDots(t, c))
  <2>1. s.team[c] + 0 = Worth(s, TeamDots(s, c)) /\ s.team[c] \in Int
    BY DEF Owing, ExtendedState
  <2>2. TeamDots(t, c) = TeamDots(u, c)
    BY <1>1, <1>7 DEF TeamDots
  <2>3. TeamDots(s, c) \subseteq Point
    BY DEF TeamDots
  <2>4. CASE s.config.team[w] = c
    BY <1>3, <1>7, <1>8, <1>9, <1>10, <2>1, <2>2, <2>3, <2>4
  <2>5. CASE s.config.team[w] # c
    <3>1. TeamDots(u, c) = TeamDots(s, c) \cup {}
      BY <1>8, <2>5
    <3>2. Worth(t, TeamDots(t, c)) = s.team[c] + 0
      BY <1>10, <2>1, <2>2, <3>1
    <3> QED
      BY <1>7, <2>5, <3>2
  <2> QED
    BY <2>4, <2>5
<1> QED
  BY <1>7, <1>11, <1>12 DEF Weighed, Owing, T, t, moved

\* What paying for a move does.
SpendDoes(s, w, t) ==
  LET left == Floor(s.energy[w] - 1) IN
  /\ t \in ExtendedState
  /\ t.config = s.config /\ t.barred = s.barred /\ t.temporary = s.temporary
  /\ t.weighted = s.weighted /\ t.team = s.team /\ t.records = s.records /\ t.moved = s.moved
  /\ t.energy = IF s.config.limit = 0 THEN s.energy ELSE [s.energy EXCEPT ![w] = left]
  /\ SameMoment(s.base, t.base) /\ SameBoard(s.base, t.base)
  /\ s.config.limit > 0 /\ t.base.alive[w] => left > 0
  /\ t.base.over => s.base.over \/ \A v \in Slot : ~t.base.alive[v]

\* spend does that.
LEMMA SpendEffect ==
  ASSUME NEW s \in ExtendedState, NEW w \in Slot
  PROVE  SpendDoes(s, w, Spend(s, w))
<1> DEFINE left == Floor(s.energy[w] - 1)
           alive == [s.base.alive EXCEPT ![w] = @ /\ left > 0]
           over == s.base.over \/ (left = 0 /\ \A v \in Slot : ~alive[v])
           B(x, y) == [s.base EXCEPT !.alive = x, !.over = y]
           energy == [s.energy EXCEPT ![w] = left]
           t == Spend(s, w)
<1>1. /\ s.base \in State /\ s.config.limit \in Nat
      /\ s.energy \in [Slot -> Nat] /\ s.base.alive \in [Slot -> BOOLEAN]
  BY DEF ExtendedState, State, Config
<1>2. CASE s.config.limit = 0
  <2>1. t = s
    BY <1>2 DEF Spend
  <2> QED
    BY <1>1, <1>2, <2>1 DEF SpendDoes, SameMoment, SameBoard
<1>3. CASE s.config.limit # 0
  <2>1. left \in Nat
    BY <1>1 DEF Floor
  <2> HIDE DEF left
  <2>2. alive \in [Slot -> BOOLEAN] /\ over \in BOOLEAN /\ energy \in [Slot -> Nat]
    <3>1. s.base.over \in BOOLEAN
      BY <1>1 DEF State
    <3> QED
      BY <1>1, <2>1, <3>1
  <2>3. /\ \A v \in Slot : alive[v] => s.base.alive[v]
        /\ alive[w] => left > 0
    BY <1>1
  <2>4. over => s.base.over \/ \A v \in Slot : ~alive[v]
    OBVIOUS
  <2> HIDE DEF alive, over
  <2>5. /\ \A x \in [Slot -> BOOLEAN], y \in BOOLEAN : B(x, y) \in State
        /\ \A x, y : /\ SameMoment(s.base, B(x, y))
                     /\ B(x, y).alive = x /\ B(x, y).over = y
        /\ \A x, y : (\A v \in Slot : x[v] => s.base.alive[v]) => SameBoard(s.base, B(x, y))
    BY <1>1 DEF State, SameMoment, SameBoard
  <2> DEFINE b == B(alive, over)
             u == With(s, b)
  <2>6. t = [u EXCEPT !.energy[w] = left]
    BY <1>3 DEF Spend, alive, over, left
  <2> HIDE DEF B
  <2>7. /\ b \in State /\ SameMoment(s.base, b) /\ SameBoard(s.base, b)
        /\ b.alive = alive /\ b.over = over
    BY <2>2, <2>3, <2>5
  <2> HIDE DEF b
  <2>8. /\ u \in ExtendedState /\ u.base = b
        /\ u.config = s.config /\ u.barred = s.barred /\ u.energy = s.energy
        /\ u.temporary = s.temporary /\ u.weighted = s.weighted /\ u.team = s.team
        /\ u.records = s.records /\ u.moved = s.moved
    BY <2>7, WithEffect
  <2> HIDE DEF u
  <2>9. t = [u EXCEPT !.energy = energy]
    BY <2>6, <2>8
  <2>10. /\ \A g \in [Slot -> Nat] : [u EXCEPT !.energy = g] \in ExtendedState
         /\ \A g : LET v == [u EXCEPT !.energy = g] IN
              /\ v.energy = g /\ v.base = u.base /\ v.moved = u.moved
              /\ v.config = u.config /\ v.barred = u.barred /\ v.weighted = u.weighted
              /\ v.temporary = u.temporary /\ v.team = u.team /\ v.records = u.records
    BY <2>8 DEF ExtendedState
  <2> HIDE DEF energy, t
  <2>11. /\ t \in ExtendedState /\ t.energy = energy /\ t.base = b /\ t.moved = s.moved
         /\ t.config = s.config /\ t.barred = s.barred /\ t.weighted = s.weighted
         /\ t.temporary = s.temporary /\ t.team = s.team /\ t.records = s.records
    BY <2>2, <2>8, <2>9, <2>10
  <2> QED
    BY <1>3, <2>3, <2>4, <2>7, <2>11 DEF SpendDoes, t, energy, left
<1> QED
  BY <1>2, <1>3

\* What marking a trail does: it gets an expiry, if trails fade at all.
LEMMA MarkEffect ==
  ASSUME NEW s \in ExtendedState, NEW e \in Edge
  PROVE  LET t == Mark(s, e) IN
         /\ t \in ExtendedState /\ t.base = s.base
         /\ t.config = s.config /\ t.barred = s.barred /\ t.energy = s.energy
         /\ t.weighted = s.weighted /\ t.team = s.team /\ t.records = s.records
         /\ t.moved = s.moved
         /\ \A x \in Edge : t.temporary[x] = IF x = e /\ s.config.ttl > 0
                                             THEN s.base.tick + s.config.ttl
                                             ELSE s.temporary[x]
<1> DEFINE f == [s.temporary EXCEPT ![e] = s.base.tick + s.config.ttl]
<1>1. s.config.ttl \in Nat /\ s.base.tick \in Nat /\ s.temporary \in [Edge -> Nat]
  BY DEF ExtendedState, State, Config
<1>2. CASE s.config.ttl = 0
  BY <1>2 DEF Mark
<1>3. CASE s.config.ttl # 0
  <2>1. Mark(s, e) = [s EXCEPT !.temporary = f]
    BY <1>3 DEF Mark
  <2>2. f \in [Edge -> Nat]
    BY <1>1
  <2>3. \A x \in Edge : f[x] = IF x = e THEN s.base.tick + s.config.ttl ELSE s.temporary[x]
    BY <1>1
  <2>4. /\ \A g \in [Edge -> Nat] : [s EXCEPT !.temporary = g] \in ExtendedState
        /\ \A g : LET v == [s EXCEPT !.temporary = g] IN
             /\ v.temporary = g /\ v.base = s.base /\ v.moved = s.moved
             /\ v.config = s.config /\ v.barred = s.barred /\ v.weighted = s.weighted
             /\ v.energy = s.energy /\ v.team = s.team /\ v.records = s.records
    BY DEF ExtendedState
  <2> HIDE DEF f
  <2> QED
    BY <1>1, <1>3, <2>1, <2>2, <2>3, <2>4
<1> QED
  BY <1>2, <1>3

\* The state in which a move is made, counted, paid for and marked, before Apply
\* expires what has come due with it.
Moving(s, b, w) == Mark(Spend(Gained(s, b, w), w), {s.base.pos[w], b.pos[w]})

\* A board that differs in its lives and its bookkeeping is as firm.
LEMMA SameBoardFirm ==
  ASSUME NEW b \in State, NEW c \in State, Firm(b), SameBoard(b, c)
  PROVE  Firm(c) /\ (Fresh(b) => Fresh(c))
BY DEF Firm, SameBoard, Owned, Scored, Apart, Fresh, TrailMask

\* What a move does to everything but the expiries.
MovingDoes(s, b, w, t) ==
  /\ t \in ExtendedState
  /\ t.config = s.config /\ t.barred = s.barred /\ t.records = s.records
  /\ t.moved = s.moved \cup {w}
  /\ SameMoment(b, t.base) /\ SameBoard(b, t.base)
  /\ t.base.over => b.over \/ \A v \in Slot : ~t.base.alive[v]
  /\ IF s.config.limit = 0 THEN t.energy = s.energy
     ELSE /\ t.energy = [s.energy EXCEPT ![w] = Floor(s.energy[w] - 1)]
          /\ t.base.alive[w] => t.energy[w] > 0
  /\ \A x \in Edge : t.temporary[x] =
       IF x = {s.base.pos[w], b.pos[w]} /\ s.config.ttl > 0
       THEN b.tick + s.config.ttl ELSE s.temporary[x]
  /\ Weighed(t) /\ Owing(t, w, Worth(s, Taken(s, b, w)))

\* It does that.
LEMMA MovingEffect ==
  ASSUME NEW s \in ExtendedState, NEW b \in State, NEW w \in Slot,
         OwnersKept(s.base, b, w), Weighed(s), Owing(s, w, 0),
         {s.base.pos[w], b.pos[w]} \in Edge
  PROVE  MovingDoes(s, b, w, Moving(s, b, w))
<1> DEFINE g == Gained(s, b, w)
           p == Spend(g, w)
           e == {s.base.pos[w], b.pos[w]}
           t == Mark(p, e)
           credit == Worth(s, Taken(s, b, w))
<1>1. /\ g \in ExtendedState /\ g.base = b
      /\ g.config = s.config /\ g.barred = s.barred /\ g.energy = s.energy
      /\ g.temporary = s.temporary /\ g.team = s.team /\ g.records = s.records
      /\ g.moved = s.moved \cup {w}
      /\ Weighed(g) /\ Owing(g, w, credit)
  BY GainWeighs
<1> HIDE DEF g, credit
<1>2. SpendDoes(g, w, p)
  BY <1>1, SpendEffect
<1> HIDE DEF p
<1>3. /\ p \in ExtendedState
      /\ p.config = s.config /\ p.barred = s.barred /\ p.temporary = s.temporary
      /\ p.weighted = g.weighted /\ p.team = g.team /\ p.records = s.records
      /\ p.moved = s.moved \cup {w}
      /\ SameMoment(b, p.base) /\ SameBoard(b, p.base)
      /\ p.base.over => b.over \/ \A v \in Slot : ~p.base.alive[v]
      /\ IF s.config.limit = 0 THEN p.energy = s.energy
         ELSE /\ p.energy = [s.energy EXCEPT ![w] = Floor(s.energy[w] - 1)]
              /\ p.base.alive[w] => p.energy[w] > 0
  <2>1. s.energy \in [Slot -> Nat] /\ s.config.limit \in Nat
    BY DEF ExtendedState, Config
  <2> QED
    BY <1>1, <1>2, <2>1 DEF SpendDoes
<1>4. Weighed(p) /\ Owing(p, w, credit)
  BY <1>1, <1>3 DEF Weighed, Owing, Worth, TeamDots, SameBoard
<1>5. /\ t \in ExtendedState /\ t.base = p.base
      /\ t.config = p.config /\ t.barred = p.barred /\ t.energy = p.energy
      /\ t.weighted = p.weighted /\ t.team = p.team /\ t.records = p.records
      /\ t.moved = p.moved
      /\ \A x \in Edge : t.temporary[x] = IF x = e /\ p.config.ttl > 0
                                          THEN p.base.tick + p.config.ttl
                                          ELSE p.temporary[x]
  <2> e \in Edge
    OBVIOUS
  <2> HIDE DEF e
  <2> QED
    BY <1>3, MarkEffect
<1> HIDE DEF t
<1>6. Weighed(t) /\ Owing(t, w, credit)
  BY <1>4, <1>5 DEF Weighed, Owing, Worth, TeamDots
<1>7. /\ \A x \in Edge : t.temporary[x] = IF x = e /\ s.config.ttl > 0
                                          THEN b.tick + s.config.ttl ELSE s.temporary[x]
  BY <1>3, <1>5 DEF SameMoment
<1>8. MovingDoes(s, b, w, t)
  BY <1>3, <1>5, <1>6, <1>7 DEF MovingDoes, credit, e
<1> QED
  BY <1>8 DEF Moving, t, p, g, e

\* A move stirs the game, and takes nothing back.
LEMMA MoveStirs ==
  ASSUME NEW s, NEW w \in Slot, NEW d \in Dir, Stirred(s, s.base.tick + 1, w, 0),
         CanStep(s.base, w, d), s.config.limit > 0 => s.energy[w] > 0,
         s.base.alive[w], s.barred[Neighbor(s.base.pos[w], d)] = {}
  PROVE  LET b == Stepped(s.base, w, d)
             t == Moving(s, b, w)
         IN  /\ Stirred(t, t.base.tick, w, Worth(s, Taken(s, b, w)))
             /\ Onward(s, t)
             /\ MovingDoes(s, b, w, t)
             /\ \A v \in Slot : t.base.alive[v] => s.base.alive[v]
             /\ SameTurn(s.base, b) /\ b.round = s.base.round /\ b.tick = s.base.tick + 1
<1> DEFINE r == s.base
           b == Stepped(r, w, d)
           e == {r.pos[w], Neighbor(r.pos[w], d)}
           t == Moving(s, b, w)
           credit == Worth(s, Taken(s, b, w))
<1>1. /\ s \in ExtendedState /\ s.config.enabled /\ Placed(s)
      /\ Firm(r) /\ (Tidy(s) => Fresh(r)) /\ Weighed(s) /\ Owing(s, w, 0)
      /\ Timed(s, r.tick + 1) /\ Fed(s)
  BY DEF Stirred
<1>2. r \in State /\ r.tick \in Nat /\ s.config.ttl \in Nat /\ s.config.limit \in Nat
  BY <1>1 DEF ExtendedState, State, Config
<1>3. /\ Firm(b) /\ (Fresh(r) => Fresh(b)) /\ StepDoes(r, w, d, b)
      /\ OwnersKept(r, b, w) /\ \A v \in Slot : b.alive[v] => r.alive[v]
  BY <1>1, StepFirm
<1>4. e \in Edge /\ r.pos[w] \in Point
  BY <1>2, StepEdge
<1>5. ~r.over /\ r.trails[e] = None
  BY DEF CanStep
<1> HIDE DEF b
<1>6. /\ b \in State /\ b.tick = r.tick + 1 /\ b.round = r.round /\ SameTurn(r, b)
      /\ b.trails = [r.trails EXCEPT ![e] = w]
      /\ b.pos = [r.pos EXCEPT ![w] = Neighbor(r.pos[w], d)]
  BY <1>3 DEF StepDoes, SameTurn
<1>7. {r.pos[w], b.pos[w]} = e
  BY <1>2, <1>6 DEF State
<1>8. MovingDoes(s, b, w, t)
  BY <1>1, <1>3, <1>4, <1>6, <1>7, MovingEffect
<1> HIDE DEF t, credit
<1>9. /\ t \in ExtendedState /\ t.config = s.config
      /\ t.barred = s.barred /\ t.moved = s.moved \cup {w}
      /\ SameMoment(b, t.base) /\ SameBoard(b, t.base)
      /\ t.base.over => b.over \/ \A v \in Slot : ~t.base.alive[v]
      /\ IF s.config.limit = 0 THEN t.energy = s.energy
         ELSE /\ t.energy = [s.energy EXCEPT ![w] = Floor(s.energy[w] - 1)]
              /\ t.base.alive[w] => t.energy[w] > 0
      /\ \A x \in Edge : t.temporary[x] = IF x = e /\ s.config.ttl > 0
                                          THEN b.tick + s.config.ttl ELSE s.temporary[x]
      /\ Weighed(t) /\ Owing(t, w, credit)
  BY <1>7, <1>8 DEF MovingDoes, credit
<1> HIDE DEF e, r
<1>10. t.base \in State /\ t.base.tick = r.tick + 1 /\ t.base.trails = [r.trails EXCEPT ![e] = w]
  BY <1>6, <1>9 DEF ExtendedState, SameMoment, SameBoard
<1>11. Firm(t.base) /\ (Fresh(b) => Fresh(t.base))
  BY <1>3, <1>6, <1>9, <1>10, SameBoardFirm
<1>12. Tidy(t) => Fresh(t.base)
  BY <1>1, <1>3, <1>9, <1>11 DEF Tidy
<1>13. \A x \in Edge : t.base.trails[x] = IF x = e THEN w ELSE r.trails[x]
  BY <1>2, <1>10 DEF State
<1>14. \A x \in Edge : r.trails[x] # None => x # e /\ t.temporary[x] = s.temporary[x]
  BY <1>5, <1>9
<1>15. \A v \in Slot : t.base.alive[v] => r.alive[v]
  BY <1>3, <1>9 DEF SameBoard
<1>16. Timed(t, t.base.tick)
  <2>1. None \notin Slot
    BY DEF Slot, None
  <2>2. \A x \in Edge :
          /\ s.temporary[x] # 0 => /\ s.config.ttl > 0 /\ r.trails[x] # None
                                   /\ s.temporary[x] \in r.tick + 1 .. r.tick + s.config.ttl
          /\ s.config.ttl > 0 /\ r.trails[x] # None => s.temporary[x] # 0
    BY <1>1 DEF Timed, r
  <2>3. ASSUME NEW x \in Edge, t.temporary[x] # 0
        PROVE  /\ t.config.ttl > 0 /\ t.base.trails[x] # None
               /\ t.temporary[x] \in t.base.tick .. t.base.tick + t.config.ttl
    <3>1. CASE x = e /\ s.config.ttl > 0
      BY <1>2, <1>6, <1>9, <1>10, <1>13, <2>1, <3>1
    <3>2. CASE ~(x = e /\ s.config.ttl > 0)
      <4>1. t.temporary[x] = s.temporary[x]
        BY <1>9, <3>2
      <4>2. /\ s.config.ttl > 0 /\ r.trails[x] # None
            /\ s.temporary[x] \in r.tick + 1 .. r.tick + s.config.ttl
        BY <2>2, <2>3, <4>1
      <4> QED
        BY <1>2, <1>5, <1>9, <1>10, <1>13, <4>1, <4>2
    <3> QED
      BY <3>1, <3>2
  <2>4. ASSUME NEW x \in Edge, t.config.ttl > 0, t.base.trails[x] # None
        PROVE  t.temporary[x] # 0
    BY <1>2, <1>6, <1>9, <1>13, <2>2, <2>4
  <2> QED
    BY <2>3, <2>4 DEF Timed
<1>17. Fed(t)
  <2> SUFFICES ASSUME s.config.limit > 0, NEW v \in Slot
               PROVE  t.energy[v] <= s.config.limit /\ (t.base.alive[v] => t.energy[v] > 0)
    BY <1>9 DEF Fed
  <2>1. /\ s.energy \in [Slot -> Nat] /\ s.energy[v] <= s.config.limit
        /\ r.alive[v] => s.energy[v] > 0
        /\ s.energy[w] <= s.config.limit /\ s.energy[w] > 0
    BY <1>1 DEF Fed, ExtendedState, r
  <2>2. /\ t.energy = [s.energy EXCEPT ![w] = Floor(s.energy[w] - 1)]
        /\ t.base.alive[w] => t.energy[w] > 0
    BY <1>2, <1>9
  <2>3. CASE v = w
    BY <1>2, <2>1, <2>2, <2>3 DEF Floor
  <2>4. CASE v # w
    BY <1>15, <2>1, <2>2, <2>4
  <2> QED
    BY <2>3, <2>4
<1>18. t.base.over => \A v \in Slot : ~t.base.alive[v]
  BY <1>5, <1>6, <1>9 DEF SameTurn
<1>19. Stirred(t, t.base.tick, w, credit)
  <2>1. Neighbor(s.base.pos[w], d) \in Point
    BY DEF CanStep, InBounds
  <2>2. t.base.pos = [s.base.pos EXCEPT ![w] = Neighbor(s.base.pos[w], d)]
    BY <1>6, <1>9 DEF SameMoment, r
  <2>3. Placed(t)
    BY <1>1, <1>9, <1>15, <2>1, <2>2, PlacedOn DEF r
  <2> QED
    BY <1>1, <1>9, <1>11, <1>12, <1>16, <1>17, <1>18, <2>3 DEF Stirred
<1>20. Onward(s, t)
  <2>1. s.base.tick <= t.base.tick
    BY <1>2, <1>10 DEF r
  <2>2. \A x \in Edge : s.base.trails[x] # None =>
           t.base.trails[x] = s.base.trails[x] /\ t.temporary[x] = s.temporary[x]
    BY <1>13, <1>14 DEF r
  <2>3. \A p \in Point : s.base.owner[p] # None => t.base.owner[p] = s.base.owner[p]
    BY <1>3, <1>9 DEF OwnersKept, SameBoard, r
  <2>4. FrozenKept(s.base, t.base)
    BY <1>3, <1>9 DEF StepDoes, SameMoment, FrozenKept, r
  <2> QED
    BY <1>9, <1>15, <2>1, <2>2, <2>3, <2>4 DEF Onward, r
<1> QED
  BY <1>6, <1>8, <1>15, <1>19, <1>20 DEF t, b, credit, r

\* A team gets the credit it is owed, and nothing else changes.
LEMMA CreditPays ==
  ASSUME NEW s \in ExtendedState, NEW w \in Slot, NEW credit \in Int, Owing(s, w, credit)
  PROVE  LET t == Credit(s, w, credit) IN
         /\ t \in ExtendedState /\ Owing(t, 0, 0)
         /\ t.base = s.base /\ t.config = s.config /\ t.barred = s.barred
         /\ t.energy = s.energy /\ t.temporary = s.temporary /\ t.weighted = s.weighted
         /\ t.records = s.records /\ t.moved = s.moved
<1> DEFINE c == s.config.team[w]
           f == [s.team EXCEPT ![c] = @ + credit]
           t == Credit(s, w, credit)
<1>1. c \in Team \cup {NoTeam} /\ NoTeam \notin Team /\ s.team \in [Team -> Int]
  BY ExtensionAssumption DEF ExtendedState, Config
<1>2. CASE c = NoTeam
  <2>1. t = s
    BY <1>2 DEF Credit
  <2>2. ASSUME NEW x \in Team
        PROVE  s.team[x] + (IF s.config.team[0] = x THEN 0 ELSE 0) = Worth(s, TeamDots(s, x))
    <3>1. s.team[x] + (IF c = x THEN credit ELSE 0) = Worth(s, TeamDots(s, x))
      BY DEF Owing
    <3>2. c # x /\ s.team[x] \in Int
      BY <1>1, <1>2
    <3> QED
      BY <3>1, <3>2
  <2>3. Owing(s, 0, 0)
    BY <2>2 DEF Owing
  <2>4. t \in ExtendedState /\ Owing(t, 0, 0)
    BY <2>1, <2>3
  <2> HIDE DEF t
  <2> QED
    BY <2>1, <2>4 DEF t
<1>3. CASE c # NoTeam
  <2>1. t = [s EXCEPT !.team = f]
    BY <1>3 DEF Credit
  <2>2. f \in [Team -> Int]
    BY <1>1, <1>3
  <2>3. \A x \in Team : f[x] = s.team[x] + (IF c = x THEN credit ELSE 0)
    BY <1>1, <1>3
  <2>4. /\ \A g \in [Team -> Int] : [s EXCEPT !.team = g] \in ExtendedState
        /\ \A g : LET v == [s EXCEPT !.team = g] IN
             /\ v.team = g /\ v.base = s.base /\ v.config = s.config /\ v.barred = s.barred
             /\ v.energy = s.energy /\ v.temporary = s.temporary
             /\ v.weighted = s.weighted /\ v.records = s.records /\ v.moved = s.moved
    BY DEF ExtendedState
  <2> HIDE DEF f, t
  <2>5. /\ t \in ExtendedState /\ t.team = f /\ t.base = s.base /\ t.config = s.config
        /\ t.barred = s.barred /\ t.energy = s.energy /\ t.temporary = s.temporary
        /\ t.weighted = s.weighted /\ t.records = s.records /\ t.moved = s.moved
    BY <2>1, <2>2, <2>4
  <2>6. ASSUME NEW x \in Team
        PROVE  t.team[x] + (IF t.config.team[0] = x THEN 0 ELSE 0) = Worth(t, TeamDots(t, x))
    <3>1. Worth(t, TeamDots(t, x)) = Worth(s, TeamDots(s, x))
      BY <2>5 DEF Worth, TeamDots
    <3>2. s.team[x] + (IF c = x THEN credit ELSE 0) = Worth(s, TeamDots(s, x))
      BY DEF Owing
    <3>3. t.team[x] = Worth(t, TeamDots(t, x)) /\ t.team[x] \in Int
      BY <2>2, <2>3, <2>5, <3>1, <3>2
    <3> QED
      BY <3>3
  <2> QED
    BY <2>5, <2>6 DEF Owing, t
<1> QED
  BY <1>2, <1>3

\* The points of a move are the dots it takes, so the team's share of the move is
\* what these dots count.
LEMMA DeltaIsWorth ==
  ASSUME NEW s \in ExtendedState, NEW b \in State, NEW w \in Slot,
         Scored(s.base), Scored(b), OwnersKept(s.base, b, w)
  PROVE  (b.score[w] - s.base.score[w])
           + (Worth(s, Taken(s, b, w)) - Cardinality(Taken(s, b, w)))
         = Worth(s, Taken(s, b, w))
<1> DEFINE D == Dots(s.base.owner, w)
           T == Taken(s, b, w)
<1>1. b.score[w] = Cardinality(D \cup T) /\ s.base.score[w] = Cardinality(D) /\ D \cap T = {}
  BY DotsGrow DEF Scored
<1>2. IsFiniteSet(D) /\ IsFiniteSet(T) /\ T \subseteq Point
  BY PointFinite, FS_Subset DEF Dots, Taken
<1>3. Worth(s, T) \in Nat
  BY <1>2, WorthType
<1> HIDE DEF D, T
<1>4. Cardinality(D \cup T) = Cardinality(D) + Cardinality(T)
  <2>1. Cardinality(D \cup T) = Cardinality(D) + Cardinality(T) - Cardinality(D \cap T)
    BY <1>2, FS_Union
  <2>2. Cardinality(D \cap T) = 0 /\ Cardinality(D) \in Nat /\ Cardinality(T) \in Nat
    BY <1>1, <1>2, FS_EmptySet, FS_CardinalityType
  <2> QED
    BY <2>1, <2>2
<1>5. Cardinality(D) \in Nat /\ Cardinality(T) \in Nat
  BY <1>2, FS_CardinalityType
<1>6. (b.score[w] - s.base.score[w]) + (Worth(s, T) - Cardinality(T)) = Worth(s, T)
  BY <1>1, <1>3, <1>4, <1>5
<1> QED
  BY <1>6 DEF T

\* What a move does to the turn.
MovesOn(s, w, t) ==
  /\ t.base.slot = s.base.slot /\ t.base.pending = s.base.pending
  /\ t.base.round = s.base.round
  /\ s.base.alive[w] /\ \A v \in Slot : t.base.alive[v] => s.base.alive[v]
  /\ s.config.limit > 0 => /\ s.energy[w] > 0
                           /\ t.energy = [s.energy EXCEPT ![w] = Floor(s.energy[w] - 1)]

\* Going on is a matter of the board, the expiries and the configuration.
LEMMA OnwardSame ==
  ASSUME NEW r, NEW s, NEW t, Onward(r, s),
         t.base = s.base, t.temporary = s.temporary, t.config = s.config
  PROVE  Onward(r, t)
BY DEF Onward, Faded

\* Every state goes on to itself.
LEMMA OnwardHere ==
  ASSUME NEW s \in ExtendedState
  PROVE  Onward(s, s)
<1>1. s.base.tick \in Int
  BY DEF ExtendedState, State
<1> QED
  BY <1>1 DEF Onward, FrozenKept

\* Whose credit is outstanding is all that a payment changes.
LEMMA StirredSame ==
  ASSUME NEW s, NEW t \in ExtendedState, NEW n, NEW w, NEW v, NEW c, NEW k,
         Stirred(s, n, v, c), Owing(t, w, k),
         t.base = s.base, t.config = s.config, t.energy = s.energy,
         t.temporary = s.temporary, t.weighted = s.weighted,
         t.barred = s.barred, t.moved = s.moved
  PROVE  Stirred(t, n, w, k)
BY DEF Stirred, Placed, Tidy, Weighed, Worth, Timed, Fed

\* A credit of nothing is nobody's.
LEMMA NothingOwed ==
  ASSUME NEW s \in ExtendedState, NEW v, Owing(s, v, 0)
  PROVE  \A w : Owing(s, w, 0)
<1> SUFFICES ASSUME NEW w, NEW x \in Team
             PROVE  s.team[x] + (IF s.config.team[w] = x THEN 0 ELSE 0) = Worth(s, TeamDots(s, x))
  BY DEF Owing
<1>1. s.team[x] + (IF s.config.team[v] = x THEN 0 ELSE 0) = Worth(s, TeamDots(s, x))
  BY DEF Owing
<1> HIDE DEF TeamDots, Worth
<1> QED
  BY <1>1

\* What holds between two moves is typed; and there is a first slot.
LEMMA HeldType ==
  ASSUME NEW s, Held(s)
  PROVE  /\ Stirred(s, s.base.tick + 1, 0, 0) /\ s \in ExtendedState /\ s.base \in State
         /\ s.base.tick \in Nat /\ s.base.round \in Nat
         /\ s.energy \in [Slot -> Nat] /\ s.config.limit \in Nat /\ s.config.ttl \in Nat
         /\ 0 \in Slot
<1>1. Stirred(s, s.base.tick + 1, 0, 0)
  BY DEF Held
<1>2. s \in ExtendedState
  BY <1>1 DEF Stirred
<1>3. s.base \in State /\ s.energy \in [Slot -> Nat]
  BY <1>2 DEF ExtendedState
<1>4. s.base.tick \in Nat /\ s.base.round \in Nat
  BY <1>3 DEF State
<1>5. s.config.limit \in Nat /\ s.config.ttl \in Nat
  BY <1>2 DEF ExtendedState, Config
<1>6. 0 \in Slot
  BY EngineAssumption DEF Slot
<1> QED
  BY <1>1, <1>2, <1>3, <1>4, <1>5, <1>6

\* Apply leaves a state in which nothing is due, and the move is paid for.
LEMMA ApplyHolds ==
  ASSUME NEW s, Held(s), NEW w \in Slot, NEW d, d \in Dir, NEW t \in Apply(s, w, d)
  PROVE  Held(t) /\ Onward(s, t) /\ MovesOn(s, w, t)
<1> DEFINE due == Expire(s)
           b == Stepped(due.base, w, d)
           mv == Moving(due, b, w)
           ex == Expire(mv)
           credit == Worth(due, Taken(due, b, w))
           delta == (b.score[w] - due.base.score[w])
                      + (Worth(due, Taken(due, b, w)) - Cardinality(Taken(due, b, w)))
           cr == Credit(ex, w, delta)
<1>1. /\ Stirred(s, s.base.tick + 1, 0, 0) /\ s \in ExtendedState
      /\ s.base.tick \in Nat /\ 0 \in Slot
  BY HeldType
<1>2. /\ Stirred(due, s.base.tick + 1, 0, 0) /\ Onward(s, due)
      /\ SameMoment(s.base, due.base) /\ due.base.alive = s.base.alive
      /\ due.energy = s.energy /\ due.config = s.config
  <2> s.base.tick + 1 \in Nat /\ 0 \in Int
    BY <1>1
  <2> HIDE DEF due
  <2> QED
    BY <1>1, ExpireStirs DEF due
<1>3. /\ Allowed(due, w, d) /\ CanStep(due.base, w, d)
      /\ t \in {Settle(due, x, w) : x \in Step(due.base, w, d)}
  BY DEF Apply
<1>4. t = [cr EXCEPT !.records = @ + 1]
  <2>1. t = Settle(due, b, w)
    BY <1>3, StepIsStepped
  <2> HIDE DEF b, due
  <2> QED
    BY <2>1 DEF Settle, Moving, Gained, Taken
<1> HIDE DEF due
<1>5. /\ due \in ExtendedState /\ due.base.tick = s.base.tick
      /\ Firm(due.base)
      /\ Stirred(due, due.base.tick + 1, w, 0)
  <2>1. due \in ExtendedState /\ due.base.tick = s.base.tick /\ Owing(due, 0, 0) /\ Firm(due.base)
    BY <1>2 DEF Stirred, SameMoment
  <2>2. Owing(due, w, 0)
    BY <2>1, NothingOwed
  <2> QED
    BY <1>2, <2>1, <2>2, StirredSame
<1>6. /\ due.base.alive[w] /\ due.barred[Neighbor(due.base.pos[w], d)] = {}
      /\ due.config.limit > 0 => due.energy[w] > 0
  BY <1>3 DEF Allowed
<1>7. /\ Stirred(mv, mv.base.tick, w, credit) /\ Onward(due, mv)
      /\ MovingDoes(due, b, w, mv)
      /\ \A v \in Slot : mv.base.alive[v] => due.base.alive[v]
      /\ SameTurn(due.base, b) /\ b.round = due.base.round /\ b.tick = due.base.tick + 1
  BY <1>3, <1>5, <1>6, MoveStirs
<1>8. delta = credit /\ credit \in Int
  <2>1. Firm(b) /\ OwnersKept(due.base, b, w)
    BY <1>3, <1>5, StepFirm
  <2> HIDE DEF b
  <2>2. delta = credit
    BY <1>5, <2>1, DeltaIsWorth DEF Firm
  <2>3. Taken(due, b, w) \subseteq Point
    BY DEF Taken
  <2> QED
    BY <1>5, <2>2, <2>3, WorthType
<1> HIDE DEF b, mv, credit, delta
<1>9. mv \in ExtendedState /\ mv.base.tick \in Nat /\ mv.config = due.config
  BY <1>7 DEF Stirred, ExtendedState, State, MovingDoes
<1>10. /\ Stirred(ex, mv.base.tick + 1, w, credit) /\ Onward(mv, ex)
       /\ SameMoment(mv.base, ex.base) /\ ex.base.alive = mv.base.alive
       /\ ex.energy = mv.energy /\ ex.config = mv.config
  BY <1>7, <1>8, <1>9, ExpireStirs
<1> HIDE DEF ex
<1>11. ex \in ExtendedState /\ Owing(ex, w, credit)
  BY <1>10 DEF Stirred
<1>12. /\ cr \in ExtendedState /\ Owing(cr, 0, 0)
       /\ cr.base = ex.base /\ cr.config = ex.config
       /\ cr.energy = ex.energy /\ cr.temporary = ex.temporary /\ cr.weighted = ex.weighted
       /\ cr.barred = ex.barred /\ cr.moved = ex.moved
  BY <1>8, <1>11, CreditPays
<1> HIDE DEF cr
<1>13. /\ t \in ExtendedState /\ t.records > 0 /\ t.base = cr.base /\ t.config = cr.config
       /\ t.energy = cr.energy /\ t.temporary = cr.temporary /\ t.weighted = cr.weighted
       /\ t.team = cr.team /\ t.barred = cr.barred /\ t.moved = cr.moved
  <2>1. cr.records \in Nat /\ cr.records + 1 \in Nat
    BY <1>12 DEF ExtendedState
  <2>2. \A k \in Nat : LET v == [cr EXCEPT !.records = k] IN
          /\ v \in ExtendedState /\ v.records = k /\ v.base = cr.base /\ v.config = cr.config
          /\ v.energy = cr.energy /\ v.temporary = cr.temporary
          /\ v.weighted = cr.weighted /\ v.team = cr.team
          /\ v.barred = cr.barred /\ v.moved = cr.moved
    BY <1>12 DEF ExtendedState
  <2>3. cr.records + 1 > 0
    BY <2>1
  <2> QED
    BY <1>4, <2>1, <2>2, <2>3
<1>14. Owing(t, 0, 0)
  BY <1>12, <1>13 DEF Owing, TeamDots, Worth
<1>15. Stirred(t, t.base.tick + 1, 0, 0)
  <2>1. t.base.tick = mv.base.tick
    BY <1>10, <1>12, <1>13 DEF SameMoment
  <2> QED
    BY <1>10, <1>12, <1>13, <1>14, <2>1, StirredSame
<1>16. Held(t)
  BY <1>13, <1>15 DEF Held
<1>17. Onward(s, t)
  <2>1. Onward(s, mv)
    BY <1>1, <1>2, <1>5, <1>7, <1>9, OnwardOn
  <2>2. Onward(s, ex)
    BY <1>1, <1>9, <1>10, <1>11, <2>1, OnwardOn
  <2> QED
    BY <1>12, <1>13, <2>2, OnwardSame
<1>18. MovesOn(s, w, t)
  <2>1. t.base.slot = s.base.slot /\ t.base.pending = s.base.pending /\ t.base.round = s.base.round
    BY <1>2, <1>7, <1>10, <1>12, <1>13 DEF SameMoment, SameTurn, MovingDoes
  <2>2. s.base.alive[w] /\ \A v \in Slot : t.base.alive[v] => s.base.alive[v]
    BY <1>2, <1>6, <1>7, <1>10, <1>12, <1>13
  <2>3. ASSUME s.config.limit > 0
        PROVE  s.energy[w] > 0 /\ t.energy = [s.energy EXCEPT ![w] = Floor(s.energy[w] - 1)]
    BY <1>2, <1>6, <1>7, <1>10, <1>12, <1>13, <2>3 DEF MovingDoes
  <2> QED
    BY <2>1, <2>2, <2>3 DEF MovesOn
<1> QED
  BY <1>16, <1>17, <1>18

\* Boards that differ in tables, cursor, question and events, and in who still lives.
SameLand(b, c) ==
  /\ c.tick = b.tick /\ c.trails = b.trails /\ c.owner = b.owner
  /\ c.cached = b.cached /\ c.score = b.score /\ c.pos = b.pos
  /\ \A w \in Slot : c.alive[w] => b.alive[w]

\* Tables, cursor, question and events are no part of what an extended game holds, as
\* long as the tables stay acceptable and nobody is revived.
LEMMA LandKeeps ==
  ASSUME NEW s, Held(s), NEW b \in State, SameLand(s.base, b), FrozenKept(s.base, b),
         \A w \in Slot : ValidRules(b.rules[w]), b.over => \A w \in Slot : ~b.alive[w]
  PROVE  LET t == With(s, b) IN
         /\ Held(t) /\ Onward(s, t)
         /\ t.base = b /\ t.config = s.config /\ t.energy = s.energy
         /\ t.barred = s.barred /\ t.temporary = s.temporary /\ t.moved = s.moved
<1> DEFINE t == With(s, b)
<1>1. Stirred(s, s.base.tick + 1, 0, 0) /\ s \in ExtendedState /\ s.base.tick \in Nat
  BY HeldType
<1>2. /\ t \in ExtendedState /\ t.base = b
      /\ t.config = s.config /\ t.barred = s.barred /\ t.energy = s.energy
      /\ t.temporary = s.temporary /\ t.weighted = s.weighted /\ t.team = s.team
      /\ t.records = s.records /\ t.moved = s.moved
  BY <1>1, WithEffect
<1> HIDE DEF t
<1>3. /\ b.tick = s.base.tick /\ b.trails = s.base.trails /\ b.owner = s.base.owner
      /\ b.cached = s.base.cached /\ b.score = s.base.score /\ b.pos = s.base.pos
      /\ \A w \in Slot : b.alive[w] => s.base.alive[w]
  BY DEF SameLand
<1>4. Firm(b)
  <2>1. Firm(s.base)
    BY <1>1 DEF Stirred
  <2> QED
    BY <1>3, <2>1 DEF Firm, Owned, Scored, Apart
<1>5. Tidy(t) => Fresh(b)
  BY <1>1, <1>2, <1>3 DEF Stirred, Tidy, Fresh, TrailMask
<1>6. Weighed(t) /\ Owing(t, 0, 0)
  BY <1>1, <1>2, <1>3 DEF Stirred, Weighed, Owing, TeamDots, Worth
<1>7. Timed(t, t.base.tick + 1)
  BY <1>1, <1>2, <1>3 DEF Stirred, Timed
<1>8. Fed(t)
  BY <1>1, <1>2, <1>3 DEF Stirred, Fed
<1>9. Stirred(t, t.base.tick + 1, 0, 0)
  <2>1. Placed(t)
    BY <1>1, <1>2, <1>3, PlacedSame DEF Stirred
  <2> QED
    BY <1>1, <1>2, <1>4, <1>5, <1>6, <1>7, <1>8, <2>1 DEF Stirred
<1>10. Held(t)
  BY <1>2, <1>3, <1>9 DEF Held
<1>11. Onward(s, t)
  BY <1>1, <1>2, <1>3 DEF Onward
<1> QED
  BY <1>2, <1>10, <1>11 DEF t

\* What a worm may do depends on the land, the lives, the energies and the expiries.
LEMMA ExitsSame ==
  ASSUME NEW s, NEW t, NEW w, SameLand(s.base, t.base), t.base.alive = s.base.alive,
         t.config = s.config, t.energy = s.energy, t.barred = s.barred,
         t.temporary = s.temporary
  PROVE  /\ MaskAt(t.base, t.base.pos[w]) = MaskAt(s.base, s.base.pos[w])
         /\ Exits(t, w) = Exits(s, w)
<1>1. \A p : MaskAt(t.base, p) = MaskAt(s.base, p)
  BY DEF SameLand, MaskAt, TrailMask
<1>2. t.base.pos = s.base.pos /\ t.base.trails = s.base.trails
  BY DEF SameLand
<1>3. \A p : WormAt(t.base, p) = WormAt(s.base, p)
  BY <1>2 DEF WormAt
<1>4. LegalMoves(t.base, w) = LegalMoves(s.base, w)
  BY <1>1, <1>2, <1>3 DEF LegalMoves
<1>5. \A d \in Dir : Allowed(t, w, d) = Allowed(s, w, d)
  BY <1>1, <1>2, <1>3 DEF Allowed
<1> QED
  BY <1>1, <1>2, <1>4, <1>5 DEF Exits

\* A worm chooses among the moves it has.
LEMMA UsableAreExits ==
  ASSUME NEW s, NEW w, NEW a
  PROVE  Usable(s, w, a) \subseteq Exits(s, w) /\ Exits(s, w) \subseteq Dir
<1>1. Exits(s, w) \subseteq Dir
  BY DEF Exits, LegalMoves
<1>2. BestMoves(s, w) \subseteq Exits(s, w)
  BY DEF BestMoves, Foremost
<1> QED
  BY <1>1, <1>2 DEF Usable

------------------------------------------------------------------------------
(* Paying.                                                                 *)

\* Who has paid depends on the round, the lives and the energies.
LEMMA PaidSame ==
  ASSUME NEW s, NEW t, NEW k, Held(s), Paid(s, k),
         t.config = s.config, t.energy = s.energy, t.base.round = s.base.round,
         \A w \in Slot : t.base.alive[w] => s.base.alive[w]
  PROVE  Paid(t, k)
<1> SUFFICES ASSUME s.config.limit > 0, NEW w \in Slot
             PROVE  LET due == s.config.limit - (s.base.round + Served(w, k))
                    IN  IF t.base.alive[w] THEN s.energy[w] = due ELSE s.energy[w] >= due
  BY DEF Paid
<1>1. /\ s.energy \in [Slot -> Nat] /\ s.base.round \in Nat /\ s.config.limit \in Nat
  BY HeldType
<1>2. Served(w, k) \in Nat
  BY DEF Served
<1>3. LET due == s.config.limit - (s.base.round + Served(w, k))
      IN  IF s.base.alive[w] THEN s.energy[w] = due ELSE s.energy[w] >= due
  BY DEF Paid
<1> QED
  BY <1>1, <1>2, <1>3

\* A worm that has moved has paid for its turn.
LEMMA MovePays ==
  ASSUME NEW s, NEW t, NEW w \in Slot, Held(s), Paid(s, w), MovesOn(s, w, t),
         t.config = s.config
  PROVE  Paid(t, w + 1)
<1> SUFFICES ASSUME s.config.limit > 0, NEW v \in Slot
             PROVE  LET due == s.config.limit - (s.base.round + Served(v, w + 1))
                    IN  IF t.base.alive[v] THEN t.energy[v] = due ELSE t.energy[v] >= due
  BY DEF Paid, MovesOn
<1>1. /\ s.energy \in [Slot -> Nat] /\ s.base.round \in Nat /\ s.config.limit \in Nat
      /\ w \in Int /\ v \in Int
  BY HeldType DEF Slot
<1>2. LET due == s.config.limit - (s.base.round + Served(v, w))
      IN  IF s.base.alive[v] THEN s.energy[v] = due ELSE s.energy[v] >= due
  BY DEF Paid
<1>3. /\ s.base.alive[w] /\ (t.base.alive[v] => s.base.alive[v])
      /\ s.energy[w] > 0 /\ t.energy = [s.energy EXCEPT ![w] = Floor(s.energy[w] - 1)]
  BY DEF MovesOn
<1>4. CASE v = w
  <2>1. Served(v, w) = 0 /\ Served(v, w + 1) = 1
    BY <1>1, <1>4 DEF Served
  <2>2. t.energy[v] = s.energy[v] - 1
    BY <1>1, <1>3, <1>4 DEF Floor
  <2>3. s.energy[v] = s.config.limit - (s.base.round + 0)
    BY <1>2, <1>3, <1>4, <2>1
  <2>4. t.energy[v] = s.config.limit - (s.base.round + 1) /\ t.energy[v] \in Int
    BY <1>1, <2>2, <2>3
  <2> QED
    BY <2>1, <2>4
<1>5. CASE v # w
  <2>1. Served(v, w + 1) = Served(v, w) /\ Served(v, w) \in Nat
    BY <1>1, <1>5 DEF Served
  <2>2. t.energy[v] = s.energy[v]
    BY <1>1, <1>3, <1>5
  <2> QED
    BY <1>1, <1>2, <1>3, <2>1, <2>2
<1> QED
  BY <1>4, <1>5

\* A worm that dies in its turn, or is dead, owes nothing.
LEMMA DeadPays ==
  ASSUME NEW s, NEW t, NEW w \in Slot, Held(s), Paid(s, w), ~t.base.alive[w],
         t.config = s.config, t.energy = s.energy, t.base.round = s.base.round,
         \A v \in Slot : t.base.alive[v] => s.base.alive[v]
  PROVE  Paid(t, w + 1)
<1> SUFFICES ASSUME s.config.limit > 0, NEW v \in Slot
             PROVE  LET due == s.config.limit - (s.base.round + Served(v, w + 1))
                    IN  IF t.base.alive[v] THEN s.energy[v] = due ELSE s.energy[v] >= due
  BY DEF Paid
<1>1. /\ s.energy \in [Slot -> Nat] /\ s.base.round \in Nat /\ s.config.limit \in Nat
      /\ w \in Int /\ v \in Int
  BY HeldType DEF Slot
<1>2. LET due == s.config.limit - (s.base.round + Served(v, w))
      IN  IF s.base.alive[v] THEN s.energy[v] = due ELSE s.energy[v] >= due
  BY DEF Paid
<1>3. CASE v = w
  <2>1. Served(v, w) = 0 /\ Served(v, w + 1) = 1
    BY <1>1, <1>3 DEF Served
  <2> QED
    BY <1>1, <1>2, <1>3, <2>1
<1>4. CASE v # w
  <2>1. Served(v, w + 1) = Served(v, w) /\ Served(v, w) \in Nat
    BY <1>1, <1>4 DEF Served
  <2> QED
    BY <1>1, <1>2, <2>1
<1> QED
  BY <1>3, <1>4

------------------------------------------------------------------------------
(* A handler.                                                              *)

\* The first k slots have been served, or the worm at the cursor is asked.
Serving(s, k) ==
  /\ Held(s) /\ Asked(s)
  /\ IF s.base.pending = NoDecision THEN Paid(s, k) ELSE Paid(s, s.base.slot)

\* Going on is transitive.
LEMMA HeldOn ==
  ASSUME NEW r, NEW s, NEW t, Held(r), Held(s), Held(t), Onward(r, s), Onward(s, t)
  PROVE  Onward(r, t)
BY HeldType, OnwardOn

\* A state that differs in its events only holds what the other one held.
LEMMA UseRuleKeeps ==
  ASSUME NEW s, Held(s), NEW w \in Slot, NEW m \in Mask, NEW d \in Dir
  PROVE  LET t == With(s, UseRule(s.base, w, m, d)) IN
         /\ Held(t) /\ Onward(s, t) /\ SameGame(s.base, t.base)
         /\ t.config = s.config /\ t.energy = s.energy
<1> DEFINE b == UseRule(s.base, w, m, d)
<1>1. s.base \in State /\ Stirred(s, s.base.tick + 1, 0, 0)
  BY HeldType
<1>2. b \in State /\ SameGame(s.base, b)
  BY <1>1, UseRuleType
<1> HIDE DEF b
<1>3. SameLand(s.base, b)
  BY <1>2 DEF SameGame, SameLand
<1>4. \A v \in Slot : ValidRules(b.rules[v])
  BY <1>1, <1>2 DEF SameGame, Stirred, Firm
<1>5. b.over => \A v \in Slot : ~b.alive[v]
  BY <1>1, <1>2 DEF SameGame, Stirred
<1>6. FrozenKept(s.base, b)
  BY <1>2 DEF SameGame, FrozenKept
<1> QED
  BY <1>2, <1>3, <1>4, <1>5, <1>6, LandKeeps DEF b

\* A move that a rule leads to serves the worm's turn.
LEMMA TakeServes ==
  ASSUME NEW s, Held(s), NEW w \in Slot, NEW m \in Mask, NEW d \in Dir,
         s.base.pending = NoDecision, Paid(s, w), NEW t \in Take(s, w, m, d)
  PROVE  Serving(t, w + 1) /\ Onward(s, t)
<1> DEFINE u == With(s, UseRule(s.base, w, m, d))
<1>1. /\ Held(u) /\ Onward(s, u) /\ SameGame(s.base, u.base)
      /\ u.config = s.config /\ u.energy = s.energy
  BY UseRuleKeeps
<1>2. t \in Apply(u, w, d)
  BY DEF Take
<1> HIDE DEF u
<1>3. Held(t) /\ Onward(u, t) /\ MovesOn(u, w, t)
  BY <1>1, <1>2, ApplyHolds
<1>4. u.base.pending = NoDecision /\ t.base.pending = NoDecision
  BY <1>1, <1>3 DEF SameGame, MovesOn
<1>5. Paid(u, w)
  BY <1>1, PaidSame DEF SameGame
<1>6. Paid(t, w + 1)
  BY <1>1, <1>3, <1>5, MovePays DEF Onward
<1>7. Onward(s, t)
  BY <1>1, <1>3, HeldOn
<1> QED
  BY <1>3, <1>4, <1>6, <1>7 DEF Serving, Asked

\* A worm that dies in its turn has been served.
LEMMA KillServes ==
  ASSUME NEW s, Held(s), NEW w \in Slot, s.base.pending = NoDecision, Paid(s, w),
         NEW cause \in {"worm_died", "worm_blocked"}
  PROVE  LET t == With(s, Kill(s.base, w, cause)) IN Serving(t, w + 1) /\ Onward(s, t)
<1> DEFINE b == Kill(s.base, w, cause)
           a == [s.base EXCEPT !.alive[w] = FALSE]
           t == With(s, b)
<1>1. s.base \in State /\ Stirred(s, s.base.tick + 1, 0, 0)
  BY HeldType
<1>2. b \in State /\ SameGame(a, b)
  BY <1>1, KillType
<1>3. /\ a.alive = [s.base.alive EXCEPT ![w] = FALSE] /\ SameLand(s.base, a)
      /\ a.rules = s.base.rules /\ a.over = s.base.over /\ a.pending = s.base.pending
      /\ a.round = s.base.round
  BY <1>1 DEF State, SameLand
<1> HIDE DEF a, b
<1>4. /\ SameLand(s.base, b) /\ b.rules = s.base.rules /\ b.over = s.base.over
      /\ b.pending = s.base.pending /\ b.round = s.base.round
      /\ b.alive = [s.base.alive EXCEPT ![w] = FALSE]
  BY <1>2, <1>3 DEF SameGame, SameLand
<1>5. ~b.alive[w] /\ \A v \in Slot : b.alive[v] => s.base.alive[v]
  BY <1>1, <1>4 DEF State
<1>6. \A v \in Slot : ValidRules(b.rules[v])
  BY <1>1, <1>4 DEF Stirred, Firm
<1>7. b.over => \A v \in Slot : ~b.alive[v]
  BY <1>1, <1>4, <1>5 DEF Stirred
<1>8. /\ Held(t) /\ Onward(s, t) /\ t.base = b /\ t.config = s.config /\ t.energy = s.energy
  <2>1. FrozenKept(s.base, b)
    BY <1>4 DEF FrozenKept
  <2> QED
    BY <1>2, <1>4, <1>6, <1>7, <2>1, LandKeeps
<1> HIDE DEF t
<1>9. Paid(t, w + 1)
  BY <1>4, <1>5, <1>8, DeadPays
<1>10. t.base.pending = NoDecision
  BY <1>4, <1>8
<1>11. Serving(t, w + 1) /\ Onward(s, t)
  BY <1>8, <1>9, <1>10 DEF Serving, Asked
<1> QED
  BY <1>11 DEF t, b

\* A worm that does not know its pattern is asked about it, and has not moved yet.
LEMMA AskServes ==
  ASSUME NEW s, Held(s), NEW w \in Slot, s.base.pending = NoDecision, Paid(s, w),
         s.base.slot = w, s.base.alive[w], Exits(s, w) # {},
         s.base.rules[w][MaskAt(s.base, s.base.pos[w])] = GETNEW, NEW k
  PROVE  LET t == With(s, Ask(s.base, w, MaskAt(s.base, s.base.pos[w])))
         IN  Serving(t, k) /\ Onward(s, t)
<1> DEFINE m == MaskAt(s.base, s.base.pos[w])
           b == Ask(s.base, w, m)
           a == [s.base EXCEPT !.pending = b.pending]
           t == With(s, b)
<1>1. s.base \in State /\ Stirred(s, s.base.tick + 1, 0, 0)
  BY HeldType
<1>2. m \in Mask
  <2>1. s.base.pos[w] \in Point
    BY <1>1 DEF State
  <2> QED
    BY <1>1, <2>1, MaskType
<1>3. /\ b \in State /\ SameGame(a, b)
      /\ b.pending = [slot |-> w, mask |-> m, request |-> b.seq] /\ b.pending # NoDecision
  <2> HIDE DEF m
  <2> QED
    BY <1>1, <1>2, AskEffect
<1>4. /\ SameLand(s.base, a) /\ a.alive = s.base.alive
      /\ a.rules = s.base.rules /\ a.over = s.base.over /\ a.slot = s.base.slot
      /\ a.round = s.base.round
  BY <1>1 DEF State, SameLand
<1> HIDE DEF a, b
<1>5. /\ SameLand(s.base, b) /\ b.alive = s.base.alive
      /\ b.rules = s.base.rules /\ b.over = s.base.over /\ b.slot = w
      /\ b.round = s.base.round
  BY <1>3, <1>4 DEF SameGame, SameLand
<1>6. \A v \in Slot : ValidRules(b.rules[v])
  BY <1>1, <1>5 DEF Stirred, Firm
<1>7. b.over => \A v \in Slot : ~b.alive[v]
  BY <1>1, <1>5 DEF Stirred
<1>8. /\ Held(t) /\ Onward(s, t)
      /\ t.base = b /\ t.config = s.config /\ t.energy = s.energy
      /\ t.barred = s.barred /\ t.temporary = s.temporary
  <2>1. FrozenKept(s.base, b)
    BY <1>5 DEF FrozenKept
  <2> QED
    BY <1>3, <1>5, <1>6, <1>7, <2>1, LandKeeps
<1> HIDE DEF t
<1>9. Exits(t, w) = Exits(s, w) /\ MaskAt(t.base, t.base.pos[w]) = m
  BY <1>5, <1>8, ExitsSame DEF m
<1>10. b.pending.slot = w /\ b.pending.mask = m
  BY <1>3
<1>11. s.base.rules[w][m] = GETNEW
  BY DEF m
<1> HIDE DEF m
<1>12. Asked(t)
  BY <1>5, <1>8, <1>9, <1>10, <1>11 DEF Asked
<1>13. Paid(t, w)
  BY <1>5, <1>8, PaidSame
<1>14. Serving(t, k)
  BY <1>3, <1>5, <1>8, <1>12, <1>13 DEF Serving
<1> QED
  BY <1>8, <1>14 DEF t, b, m

\* A lesson changes the table of the worm that learns.
LEMMA LearnChangesOne ==
  ASSUME NEW s \in State, \A v \in Slot : ValidRules(s.rules[v]),
         NEW w \in Slot, ~Frozen(w), NEW m \in Mask, NEW d \in Dir, d \notin m
  PROVE  FrozenKept(s, Learn(s, w, m, d))
<1> DEFINE t == Learn(s, w, m, d)
<1>1. /\ t \in State /\ t.rules = [s.rules EXCEPT ![w][m] = d]
      /\ SameGame([s EXCEPT !.rules = t.rules], t)
      /\ \A v \in Slot : ValidRules(t.rules[v])
  BY LearnEffect
<1> HIDE DEF t
<1>2. \A v \in Slot : v # w => t.rules[v] = s.rules[v]
  BY <1>1 DEF State
<1>3. FrozenKept(s, t)
  BY <1>2 DEF FrozenKept
<1> QED
  BY <1>3 DEF t

\* A worm that chooses for itself learns what it chose.
LEMMA LearnKeeps ==
  ASSUME NEW s, Held(s), NEW w \in Slot, ~Frozen(w), NEW m \in Mask,
         NEW d \in Dir, d \notin m
  PROVE  LET t == With(s, Learn(s.base, w, m, d)) IN
         /\ Held(t) /\ Onward(s, t)
         /\ t.config = s.config /\ t.energy = s.energy /\ t.base.round = s.base.round
         /\ t.base.pending = s.base.pending /\ t.base.alive = s.base.alive
         /\ SameLand(s.base, t.base)
<1> DEFINE b == Learn(s.base, w, m, d)
           a == [s.base EXCEPT !.rules = b.rules]
<1>1. s.base \in State /\ Stirred(s, s.base.tick + 1, 0, 0)
  BY HeldType
<1>2. \A v \in Slot : ValidRules(s.base.rules[v])
  BY <1>1 DEF Stirred, Firm
<1>3. b \in State /\ SameGame(a, b) /\ \A v \in Slot : ValidRules(b.rules[v])
  BY <1>1, <1>2, LearnEffect
<1>4. /\ SameLand(s.base, a) /\ a.alive = s.base.alive /\ a.over = s.base.over
      /\ a.pending = s.base.pending /\ a.round = s.base.round
  BY <1>1 DEF State, SameLand
<1> HIDE DEF a, b
<1>5. /\ SameLand(s.base, b) /\ b.alive = s.base.alive /\ b.over = s.base.over
      /\ b.pending = s.base.pending /\ b.round = s.base.round
  BY <1>3, <1>4 DEF SameGame, SameLand
<1>6. b.over => \A v \in Slot : ~b.alive[v]
  BY <1>1, <1>5 DEF Stirred
<1>7. FrozenKept(s.base, b)
  BY <1>1, <1>2, LearnChangesOne DEF b
<1> QED
  BY <1>3, <1>5, <1>6, <1>7, LandKeeps DEF b

\* Whatever its table says, a living worm moves, dies or is asked in its turn.
LEMMA TurnServes ==
  ASSUME NEW s, Held(s), NEW w \in Slot, s.base.pending = NoDecision, Paid(s, w),
         s.base.slot = w, s.base.alive[w], NEW t \in DispatchMove(s, w)
  PROVE  Serving(t, w + 1) /\ Onward(s, t)
<1> DEFINE m == MaskAt(s.base, s.base.pos[w])
           a == s.base.rules[w][m]
<1>1. s.base \in State /\ Stirred(s, s.base.tick + 1, 0, 0)
  BY HeldType
<1>2. m \in Mask /\ a \in Action
  <2>1. s.base.pos[w] \in Point /\ s.base.rules \in [Slot -> [Mask -> Action]]
    BY <1>1 DEF State
  <2>2. m \in Mask
    BY <1>1, <2>1, MaskType
  <2> HIDE DEF m
  <2> QED
    BY <2>1, <2>2
<1>3. \/ Exits(s, w) = {} /\ t = With(s, Kill(s.base, w, "worm_blocked"))
      \/ Exits(s, w) # {} /\ a = GETNEW /\ t = With(s, Ask(s.base, w, m))
      \/ Exits(s, w) # {} /\ a = DIE /\ t = With(s, Kill(s.base, w, "worm_died"))
      \/ /\ Exits(s, w) # {} /\ a \in Dir \cup {DOAI}
         /\ \E d \in Usable(s, w, a) :
              t \in Take(IF a = DOAI /\ ~Frozen(w) THEN With(s, Learn(s.base, w, m, d)) ELSE s,
                         w, m, d)
  <2> DEFINE Outcome(d) ==
        Take(IF a = DOAI /\ ~Frozen(w) THEN With(s, Learn(s.base, w, m, d)) ELSE s, w, m, d)
  <2>1. t \in CASE Exits(s, w) = {} -> {With(s, Kill(s.base, w, "worm_blocked"))}
                [] Exits(s, w) # {} /\ a = GETNEW -> {With(s, Ask(s.base, w, m))}
                [] Exits(s, w) # {} /\ a = DIE -> {With(s, Kill(s.base, w, "worm_died"))}
                [] Exits(s, w) # {} /\ a \in Dir \cup {DOAI} ->
                     UNION {Outcome(d) : d \in Usable(s, w, a)}
    BY DEF DispatchMove
  <2>2. /\ GETNEW # DIE /\ GETNEW \notin Dir \cup {DOAI} /\ DIE \notin Dir \cup {DOAI}
        /\ a \in Dir \cup {GETNEW, DIE, DOAI}
    BY <1>2 DEF GETNEW, DIE, DOAI, Dir, Action
  <2> HIDE DEF a, Outcome
  <2>3. CASE Exits(s, w) = {}
    BY <2>1, <2>3
  <2>4. CASE Exits(s, w) # {} /\ a = GETNEW
    BY <2>1, <2>2, <2>4
  <2>5. CASE Exits(s, w) # {} /\ a = DIE
    BY <2>1, <2>2, <2>5
  <2>6. CASE Exits(s, w) # {} /\ a \in Dir \cup {DOAI}
    <3>1. t \in UNION {Outcome(d) : d \in Usable(s, w, a)}
      BY <2>1, <2>2, <2>6
    <3>2. \E d \in Usable(s, w, a) : t \in Outcome(d)
      BY <3>1
    <3> QED
      BY <2>6, <3>2 DEF Outcome
  <2> QED
    BY <2>2, <2>3, <2>4, <2>5, <2>6
<1>4. CASE t \in {With(s, Kill(s.base, w, cause)) : cause \in {"worm_died", "worm_blocked"}}
  BY <1>4, KillServes
<1>5. CASE Exits(s, w) # {} /\ a = GETNEW /\ t = With(s, Ask(s.base, w, m))
  BY <1>5, AskServes
<1>6. ASSUME NEW d \in Usable(s, w, a),
             t \in Take(IF a = DOAI /\ ~Frozen(w) THEN With(s, Learn(s.base, w, m, d)) ELSE s,
                        w, m, d)
      PROVE  Serving(t, w + 1) /\ Onward(s, t)
  <2>1. d \in Exits(s, w) /\ d \in Dir
    <3> HIDE DEF a
    <3> QED
      BY UsableAreExits
  <2>2. d \notin m
    BY <1>1, <2>1 DEF Exits, Allowed, Stirred
  <2> HIDE DEF m, a
  <2>3. CASE a = DOAI /\ ~Frozen(w)
    <3> DEFINE u == With(s, Learn(s.base, w, m, d))
    <3>1. /\ Held(u) /\ Onward(s, u)
          /\ u.config = s.config /\ u.energy = s.energy /\ u.base.round = s.base.round
          /\ u.base.pending = s.base.pending /\ u.base.alive = s.base.alive
      BY <1>2, <2>1, <2>2, <2>3, LearnKeeps
    <3>2. t \in Take(u, w, m, d)
      BY <1>6, <2>3
    <3> HIDE DEF u
    <3>3. Paid(u, w)
      BY <3>1, PaidSame
    <3>4. Serving(t, w + 1) /\ Onward(u, t)
      BY <1>2, <2>1, <3>1, <3>2, <3>3, TakeServes
    <3> QED
      BY <3>1, <3>4, HeldOn DEF Serving
  <2>4. CASE ~(a = DOAI /\ ~Frozen(w))
    BY <1>2, <1>6, <2>1, <2>4, TakeServes
  <2> QED
    BY <2>3, <2>4
<1> HIDE DEF m, a
<1> QED
  BY <1>3, <1>4, <1>5, <1>6

\* The cursor moves, and nothing else.
LEMMA CursorKeeps ==
  ASSUME NEW s, Held(s), NEW n \in Slot \cup {None, N}
  PROVE  LET t == With(s, [s.base EXCEPT !.slot = n]) IN
         /\ Held(t) /\ Onward(s, t)
         /\ t.base.slot = n /\ t.base.pending = s.base.pending /\ t.base.alive = s.base.alive
         /\ t.base.round = s.base.round /\ t.config = s.config /\ t.energy = s.energy
<1> DEFINE b == [s.base EXCEPT !.slot = n]
<1>1. s.base \in State /\ Stirred(s, s.base.tick + 1, 0, 0)
  BY HeldType
<1>2. /\ b \in State /\ SameLand(s.base, b) /\ b.slot = n /\ b.pending = s.base.pending
      /\ b.alive = s.base.alive /\ b.round = s.base.round /\ b.rules = s.base.rules
      /\ b.over = s.base.over
  BY <1>1 DEF State, SameLand
<1> HIDE DEF b
<1>3. \A v \in Slot : ValidRules(b.rules[v])
  BY <1>1, <1>2 DEF Stirred, Firm
<1>4. b.over => \A v \in Slot : ~b.alive[v]
  BY <1>1, <1>2 DEF Stirred
<1>5. FrozenKept(s.base, b)
  BY <1>2 DEF FrozenKept
<1> QED
  BY <1>2, <1>3, <1>4, <1>5, LandKeeps DEF b

\* One iteration of the loop serves one slot, unless somebody is asked already.
LEMMA SlotServes ==
  ASSUME NEW s, NEW w \in 0 .. 3, NEW first \in 0 .. 4, Serving(s, NextSlot(w, first)),
         NEW t \in VisitSlot(s, w, first)
  PROVE  Serving(t, NextSlot(w + 1, first)) /\ Onward(s, t)
<1>1. Held(s) /\ Onward(s, s)
  <2>1. Held(s)
    BY DEF Serving
  <2> QED
    BY <2>1, HeldType, OnwardHere
<1>2. CASE w < first
  <2>1. t = s /\ NextSlot(w + 1, first) = NextSlot(w, first)
    BY <1>2 DEF VisitSlot, NextSlot
  <2> QED
    BY <1>1, <2>1
<1>3. CASE s.base.pending # NoDecision
  <2>1. t = s
    BY <1>3 DEF VisitSlot
  <2> QED
    BY <1>1, <1>3, <2>1 DEF Serving
<1>4. CASE ~(w < first) /\ s.base.pending = NoDecision
  <2>1. Paid(s, w) /\ NextSlot(w + 1, first) = w + 1
    BY <1>4 DEF Serving, NextSlot
  <2>2. CASE w \notin Slot
    <3>1. t = s
      BY <2>2 DEF VisitSlot
    <3>2. \A v \in Slot : Served(v, w + 1) = Served(v, w)
      BY <2>2, EngineAssumption DEF Served, Slot
    <3>3. Paid(s, w + 1)
      BY <2>1, <3>2 DEF Paid
    <3> QED
      BY <1>1, <1>4, <2>1, <3>1, <3>3 DEF Serving
  <2>3. CASE w \in Slot
    <3> DEFINE u == With(s, [s.base EXCEPT !.slot = w])
    <3>1. /\ Held(u) /\ Onward(s, u)
          /\ u.base.slot = w /\ u.base.pending = s.base.pending /\ u.base.alive = s.base.alive
          /\ u.base.round = s.base.round /\ u.config = s.config /\ u.energy = s.energy
      BY <1>1, <2>3, CursorKeeps
    <3>2. t \in IF ~s.base.alive[w] THEN {u} ELSE DispatchMove(u, w)
      BY <1>4, <2>3 DEF VisitSlot
    <3> HIDE DEF u
    <3>3. CASE ~s.base.alive[w]
      <4>1. Paid(u, w + 1)
        BY <1>1, <2>1, <2>3, <3>1, <3>3, DeadPays
      <4> QED
        BY <1>4, <2>1, <3>1, <3>2, <3>3, <4>1 DEF Serving, Asked
    <3>4. CASE s.base.alive[w]
      <4>1. Paid(u, w)
        BY <1>1, <2>1, <3>1, PaidSame
      <4>2. Serving(t, w + 1) /\ Onward(u, t)
        BY <1>4, <2>3, <3>1, <3>2, <3>4, <4>1, TurnServes
      <4> QED
        BY <1>1, <2>1, <3>1, <4>2, HeldOn DEF Serving
    <3> QED
      BY <3>3, <3>4
  <2> QED
    BY <2>2, <2>3
<1> QED
  BY <1>2, <1>3, <1>4

\* Every state of S may be come to from r, and has come to slot k.
AllServing(r, S, k) == \A u \in S : Serving(u, k) /\ Onward(r, u)

\* The same for every outcome of the iterations before it.
LEMMA EachServes ==
  ASSUME NEW r, Held(r), NEW S, NEW w \in 0 .. 3, NEW first \in 0 .. 4,
         AllServing(r, S, NextSlot(w, first))
  PROVE  AllServing(r, VisitEach(S, w, first), NextSlot(w + 1, first))
<1> SUFFICES ASSUME NEW t \in VisitEach(S, w, first)
             PROVE  Serving(t, NextSlot(w + 1, first)) /\ Onward(r, t)
  BY DEF AllServing
<1>1. PICK u \in S : t \in VisitSlot(u, w, first)
  BY DEF VisitEach
<1>2. Serving(u, NextSlot(w, first)) /\ Onward(r, u)
  BY DEF AllServing
<1>3. Serving(t, NextSlot(w + 1, first)) /\ Onward(u, t)
  BY <1>1, <1>2, SlotServes
<1> QED
  BY <1>2, <1>3, HeldOn DEF Serving

\* The loop of advanceSlots, written out: a recursion over the numbers to four has
\* one solution, which is four visits.
LEMMA SlotsUnrolled ==
  ASSUME NEW s, NEW first
  PROVE  AdvanceSlots(s, first) =
           VisitEach(VisitEach(VisitEach(VisitEach({s}, 0, first), 1, first), 2, first),
                     3, first)
<1> DEFINE S1 == VisitEach({s}, 0, first)
           S2 == VisitEach(S1, 1, first)
           S3 == VisitEach(S2, 2, first)
           S4 == VisitEach(S3, 3, first)
           Solves(f) == f = [k \in 0 .. 4 |-> IF k = 0 THEN {s}
                                             ELSE VisitEach(f[k - 1], k - 1, first)]
           after == CHOOSE f : Solves(f)
           g == [k \in 0 .. 4 |-> IF k = 0 THEN {s} ELSE IF k = 1 THEN S1
                                 ELSE IF k = 2 THEN S2 ELSE IF k = 3 THEN S3 ELSE S4]
<1>1. AdvanceSlots(s, first) = after[4]
  BY DEF AdvanceSlots
<1>2. Solves(g)
  <2> DEFINE h == [k \in 0 .. 4 |-> IF k = 0 THEN {s} ELSE VisitEach(g[k - 1], k - 1, first)]
  <2>1. g[0] = {s} /\ g[1] = S1 /\ g[2] = S2 /\ g[3] = S3 /\ g[4] = S4
    OBVIOUS
  <2>2. h[0] = {s} /\ h[1] = VisitEach(g[1 - 1], 1 - 1, first)
        /\ h[2] = VisitEach(g[2 - 1], 2 - 1, first)
        /\ h[3] = VisitEach(g[3 - 1], 3 - 1, first)
        /\ h[4] = VisitEach(g[4 - 1], 4 - 1, first)
    OBVIOUS
  <2>3. h[0] = {s} /\ h[1] = S1 /\ h[2] = S2 /\ h[3] = S3 /\ h[4] = S4
    <3> HIDE DEF g, h
    <3> QED
      BY <2>1, <2>2
  <2>4. g = [k \in 0 .. 4 |-> g[k]] /\ h = [k \in 0 .. 4 |-> h[k]]
    OBVIOUS
  <2>5. \A k \in 0 .. 4 : g[k] = h[k]
    <3> HIDE DEF g, h, S1, S2, S3, S4
    <3> QED
      BY <2>1, <2>3
  <2>6. g = h
    <3> HIDE DEF g, h
    <3> QED
      BY <2>4, <2>5
  <2> QED
    BY <2>6
<1>3. Solves(after)
  <2> HIDE DEF g, Solves
  <2> QED
    BY <1>2
<1>4. after[0] = {s} /\ after[1] = VisitEach(after[1 - 1], 1 - 1, first)
      /\ after[2] = VisitEach(after[2 - 1], 2 - 1, first)
      /\ after[3] = VisitEach(after[3 - 1], 3 - 1, first)
      /\ after[4] = VisitEach(after[4 - 1], 4 - 1, first)
  <2> HIDE DEF after
  <2> QED
    BY <1>3
<1>5. after[0] = {s} /\ after[1] = VisitEach(after[0], 0, first)
      /\ after[2] = VisitEach(after[1], 1, first)
      /\ after[3] = VisitEach(after[2], 2, first)
      /\ after[4] = VisitEach(after[3], 3, first)
  <2> HIDE DEF after
  <2> QED
    BY <1>4
<1> HIDE DEF after
<1> QED
  BY <1>1, <1>5

\* The states after each of the four visits.
After1(s, first) == VisitEach({s}, 0, first)
After2(s, first) == VisitEach(After1(s, first), 1, first)
After3(s, first) == VisitEach(After2(s, first), 2, first)
After4(s, first) == VisitEach(After3(s, first), 3, first)

\* Each visit serves one slot more.
LEMMA VisitsServe ==
  ASSUME NEW r, Held(r), NEW s, NEW first \in 0 .. 4, Serving(s, first), Onward(r, s)
  PROVE  /\ AllServing(r, {s}, NextSlot(0, first))
         /\ AllServing(r, After1(s, first), NextSlot(1, first))
         /\ AllServing(r, After2(s, first), NextSlot(2, first))
         /\ AllServing(r, After3(s, first), NextSlot(3, first))
         /\ AllServing(r, After4(s, first), NextSlot(4, first))
<1>1. AllServing(r, {s}, NextSlot(0, first))
  <2>1. NextSlot(0, first) = first
    BY DEF NextSlot
  <2> QED
    BY <2>1 DEF AllServing
<1>2. AllServing(r, After1(s, first), NextSlot(1, first))
  <2>1. AllServing(r, After1(s, first), NextSlot(0 + 1, first))
    BY <1>1, EachServes DEF After1
  <2> QED
    BY <2>1
<1>3. AllServing(r, After2(s, first), NextSlot(2, first))
  <2>1. AllServing(r, After2(s, first), NextSlot(1 + 1, first))
    BY <1>2, EachServes DEF After2
  <2> QED
    BY <2>1
<1>4. AllServing(r, After3(s, first), NextSlot(3, first))
  <2>1. AllServing(r, After3(s, first), NextSlot(2 + 1, first))
    BY <1>3, EachServes DEF After3
  <2> QED
    BY <2>1
<1>5. AllServing(r, After4(s, first), NextSlot(4, first))
  <2>1. AllServing(r, After4(s, first), NextSlot(3 + 1, first))
    BY <1>4, EachServes DEF After4
  <2> QED
    BY <2>1
<1> QED
  BY <1>1, <1>2, <1>3, <1>4, <1>5

\* The loop serves every slot from the first on, in index order, once.
LEMMA SlotsServe ==
  ASSUME NEW r, Held(r), NEW s, NEW first \in 0 .. 4, Serving(s, first), Onward(r, s)
  PROVE  AllServing(r, AdvanceSlots(s, first), 4)
<1>1. AdvanceSlots(s, first) = After4(s, first)
  BY SlotsUnrolled DEF After1, After2, After3, After4
<1>2. NextSlot(4, first) = 4
  BY DEF NextSlot
<1>3. AllServing(r, After4(s, first), NextSlot(4, first))
  BY VisitsServe
<1> QED
  BY <1>1, <1>2, <1>3

------------------------------------------------------------------------------
(* The operations.                                                         *)

\* The end of a round puts the cursor at rest, and asks the next turn's price.
LEMMA FinishRests ==
  ASSUME NEW s, Serving(s, 4)
  PROVE  Rests(Finish(s)) /\ Onward(s, Finish(s))
<1>1. Held(s) /\ Asked(s)
  BY DEF Serving
<1>2. s \in ExtendedState /\ s.base \in State /\ Stirred(s, s.base.tick + 1, 0, 0)
  BY <1>1, HeldType
<1>3. CASE s.base.pending # NoDecision
  <2>1. Finish(s) = s
    BY <1>3 DEF Finish
  <2> QED
    BY <1>1, <1>2, <1>3, <2>1, OnwardHere DEF Serving, Rests, AtRest
<1>4. CASE s.base.pending = NoDecision
  <2> DEFINE b == EndRound(s.base)
             u == With(s, b)
             t == [u EXCEPT !.records = @ + 1]
  <2>1. /\ b \in State /\ b.slot = None /\ b.round = s.base.round + 1
        /\ b.alive = s.base.alive /\ b.pending = NoDecision /\ b.trails = s.base.trails
        /\ b.tick = s.base.tick /\ b.pos = s.base.pos /\ b.rules = s.base.rules
        /\ b.owner = s.base.owner /\ b.cached = s.base.cached /\ b.score = s.base.score
        /\ b.over => s.base.over \/ \A w \in Slot : ~s.base.alive[w]
    BY <1>2, <1>4, EndRoundEffect
  <2>2. Finish(s) = t
    BY <1>4 DEF Finish
  <2> HIDE DEF b
  <2>3. SameLand(s.base, b)
    BY <2>1 DEF SameLand
  <2>4. \A v \in Slot : ValidRules(b.rules[v])
    BY <1>2, <2>1 DEF Stirred, Firm
  <2>5. b.over => \A v \in Slot : ~b.alive[v]
    BY <1>2, <2>1 DEF Stirred
  <2>6. /\ Held(u) /\ Onward(s, u)
        /\ u.base = b /\ u.config = s.config /\ u.energy = s.energy
    <3>1. FrozenKept(s.base, b)
      BY <2>1 DEF FrozenKept
    <3> QED
      BY <1>1, <2>1, <2>3, <2>4, <2>5, <3>1, LandKeeps
  <2> HIDE DEF u
  <2>7. u \in ExtendedState /\ Stirred(u, u.base.tick + 1, 0, 0)
    BY <2>6, HeldType
  <2>8. /\ t \in ExtendedState /\ t.records > 0 /\ t.base = u.base /\ t.config = u.config
        /\ t.energy = u.energy /\ t.temporary = u.temporary /\ t.weighted = u.weighted
        /\ t.team = u.team /\ t.barred = u.barred /\ t.moved = u.moved
    <3>1. u.records \in Nat /\ u.records + 1 \in Nat /\ u.records + 1 > 0
      BY <2>7 DEF ExtendedState
    <3>2. \A k \in Nat : LET v == [u EXCEPT !.records = k] IN
            /\ v \in ExtendedState /\ v.records = k /\ v.base = u.base /\ v.config = u.config
            /\ v.energy = u.energy /\ v.temporary = u.temporary
            /\ v.weighted = u.weighted /\ v.team = u.team
            /\ v.barred = u.barred /\ v.moved = u.moved
      BY <2>7 DEF ExtendedState
    <3> QED
      BY <3>1, <3>2
  <2> HIDE DEF t
  <2>9. Owing(t, 0, 0)
    BY <2>7, <2>8 DEF Stirred, Owing, TeamDots, Worth
  <2>10. Stirred(t, t.base.tick + 1, 0, 0)
    BY <2>7, <2>8, <2>9, StirredSame
  <2>11. Held(t)
    BY <2>8, <2>10 DEF Held
  <2>12. Onward(s, t)
    BY <2>6, <2>8, OnwardSame
  <2>13. Paid(s, 4)
    BY <1>4 DEF Serving
  <2>14. Paid(t, 0)
    <3>1. \A w \in Slot : Served(w, 4) = 1 /\ Served(w, 0) = 0
      BY EngineAssumption DEF Served, Slot
    <3>2. s.base.round \in Nat /\ s.config.limit \in Nat
      BY <1>1, HeldType
    <3>3. /\ t.config.limit = s.config.limit /\ t.energy = s.energy
          /\ t.base.alive = s.base.alive /\ t.base.round = s.base.round + 1
      BY <2>1, <2>6, <2>8
    <3>4. ASSUME NEW w \in Slot
          PROVE  t.config.limit - (t.base.round + Served(w, 0))
                   = s.config.limit - (s.base.round + Served(w, 4))
      BY <3>1, <3>2, <3>3
    <3> QED
      BY <2>13, <3>3, <3>4 DEF Paid
  <2>15. t.base.pending = NoDecision /\ t.base.slot = None
    BY <2>1, <2>6, <2>8
  <2>16. Rests(t)
    BY <2>11, <2>14, <2>15 DEF Rests, Asked, AtRest
  <2> QED
    BY <2>2, <2>12, <2>16
<1> QED
  BY <1>3, <1>4

\* A new handler forgets the events of the one before it.
LEMMA QuietKeeps ==
  ASSUME NEW s, Held(s)
  PROVE  LET t == With(s, Quiet(s.base)) IN
         /\ Held(t) /\ Onward(s, t) /\ SameGame(s.base, t.base)
         /\ t.config = s.config /\ t.energy = s.energy
<1> DEFINE b == Quiet(s.base)
<1>1. s.base \in State /\ Stirred(s, s.base.tick + 1, 0, 0)
  BY HeldType
<1>2. b \in State /\ SameGame(s.base, b)
  BY <1>1, QuietType
<1> HIDE DEF b
<1>3. SameLand(s.base, b)
  BY <1>2 DEF SameGame, SameLand
<1>4. \A v \in Slot : ValidRules(b.rules[v])
  BY <1>1, <1>2 DEF SameGame, Stirred, Firm
<1>5. b.over => \A v \in Slot : ~b.alive[v]
  BY <1>1, <1>2 DEF SameGame, Stirred
<1>6. FrozenKept(s.base, b)
  BY <1>2 DEF SameGame, FrozenKept
<1> QED
  BY <1>2, <1>3, <1>4, <1>5, <1>6, LandKeeps DEF b

\* AdvanceRound, with extensions.
LEMMA AdvancedRests ==
  ASSUME NEW s, Rests(s), s.base.pending = NoDecision, NEW t \in Advanced(s)
  PROVE  Rests(t) /\ Onward(s, t)
<1> DEFINE u == With(s, Quiet(s.base))
<1>1. Held(s) /\ s.base.slot = None /\ Paid(s, 0)
  BY DEF Rests, AtRest
<1>2. s.config.enabled
  BY <1>1 DEF Held, Stirred
<1>3. /\ Held(u) /\ Onward(s, u) /\ SameGame(s.base, u.base)
      /\ u.config = s.config /\ u.energy = s.energy
  BY <1>1, QuietKeeps
<1>4. \E x \in AdvanceSlots(u, 0) : t = Finish(x)
  BY <1>1, <1>2 DEF Advanced
<1> HIDE DEF u
<1>5. PICK x \in AdvanceSlots(u, 0) : t = Finish(x)
  BY <1>4
<1>6. Paid(u, 0) /\ u.base.pending = NoDecision
  BY <1>1, <1>3, PaidSame DEF SameGame
<1>7. Serving(u, 0)
  BY <1>3, <1>6 DEF Serving, Asked
<1>8. Serving(x, 4) /\ Onward(s, x)
  BY <1>1, <1>3, <1>7, SlotsServe DEF AllServing
<1>9. Rests(t) /\ Onward(x, t)
  BY <1>5, <1>8, FinishRests
<1> QED
  BY <1>1, <1>8, <1>9, HeldOn DEF Serving, Rests

\* What Submit plays on: the answer is learned, and the question gone.
Taught(s, d) ==
  With(s, [Learn(Quiet(s.base), s.base.pending.slot, s.base.pending.mask, d)
             EXCEPT !.pending = NoDecision, !.slot = s.base.pending.slot + 1])

\* The lesson leaves the worm where it was, with the moves it had.
LEMMA TaughtHolds ==
  ASSUME NEW s, Rests(s), NEW d \in Dir, CanAnswer(s, d)
  PROVE  LET w == s.base.pending.slot
             u == Taught(s, d)
         IN  /\ w \in Slot /\ s.base.pending.mask \in Mask
             /\ s.config.enabled /\ Held(s)
             /\ Held(u) /\ Onward(s, u) /\ Paid(u, w) /\ u.base.pending = NoDecision
             /\ d \in Exits(u, w)
<1> DEFINE w == s.base.pending.slot
           m == s.base.pending.mask
           q == Quiet(s.base)
           l == Learn(q, w, m, d)
           b == [l EXCEPT !.pending = NoDecision, !.slot = w + 1]
           u == With(s, b)
<1>1. /\ Held(s) /\ s.base.pending # NoDecision /\ Paid(s, s.base.slot)
      /\ s.base.slot = w /\ s.base.alive[w]
      /\ m = MaskAt(s.base, s.base.pos[w])
      /\ d \in Exits(s, w) /\ ~Frozen(w)
  BY DEF Rests, AtRest, Asked, CanAnswer
<1>2. /\ s.base \in State /\ Stirred(s, s.base.tick + 1, 0, 0) /\ s.config.enabled
  BY <1>1, HeldType DEF Stirred
<1>3. w \in Slot /\ m \in Mask /\ d \notin m
  <2>1. s.base.pending \in Decision
    BY <1>2 DEF State
  <2>2. s.base.pending \in [slot : Slot, mask : Mask, request : Nat]
    BY <1>1, <2>1 DEF Decision
  <2>3. d \notin MaskAt(s.base, s.base.pos[w])
    BY <1>1, <1>2 DEF Exits, Allowed
  <2> QED
    BY <1>1, <2>2, <2>3
<1>4. q \in State /\ SameGame(s.base, q)
  BY <1>2, QuietType
<1> HIDE DEF w, m, q
<1>6. /\ l \in State /\ SameGame([q EXCEPT !.rules = l.rules], l)
      /\ \A v \in Slot : ValidRules(l.rules[v])
      /\ FrozenKept(s.base, l)
  <2>1. \A v \in Slot : ValidRules(q.rules[v])
    BY <1>2, <1>4 DEF Stirred, Firm, SameGame
  <2>2. FrozenKept(q, l)
    BY <1>1, <1>3, <1>4, <2>1, LearnChangesOne
  <2>3. FrozenKept(s.base, l)
    BY <1>4, <2>2 DEF FrozenKept, SameGame
  <2> QED
    BY <1>3, <1>4, <2>1, <2>3, LearnEffect
<1> HIDE DEF l
<1>7. /\ SameLand(s.base, l) /\ l.alive = s.base.alive /\ l.over = s.base.over
      /\ l.round = s.base.round
  <2> DEFINE a == [q EXCEPT !.rules = l.rules]
  <2>1. /\ SameLand(s.base, a) /\ a.alive = s.base.alive /\ a.over = s.base.over
        /\ a.round = s.base.round
    BY <1>4 DEF State, SameLand, SameGame
  <2> HIDE DEF a
  <2>2. SameGame(a, l)
    BY <1>6 DEF a
  <2> QED
    BY <2>1, <2>2 DEF SameLand, SameGame
<1>8. /\ b \in State /\ SameLand(l, b) /\ b.alive = l.alive /\ b.over = l.over
      /\ b.round = l.round /\ b.rules = l.rules /\ b.pending = NoDecision
  <2>1. w + 1 \in Slot \cup {None, N} /\ NoDecision \in Decision
    BY <1>3, EngineAssumption DEF Slot, Decision
  <2> DEFINE C(p, n) == [l EXCEPT !.pending = p, !.slot = n]
  <2>2. \A p, n : /\ C(p, n).alive = l.alive /\ C(p, n).over = l.over
                  /\ C(p, n).round = l.round /\ C(p, n).rules = l.rules
                  /\ C(p, n).pending = p /\ SameLand(l, C(p, n))
    BY <1>6 DEF State, SameLand
  <2>3. \A p \in Decision, n \in Slot \cup {None, N} : C(p, n) \in State
    BY <1>6 DEF State
  <2>4. b = C(NoDecision, w + 1)
    OBVIOUS
  <2> HIDE DEF C, b
  <2> QED
    BY <2>1, <2>2, <2>3, <2>4
<1> HIDE DEF b
<1>9. /\ Held(u) /\ Onward(s, u) /\ u.base = b /\ u.config = s.config /\ u.energy = s.energy
      /\ u.barred = s.barred /\ u.temporary = s.temporary
  <2>1. SameLand(s.base, b)
    BY <1>7, <1>8 DEF SameLand
  <2>2. \A v \in Slot : ValidRules(b.rules[v])
    BY <1>6, <1>8
  <2>3. b.over => \A v \in Slot : ~b.alive[v]
    BY <1>2, <1>7, <1>8 DEF Stirred
  <2> QED
    <3>1. FrozenKept(s.base, b)
      BY <1>6, <1>8 DEF FrozenKept
    <3> QED
      BY <1>1, <1>8, <2>1, <2>2, <2>3, <3>1, LandKeeps
<1> HIDE DEF u
<1>10. Paid(u, w)
  BY <1>1, <1>7, <1>8, <1>9, PaidSame
<1>11. d \in Exits(u, w)
  <2>1. SameLand(s.base, u.base) /\ u.base.alive = s.base.alive
    BY <1>7, <1>8, <1>9 DEF SameLand
  <2> QED
    BY <1>1, <1>9, <2>1, ExitsSame
<1>12. u = Taught(s, d)
  BY DEF u, b, l, q, w, m, Taught
<1>13. /\ w \in Slot /\ m \in Mask /\ s.config.enabled /\ Held(s)
       /\ Held(Taught(s, d)) /\ Onward(s, Taught(s, d)) /\ Paid(Taught(s, d), w)
       /\ Taught(s, d).base.pending = NoDecision /\ d \in Exits(Taught(s, d), w)
  BY <1>1, <1>2, <1>3, <1>8, <1>9, <1>10, <1>11, <1>12
<1> QED
  BY <1>13 DEF w, m

\* Submit, with extensions: the answer is learned and played, and the loop goes on.
LEMMA AnsweredRests ==
  ASSUME NEW s, Rests(s), NEW d \in Dir, CanAnswer(s, d), NEW t \in Answered(s, d)
  PROVE  Rests(t) /\ Onward(s, t)
<1> DEFINE w == s.base.pending.slot
           m == s.base.pending.mask
           u == Taught(s, d)
<1>1. /\ w \in Slot /\ m \in Mask /\ s.config.enabled /\ Held(s)
      /\ Held(u) /\ Onward(s, u) /\ Paid(u, w) /\ u.base.pending = NoDecision
  BY TaughtHolds
<1>2. \E x \in Take(u, w, m, d) : \E y \in AdvanceSlots(x, w + 1) : t = Finish(y)
  <2>1. t \in UNION {{Finish(y) : y \in AdvanceSlots(x, w + 1)} : x \in Take(u, w, m, d)}
    BY <1>1 DEF Answered, Taught
  <2> HIDE DEF u
  <2> QED
    BY <2>1
<1> HIDE DEF w, m, u
<1>3. PICK x \in Take(u, w, m, d) : \E y \in AdvanceSlots(x, w + 1) : t = Finish(y)
  BY <1>2
<1>4. PICK y \in AdvanceSlots(x, w + 1) : t = Finish(y)
  BY <1>3
<1>5. Serving(x, w + 1) /\ Onward(u, x)
  BY <1>1, TakeServes
<1>6. Held(x) /\ Onward(s, x)
  BY <1>1, <1>5, HeldOn DEF Serving
<1>7. Serving(y, 4) /\ Onward(s, y)
  <2>1. w + 1 \in 0 .. 4
    BY <1>1, EngineAssumption DEF Slot
  <2> QED
    BY <1>1, <1>5, <1>6, <2>1, SlotsServe DEF AllServing
<1>8. Rests(t) /\ Onward(y, t)
  BY <1>4, <1>7, FinishRests
<1> QED
  BY <1>1, <1>7, <1>8, HeldOn DEF Serving, Rests

\* A game without extensions is the engine's.
LEMMA PlainGoesOn ==
  ASSUME NEW s, PlainGame(s), NEW b, Runs(s.base, b), ScanEnded(b)
  PROVE  PlainGame(With(s, b)) /\ With(s, b).base = b
<1>1. s \in ExtendedState /\ b \in State /\ Good(b)
  BY DEF PlainGame, Runs, Leads, Good
<1>2. LET t == With(s, b) IN
      t \in ExtendedState /\ t.base = b /\ t.config = s.config /\ t.temporary = s.temporary
  BY <1>1, WithEffect
<1> HIDE DEF With
<1> QED
  BY <1>1, <1>2 DEF PlainGame

\* Its operations are the engine's, and they undo nothing.
LEMMA PlainSteps ==
  ASSUME NEW s, PlainGame(s), NEW t,
         \/ CanAdvance(s.base) /\ t \in Advanced(s)
         \/ \E d \in Dir : CanAnswer(s, d) /\ t \in Answered(s, d)
  PROVE  PlainGame(t) /\ NothingLost(s.base, t.base)
<1>1. Good(s.base) /\ ScanEnded(s.base) /\ ~s.config.enabled
  BY DEF PlainGame
<1>2. \E b : t = With(s, b) /\ Runs(s.base, b) /\ ScanEnded(b)
  <2>1. CASE CanAdvance(s.base) /\ t \in Advanced(s)
    <3>1. PICK b \in AdvanceOutcomes(s.base) : t = With(s, b)
      BY <1>1, <2>1 DEF Advanced
    <3> QED
      BY <1>1, <2>1, <3>1, AdvanceLeads
  <2>2. ASSUME NEW d \in Dir, CanAnswer(s, d), t \in Answered(s, d)
        PROVE  \E b : t = With(s, b) /\ Runs(s.base, b) /\ ScanEnded(b)
    <3>1. PICK b \in SubmitOutcomes(s.base, d) : t = With(s, b)
      BY <1>1, <2>2 DEF Answered
    <3>2. CanSubmit(s.base, d) /\ ~s.base.over
      BY <1>1, <2>2 DEF CanAnswer, CanSubmit, Exits, ScanEnded
    <3> QED
      BY <1>1, <3>1, <3>2, SubmitLeads
  <2> QED
    BY <2>1, <2>2
<1>3. PICK b : t = With(s, b) /\ Runs(s.base, b) /\ ScanEnded(b)
  BY <1>2
<1> QED
  BY <1>3, PlainGoesOn DEF Runs, Leads

\* There is a draw for every dot: those before a dot are fewer than the dots.
LEMMA PlaceType ==
  ASSUME NEW p \in Point, NEW R
  PROVE  Place(p, R) \in 1 .. Cardinality(Point)
<1> DEFINE B == {q \in Point \ R : Before(q, p)}
<1>1. p \notin B
  <2>1. p[1] \in Int /\ p[2] \in Int
    BY LatticeAssumption DEF Point, Origin
  <2> QED
    BY <2>1 DEF Before
<1>2. B \subseteq Point \ {p}
  BY <1>1
<1> HIDE DEF B
<1>3. /\ IsFiniteSet(Point \ {p}) /\ Cardinality(Point \ {p}) = Cardinality(Point) - 1
      /\ Cardinality(Point) \in Nat
  BY PointFinite, FS_RemoveElement, FS_CardinalityType
<1>4. Cardinality(B) \in Nat /\ Cardinality(B) <= Cardinality(Point \ {p})
  BY <1>2, <1>3, FS_Subset, FS_CardinalityType
<1> QED
  BY <1>3, <1>4 DEF Place, B

\* A configuration that New accepts is one with any seed, and bars no start.
LEMMA SeededType ==
  ASSUME NEW c \in Configs, NEW x \in Draws(c.rates)
  PROVE  LET k == [c EXCEPT !.seed = x] IN
         /\ k \in Config /\ k.enabled = c.enabled
         /\ k.seed \in Draws(k.rates) /\ StandsFree(k, Start)
<1>1. c \in Config /\ StandsFree(c, Start)
  BY ExtensionAssumption DEF ValidConfig
<1>2. x \in Draws(Barrier)
  <2>1. c.rates \subseteq Barrier
    BY <1>1 DEF Config
  <2>2. {{}} \cup {{k} : k \in c.rates} \subseteq {{}} \cup {{k} : k \in Barrier}
    BY <2>1
  <2> QED
    BY <2>2 DEF Draws
<1> DEFINE C(y) == [c EXCEPT !.seed = y]
<1>3. /\ \A y \in Draws(Barrier) : C(y) \in Config
      /\ \A y : /\ C(y).enabled = c.enabled /\ C(y).seed = y
                /\ C(y).rates = c.rates /\ C(y).barred = c.barred
  BY <1>1 DEF Config
<1> HIDE DEF C
<1>4. /\ C(x) \in Config /\ C(x).enabled = c.enabled
      /\ C(x).seed \in Draws(C(x).rates) /\ StandsFree(C(x), Start)
  BY <1>1, <1>2, <1>3 DEF StandsFree
<1> QED
  BY <1>4 DEF C

\* The world of a configuration gives every dot its barriers.
LEMMA WorldType ==
  ASSUME NEW c \in Config, NEW R
  PROVE  World(c, R) \in [Point -> SUBSET Barrier]
<1>1. c.barred \in [Point -> SUBSET Barrier] /\ c.seed \in Draws(Barrier)
  BY DEF Config
<1>2. ASSUME NEW p \in Point PROVE c.seed[Place(p, R)] \subseteq Barrier
  <2>1. Place(p, R) \in 1 .. Cardinality(Point)
    BY PlaceType
  <2>2. c.seed[Place(p, R)] \in {{}} \cup {{k} : k \in Barrier}
    BY <1>1, <2>1 DEF Draws
  <2> QED
    BY <2>2
<1>3. ASSUME NEW p \in Point
      PROVE  c.barred[p] \cup (IF p \in R THEN {} ELSE c.seed[Place(p, R)]) \in SUBSET Barrier
  BY <1>1, <1>2
<1> QED
  BY <1>3 DEF World

\* What New keeps of a state, and what it makes anew.
RebuiltDoes(s, t) ==
  /\ t \in ExtendedState
  /\ t.base = s.base /\ t.config = s.config /\ t.moved = s.moved
  /\ t.barred = World(s.config, Reserved(s))
  /\ t.energy = [w \in Slot |-> s.config.limit] /\ t.temporary = [e \in Edge |-> 0]
  /\ t.weighted = s.weighted /\ t.team = s.team /\ t.records = s.records

\* It does that.
LEMMA RebuiltEffect ==
  ASSUME NEW s \in ExtendedState
  PROVE  RebuiltDoes(s, Rebuilt(s))
<1> DEFINE world == World(s.config, Reserved(s))
           full == [w \in Slot |-> s.config.limit]
           none == [e \in Edge |-> 0]
           C(x, f, g) == [s EXCEPT !.barred = x, !.energy = f, !.temporary = g]
<1>1. Rebuilt(s) = C(world, full, none)
  BY DEF Rebuilt
<1>2. s.config \in Config /\ s.config.limit \in Nat
  BY DEF ExtendedState, Config
<1>3. /\ world \in [Point -> SUBSET Barrier]
      /\ full \in [Slot -> Nat] /\ none \in [Edge -> Nat]
  BY <1>2, WorldType
<1> HIDE DEF world, full, none
<1>4. /\ \A x \in [Point -> SUBSET Barrier], f \in [Slot -> Nat], g \in [Edge -> Nat] :
           C(x, f, g) \in ExtendedState
      /\ \A x, f, g :
           /\ C(x, f, g).barred = x /\ C(x, f, g).energy = f /\ C(x, f, g).temporary = g
           /\ C(x, f, g).base = s.base /\ C(x, f, g).config = s.config
           /\ C(x, f, g).moved = s.moved /\ C(x, f, g).weighted = s.weighted
           /\ C(x, f, g).team = s.team /\ C(x, f, g).records = s.records
  BY DEF ExtendedState
<1> HIDE DEF C
<1>5. LET t == Rebuilt(s) IN
        /\ t \in ExtendedState
        /\ t.base = s.base /\ t.config = s.config /\ t.moved = s.moved
        /\ t.barred = world /\ t.energy = full /\ t.temporary = none
        /\ t.weighted = s.weighted /\ t.team = s.team /\ t.records = s.records
  BY <1>1, <1>3, <1>4
<1> QED
  BY <1>5 DEF RebuiltDoes, world, full, none

\* A new game, with the world that spares the starts.
LEMMA CreatedEffect ==
  ASSUME NEW c \in Config
  PROVE  LET t == Created(c) IN
         /\ t \in ExtendedState /\ t.base = InitialState /\ t.config = c
         /\ t.barred = World(c, Spared(c)) /\ t.moved = {}
         /\ t.energy = [w \in Slot |-> c.limit] /\ t.temporary = [e \in Edge |-> 0]
         /\ t.weighted = [w \in Slot |-> 0] /\ t.team = [x \in Team |-> 0]
         /\ t.records = 0
<1> DEFINE b == InitialState
           r == [base |-> b, config |-> c, barred |-> c.barred, moved |-> {},
                 energy |-> [w \in Slot |-> c.limit], temporary |-> [e \in Edge |-> 0],
                 weighted |-> [w \in Slot |-> 0], team |-> [x \in Team |-> 0],
                 records |-> 0]
           t == Created(c)
<1>1. t = Rebuilt(r)
  BY DEF Created
<1>2. b \in State /\ b.pos = Start /\ b.alive = [w \in Slot |-> Kind[w] # "ASLEEP"]
  BY InitGood DEF Good, InitialState
<1> HIDE DEF b
<1>3. /\ r \in ExtendedState /\ r.base = b /\ r.config = c /\ r.moved = {}
      /\ r.weighted = [w \in Slot |-> 0] /\ r.team = [x \in Team |-> 0] /\ r.records = 0
  BY <1>2 DEF ExtendedState, Config
<1> HIDE DEF r, t
<1>4. RebuiltDoes(r, t)
  BY <1>1, <1>3, RebuiltEffect
<1>5. Reserved(r) = Spared(c)
  <2>1. InitialPositions(r) = {b.pos[w] : w \in {v \in Slot : b.alive[v]}}
    BY <1>3 DEF InitialPositions
  <2>2. InitialPositions(r) = {Start[w] : w \in {v \in Slot : Kind[v] # "ASLEEP"}}
    BY <1>2, <2>1
  <2> QED
    BY <1>3, <2>2 DEF Reserved, Spared
<1> QED
  BY <1>3, <1>4, <1>5 DEF RebuiltDoes, t, b

\* A new game holds the invariant, whatever world New generates.
LEMMA InitHolds ==
  ASSUME InitExtended
  PROVE  ExtensionInv
<1>1. PICK k \in Configs : game \in NewGame(k)
  BY DEF InitExtended
<1>2. PICK x \in Draws(k.rates) : game = Created([k EXCEPT !.seed = x])
  BY <1>1 DEF NewGame
<1> PICK c : c = [k EXCEPT !.seed = x]
  OBVIOUS
<1>3. /\ c \in Config /\ c.limit \in Nat
      /\ c.seed \in Draws(c.rates) /\ StandsFree(c, Start)
  <2>1. c \in Config /\ c.seed \in Draws(c.rates) /\ StandsFree(c, Start)
    BY SeededType
  <2> QED
    BY <2>1 DEF Config
<1> DEFINE b == InitialState
<1>4. Good(b) /\ b \in State
  BY InitGood DEF Good
<1>5. /\ b.tick = 0 /\ b.round = 0 /\ b.slot = None /\ b.pending = NoDecision
      /\ b.over = FALSE /\ b.pos = Start /\ b.alive = [w \in Slot |-> Kind[w] # "ASLEEP"]
      /\ b.trails = [e \in Edge |-> None] /\ b.owner = [p \in Point |-> None]
  BY DEF InitialState
<1>6. /\ game \in ExtendedState /\ game.base = b /\ game.config = c
      /\ game.barred = World(c, Spared(c)) /\ game.moved = {}
      /\ game.energy = [w \in Slot |-> c.limit] /\ game.temporary = [e \in Edge |-> 0]
      /\ game.weighted = [w \in Slot |-> 0] /\ game.team = [t \in Team |-> 0]
      /\ game.records = 0
  BY <1>2, <1>3, CreatedEffect
<1>7. game \in ExtendedState
  BY <1>6
<1> HIDE DEF b
<1>8. CASE ~c.enabled
  <2>1. ScanEnded(b)
    BY <1>5 DEF ScanEnded
  <2>2. \A e \in Edge : game.temporary[e] = 0
    BY <1>6
  <2>3. PlainGame(game)
    BY <1>4, <1>6, <1>7, <1>8, <2>1, <2>2 DEF PlainGame
  <2> QED
    BY <2>3 DEF ExtensionInv
<1>9. CASE c.enabled
  <2>1. Firm(b) /\ Fresh(b)
    BY <1>4 DEF Good, Sound, Firm
  <2>2. Worth(game, {}) = 0
    BY TotalOfNone DEF Worth
  <2>3. None \notin Slot
    BY DEF None, Slot
  <2>4. Weighed(game)
    <3>1. \A w \in Slot : Dots(b.owner, w) = {}
      BY <1>5, <2>3 DEF Dots
    <3> QED
      BY <1>6, <2>2, <3>1 DEF Weighed
  <2>5. Owing(game, 0, 0)
    <3>1. \A t \in Team : TeamDots(game, t) = {}
      BY <1>5, <1>6, <2>3 DEF TeamDots
    <3>2. \A t \in Team : game.team[t] = 0
      BY <1>6
    <3> QED
      BY <2>2, <3>1, <3>2 DEF Owing
  <2>6. Timed(game, game.base.tick + 1)
    BY <1>5, <1>6 DEF Timed
  <2>7. Fed(game)
    BY <1>3, <1>6 DEF Fed
  <2>8. Held(game)
    <3>1. Placed(game)
      BY <1>3, <1>5, <1>6 DEF Placed, StandsFree
    <3> QED
      BY <1>5, <1>6, <1>7, <1>9, <2>1, <2>4, <2>5, <2>6, <2>7, <3>1 DEF Held, Stirred
  <2>9. Paid(game, 0)
    <3>1. \A w \in Slot : Served(w, 0) = 0
      BY EngineAssumption DEF Served, Slot
    <3>2. \A w \in Slot : game.energy[w] = game.config.limit - (game.base.round + 0)
      BY <1>3, <1>5, <1>6
    <3>3. \A w \in Slot : game.energy[w] >= game.energy[w]
      BY <1>3, <1>6
    <3> QED
      BY <3>1, <3>2, <3>3 DEF Paid
  <2>10. Asked(game) /\ AtRest(game)
    BY <1>5, <1>6, <2>9 DEF Asked, AtRest
  <2> QED
    BY <2>8, <2>10 DEF ExtensionInv, Rests
<1> QED
  BY <1>8, <1>9

\* Rounds and answers keep it.
LEMMA StepsHold ==
  ASSUME ExtensionInv, NextExtended
  PROVE  /\ ExtensionInv'
         /\ \/ Rests(game) /\ Onward(game, game')
            \/ PlainGame(game) /\ PlainGame(game') /\ NothingLost(game.base, game'.base)
<1>1. \/ CanAdvance(game.base) /\ game' \in Advanced(game)
      \/ \E d \in Dir : CanAnswer(game, d) /\ game' \in Answered(game, d)
  BY DEF NextExtended, Tick, Teach
<1> PICK s, t : s = game /\ t = game'
  OBVIOUS
<1>2. \/ CanAdvance(s.base) /\ t \in Advanced(s)
      \/ \E d \in Dir : CanAnswer(s, d) /\ t \in Answered(s, d)
  BY <1>1
<1>3. CASE PlainGame(s)
  <2>1. PlainGame(t) /\ NothingLost(s.base, t.base)
    BY <1>2, <1>3, PlainSteps
  <2> QED
    BY <1>3, <2>1 DEF ExtensionInv
<1>4. CASE Rests(s)
  <2>1. Rests(t) /\ Onward(s, t)
    BY <1>2, <1>4, AdvancedRests, AnsweredRests DEF CanAdvance
  <2> QED
    BY <1>4, <2>1 DEF ExtensionInv
<1> QED
  BY <1>3, <1>4 DEF ExtensionInv

\* So it always holds.
LEMMA AlwaysHolds == SpecExtended => []ExtensionInv
<1>1. InitExtended => ExtensionInv
  BY InitHolds
<1>2. ExtensionInv /\ [NextExtended]_game => ExtensionInv'
  <2> SUFFICES ASSUME ExtensionInv, [NextExtended]_game PROVE ExtensionInv'
    OBVIOUS
  <2>1. CASE NextExtended
    BY <2>1, StepsHold
  <2>2. CASE UNCHANGED game
    BY <2>2 DEF ExtensionInv
  <2> QED
    BY <2>1, <2>2
<1> QED
  BY <1>1, <1>2, PTL DEF SpecExtended

------------------------------------------------------------------------------
(* Energy, questions and expiry.                                           *)

\* What a state holds after a handler says that energy was paid once per turn.
LEMMA HeldPaysPerTurn ==
  ASSUME ExtensionInv
  PROVE  EnergyIsPaidPerTurn
<1>1. CASE PlainGame(game)
  BY <1>1 DEF PlainGame, EnergyIsPaidPerTurn
<1>2. CASE Rests(game)
  <2> PICK s : s = game
    OBVIOUS
  <2>1. Held(s) /\ Asked(s) /\ AtRest(s)
    BY <1>2 DEF Rests
  <2>2. /\ s.energy \in [Slot -> Nat] /\ s.base.round \in Nat /\ s.config.limit \in Nat
        /\ s.base \in State /\ Fed(s)
    BY <2>1, HeldType DEF Held, Stirred
  <2>3. SUFFICES ASSUME s.config.limit > 0, NEW w \in Slot
                 PROVE  LET due == s.config.limit - Turns(s.base, w)
                        IN  IF s.base.alive[w] THEN s.energy[w] = due /\ due > 0
                                               ELSE s.energy[w] >= due
    BY DEF EnergyIsPaidPerTurn
  <2>4. PICK k \in Int : Paid(s, k) /\ Turns(s.base, w) = s.base.round + Served(w, k)
    <3>1. CASE s.base.pending = NoDecision
      <4>1. Paid(s, 0) /\ s.base.slot = None /\ w \in Nat
        BY <2>1, <3>1 DEF AtRest, Slot
      <4> QED
        BY <4>1 DEF Turns, Served
    <3>2. CASE s.base.pending # NoDecision
      <4>1. Paid(s, s.base.slot) /\ s.base.slot = s.base.pending.slot
        BY <2>1, <3>2 DEF AtRest, Asked
      <4>2. s.base.pending.slot \in Slot
        <5>1. s.base.pending \in Decision
          BY <2>2 DEF State
        <5> QED
          BY <3>2, <5>1 DEF Decision
      <4>3. s.base.slot \in Int /\ s.base.slot # None
        BY <4>1, <4>2 DEF Slot, None
      <4> QED
        BY <4>1, <4>3 DEF Turns, Served
    <3> QED
      BY <3>1, <3>2
  <2>5. LET due == s.config.limit - (s.base.round + Served(w, k))
        IN  IF s.base.alive[w] THEN s.energy[w] = due ELSE s.energy[w] >= due
    BY <2>3, <2>4 DEF Paid
  <2>6. s.base.alive[w] => s.energy[w] > 0
    BY <2>2, <2>3 DEF Fed
  <2> QED
    BY <2>4, <2>5, <2>6
<1> QED
  BY <1>1, <1>2 DEF ExtensionInv

\* In every game with a limit, on any board and under any configuration, a living worm
\* has used exactly one unit of energy in every turn served so far and has some left.
THEOREM EnergyPaidPerTurn == SpecExtended => []EnergyIsPaidPerTurn
<1>1. ExtensionInv => EnergyIsPaidPerTurn
  BY HeldPaysPerTurn
<1> QED
  BY <1>1, AlwaysHolds, PTL

\* A question that survived the expiries before it is about the present.
LEMMA HeldIsAnswerable ==
  ASSUME ExtensionInv
  PROVE  QuestionIsAnswerable
<1> SUFFICES ASSUME game.base.pending # NoDecision
             PROVE  LET w == game.base.pending.slot IN
                    /\ game.base.alive[w] /\ ~game.base.over
                    /\ game.base.pending.mask = MaskAt(game.base, game.base.pos[w])
                    /\ game.base.rules[w][game.base.pending.mask] = GETNEW
                    /\ \E d \in Exits(game, w) : CanAnswer(game, d) \/ Frozen(w)
  BY DEF QuestionIsAnswerable
<1> DEFINE w == game.base.pending.slot
<1>1. /\ game.base.alive[w] /\ ~game.base.over
      /\ game.base.pending.mask = MaskAt(game.base, game.base.pos[w])
      /\ game.base.rules[w][game.base.pending.mask] = GETNEW
      /\ Exits(game, w) # {}
  <2>1. CASE PlainGame(game)
    <3>1. Good(game.base) /\ ScanEnded(game.base) /\ ~game.config.enabled
      BY <2>1 DEF PlainGame
    <3> QED
      BY <3>1 DEF Good, PendingCurrent, ScanEnded, Exits
  <2>2. CASE Rests(game)
    <3>1. /\ game.base.alive[w]
          /\ game.base.pending.mask = MaskAt(game.base, game.base.pos[w])
          /\ game.base.rules[w][game.base.pending.mask] = GETNEW
          /\ Exits(game, w) # {}
      BY <2>2 DEF Rests, Asked
    <3>2. Stirred(game, game.base.tick + 1, 0, 0)
      BY <2>2 DEF Rests, Held
    <3>3. game.base.over => \A v \in Slot : ~game.base.alive[v]
      BY <3>2 DEF Stirred
    <3>4. w \in Slot
      <4>1. game.base.pending \in Decision
        BY <3>2 DEF Stirred, ExtendedState, State
      <4> QED
        BY <4>1 DEF Decision
    <3> QED
      BY <3>1, <3>3, <3>4
  <2> QED
    BY <2>1, <2>2 DEF ExtensionInv
<1>2. \A d \in Exits(game, w) : CanAnswer(game, d) \/ Frozen(w)
  BY DEF CanAnswer
<1> QED
  BY <1>1, <1>2

\* Whoever is asked lives, sees the pattern of the question and has a legal answer,
\* although trails may have expired and worms moved since.
THEOREM QuestionsAnswerable == SpecExtended => []QuestionIsAnswerable
<1>1. ExtensionInv => QuestionIsAnswerable
  BY HeldIsAnswerable
<1> QED
  BY <1>1, AlwaysHolds, PTL

\* On a tidy board an expiry leaves no stale bit, and an expiry belongs to a trail.
LEMMA HeldForgetsBoth ==
  ASSUME ExtensionInv, Tidy(game)
  PROVE  ExpiryFreesBothEnds
<1>1. CASE PlainGame(game)
  BY <1>1 DEF PlainGame, Good, Sound, ExpiryFreesBothEnds
<1>2. CASE Rests(game)
  <2>1. /\ Fresh(game.base) /\ Timed(game, game.base.tick + 1)
        /\ game.config.enabled
    BY <1>2 DEF Rests, Held, Stirred
  <2>2. ASSUME NEW e \in Edge
        PROVE  IF game.config.ttl > 0 /\ game.base.trails[e] # None
               THEN game.temporary[e] \in game.base.tick + 1 .. game.base.tick + game.config.ttl
               ELSE game.temporary[e] = 0
    BY <2>1 DEF Timed
  <2> QED
    BY <2>1, <2>2 DEF ExpiryFreesBothEnds
<1> QED
  BY <1>1, <1>2 DEF ExtensionInv

\* Where every spoke of a dot leads to another dot, or trails do not fade, the cached
\* masks are what the trails say, and with a time to live every trail has an expiry
\* ahead of it and nothing else has one.
THEOREM ExpiryForgotten == SpecExtended => [](Tidy(game) => ExpiryFreesBothEnds)
<1>1. ExtensionInv => (Tidy(game) => ExpiryFreesBothEnds)
  BY HeldForgetsBoth
<1> QED
  BY <1>1, AlwaysHolds, PTL

\* On a roomy board rounds and answers take nothing back but by an expiry.
LEMMA StepTakesBack ==
  ASSUME Roomy, ExtensionInv, NextExtended
  PROVE  /\ \A e \in Edge :
             (game.base.trails[e] # None /\ game'.base.trails[e] # game.base.trails[e]) =>
               game.temporary[e] \in 1 .. game'.base.tick
         /\ \A p \in Point :
             (game.base.owner[p] # None /\ game'.base.owner[p] # game.base.owner[p]) =>
               Reopened(p)
         /\ \A w \in Slot : ~game.base.alive[w] => ~game'.base.alive[w]
<1>1. \/ Onward(game, game')
      \/ NothingLost(game.base, game'.base)
  BY StepsHold
<1>2. CASE Onward(game, game')
  BY <1>2 DEF Onward, Faded, Reopened, Tidy
<1>3. CASE NothingLost(game.base, game'.base)
  BY <1>3 DEF NothingLost
<1> QED
  BY <1>1, <1>2, <1>3

\* A trail disappears when its time has come, a complete dot changes hands only if one
\* of its trails did, and the dead stay dead.
THEOREM ExpiryTakesBack == Roomy => (SpecExtended => OnlyExpiryTakesBack)
<1> SUFFICES ASSUME Roomy PROVE SpecExtended => OnlyExpiryTakesBack
  OBVIOUS
<1>1. ExtensionInv /\ [NextExtended]_game =>
        [/\ \A e \in Edge :
              (game.base.trails[e] # None /\ game'.base.trails[e] # game.base.trails[e]) =>
                game.temporary[e] \in 1 .. game'.base.tick
         /\ \A p \in Point :
              (game.base.owner[p] # None /\ game'.base.owner[p] # game.base.owner[p]) =>
                Reopened(p)
         /\ \A w \in Slot : ~game.base.alive[w] => ~game'.base.alive[w]]_game
  BY StepTakesBack
<1> QED
  BY <1>1, AlwaysHolds, PTL DEF SpecExtended, OnlyExpiryTakesBack

------------------------------------------------------------------------------
(* Loading what was stored.                                                *)

\* The dots of the worms in W.
DotsOf(s, W) == {p \in Point : s.base.owner[p] \in W}

\* What one more worm owns counts as much as that worm has scored.
LEMMA OneMoreWorm ==
  ASSUME NEW s \in ExtendedState, Weighed(s), NEW W, W \subseteq Slot, NEW x \in Slot, x \notin W,
         Total(s.weighted, W) = Worth(s, DotsOf(s, W))
  PROVE  Total(s.weighted, W \cup {x}) = Worth(s, DotsOf(s, W \cup {x}))
<1> DEFINE f == s.weighted
           g == s.config.weight
           D == DotsOf(s, W)
           E == Dots(s.base.owner, x)
<1>1. D \subseteq Point /\ E \subseteq Point
  BY DEF DotsOf, Dots
<1>2. /\ g \in [Point -> Nat] /\ IsFiniteSet(D) /\ IsFiniteSet(E)
      /\ \A w \in Slot : Worth(s, Dots(s.base.owner, w)) \in Nat
  <2>1. \A w \in Slot : Dots(s.base.owner, w) \subseteq Point
    BY DEF Dots
  <2> HIDE DEF D, E
  <2> QED
    BY <1>1, <2>1, WorthType
<1>3. f \in [Slot -> Nat]
  BY <1>2 DEF Weighed, ExtendedState
<1>4. DotsOf(s, W \cup {x}) = D \cup E /\ D \cap E = {}
  BY DEF DotsOf, Dots
<1>5. Worth(s, D \cup E) = Worth(s, D) + Worth(s, E)
  <2> HIDE DEF D, E
  <2> QED
    BY <1>1, <1>2, <1>4, TotalOfBoth DEF Worth
<1>6. IsFiniteSet(W) /\ IsFiniteSet({x})
  <2>1. IsFiniteSet(Slot)
    <3>1. 0 \in Int /\ N - 1 \in Int
      BY EngineAssumption
    <3> QED
      BY <3>1, FS_Interval DEF Slot
  <2> QED
    BY <2>1, FS_Subset, FS_Singleton
<1> HIDE DEF f
<1>7. Total(f, W \cup {x}) = Total(f, W) + Total(f, {x}) /\ Total(f, {x}) = f[x]
  BY <1>3, <1>6, TotalOfBoth, TotalOfOne
<1>8. f[x] = Worth(s, E)
  BY DEF Weighed, f
<1> HIDE DEF D, E
<1> QED
  BY <1>4, <1>5, <1>7, <1>8 DEF f, D

\* The weighted scores of a team's worms add up to what its dots count.
LEMMA TeamTotal ==
  ASSUME NEW s \in ExtendedState, Weighed(s), NEW t \in Team
  PROVE  Total(s.weighted, {w \in Slot : s.config.team[w] = t}) = Worth(s, TeamDots(s, t))
<1> DEFINE M == {w \in Slot : s.config.team[w] = t}
           First(k) == {w \in M : w < k}
           Sums(k) == Total(s.weighted, First(k)) = Worth(s, DotsOf(s, First(k)))
<1>1. Sums(0)
  <2>1. First(0) = {}
    BY DEF Slot
  <2>2. DotsOf(s, {}) = {}
    BY DEF DotsOf
  <2> QED
    BY <2>1, <2>2, TotalOfNone DEF Worth
<1>2. ASSUME NEW k \in Nat, Sums(k) PROVE Sums(k + 1)
  <2>1. CASE k \in M
    <3>1. First(k + 1) = First(k) \cup {k} /\ First(k) \subseteq Slot /\ k \notin First(k)
      BY <2>1 DEF Slot
    <3>2. k \in Slot
      BY <2>1
    <3> HIDE DEF M, First
    <3> QED
      BY <1>2, <3>1, <3>2, OneMoreWorm DEF Sums
  <2>2. CASE k \notin M
    <3>1. First(k + 1) = First(k)
      BY <2>2 DEF Slot
    <3> QED
      BY <1>2, <3>1
  <2> QED
    BY <2>1, <2>2
<1>3. First(4) = M
  BY EngineAssumption DEF Slot
<1> HIDE DEF Sums, M
<1>4. Sums(4)
  <2>1. Sums(0 + 1)
    BY <1>1, <1>2
  <2>2. Sums(1 + 1)
    BY <1>2, <2>1
  <2>3. Sums(2 + 1)
    BY <1>2, <2>2
  <2>4. Sums(3 + 1)
    BY <1>2, <2>3
  <2> QED
    BY <2>4
<1>5. DotsOf(s, M) = TeamDots(s, t)
  BY DEF DotsOf, TeamDots, M
<1> QED
  BY <1>3, <1>4, <1>5 DEF Sums, M

\* What a handler leaves passes the checks of State.Validate on the stored state.
LEMMA RestsValidate ==
  ASSUME Wide, NEW s, Rests(s)
  PROVE  ValidVariant(s)
<1>1. /\ s \in ExtendedState /\ s.base \in State /\ Stirred(s, s.base.tick + 1, 0, 0)
      /\ s.base.tick \in Nat /\ s.energy \in [Slot -> Nat]
      /\ s.config.limit \in Nat /\ s.config.ttl \in Nat
      /\ s.base.tick > 0 => s.records > 0
  BY HeldType DEF Rests, Held
<1>2. /\ Firm(s.base) /\ Weighed(s) /\ Owing(s, 0, 0) /\ Timed(s, s.base.tick + 1) /\ Fed(s)
  BY <1>1 DEF Stirred
<1>3. Validate(s.base) /\ Owned(s.base)
  BY <1>2, BoardValidates DEF Firm
<1>4. CountersAgree(s)
  <2>1. ValidScores(s.base)
    BY <1>3 DEF Validate
  <2>2. ASSUME NEW w \in Slot PROVE s.weighted[w] = Worth(s, CompleteOf(s, w))
    <3>1. w # None
      BY DEF Slot, None
    <3>2. CompleteOf(s, w) = Dots(s.base.owner, w)
      BY <1>3, <3>1 DEF CompleteOf, Dots, Owned
    <3> QED
      BY <1>2, <3>2 DEF Weighed
  <2>3. ASSUME NEW t \in Team
        PROVE  s.team[t] = Total(s.weighted, {w \in Slot : s.config.team[w] = t})
    <3>1. s.team[t] + (IF s.config.team[0] = t THEN 0 ELSE 0) = Worth(s, TeamDots(s, t))
      BY <1>2 DEF Owing
    <3>2. s.team[t] \in Int
      BY <1>1 DEF ExtendedState
    <3>3. s.team[t] = Worth(s, TeamDots(s, t))
      BY <3>1, <3>2
    <3> QED
      BY <1>1, <1>2, <3>3, TeamTotal
  <2> QED
    BY <2>1, <2>2, <2>3 DEF CountersAgree
<1>5. ASSUME NEW w \in Slot, s.config.limit > 0
      PROVE  s.energy[w] \in 0 .. s.config.limit /\ (s.base.alive[w] => s.energy[w] > 0)
  BY <1>1, <1>2, <1>5 DEF Fed
<1>6. ASSUME NEW e \in Edge, s.temporary[e] # 0
      PROVE  s.temporary[e] > s.base.tick /\ s.base.trails[e] # None
  <2>1. /\ s.base.trails[e] # None
        /\ s.temporary[e] \in s.base.tick + 1 .. s.base.tick + s.config.ttl
    BY <1>2, <1>6 DEF Timed
  <2> QED
    BY <1>1, <2>1
<1>7. StandsFree(s.config, s.base.pos)
  BY <1>1 DEF Stirred, Placed, StandsFree
<1> QED
  BY <1>1, <1>3, <1>4, <1>5, <1>6, <1>7 DEF ValidVariant

\* Without rates the world is what the configuration names, whatever is passed over.
LEMMA PlainWorld ==
  ASSUME NEW c \in Config, c.rates = {}, c.seed \in Draws(c.rates), NEW R
  PROVE  World(c, R) = c.barred
<1>1. c.barred \in [Point -> SUBSET Barrier]
  BY DEF Config
<1>2. ASSUME NEW p \in Point PROVE c.seed[Place(p, R)] = {}
  <2>1. Place(p, R) \in 1 .. Cardinality(Point)
    BY PlaceType
  <2>2. c.seed[Place(p, R)] \in {{}} \cup {{k} : k \in {}}
    BY <2>1 DEF Draws
  <2> QED
    BY <2>2
<1>3. World(c, R) = [p \in Point |-> c.barred[p]]
  BY <1>2 DEF World
<1> QED
  BY <1>1, <1>3

\* As long as no start is given up, New draws the world that is stored.
LEMMA WorldStays ==
  ASSUME NEW s, Rests(s), ~StartGivenUp(s)
  PROVE  SameWorld(s)
<1>1. s \in ExtendedState /\ Placed(s) /\ s.config \in Config
  BY HeldType DEF Rests, Held, Stirred, ExtendedState
<1>2. Rebuilt(s).barred = World(s.config, Reserved(s))
  BY <1>1, RebuiltEffect DEF RebuiltDoes
<1>3. s.barred = World(s.config, Spared(s.config)) /\ s.config.seed \in Draws(s.config.rates)
  BY <1>1 DEF Placed
<1>4. CASE s.config.rates = {}
  BY <1>1, <1>2, <1>3, <1>4, PlainWorld DEF SameWorld
<1>5. CASE s.config.rates # {}
  <2>1. \A w \in Slot : Kind[w] # "ASLEEP" <=> w \in s.moved \/ s.base.alive[w]
    BY <1>1, <1>5 DEF StartGivenUp, Placed
  <2>2. \A w \in Slot \ s.moved : s.base.pos[w] = Start[w]
    BY <1>1 DEF Placed
  <2>3. s.moved \subseteq Slot
    BY <1>1 DEF ExtendedState
  <2>4. InitialPositions(s) = {Start[w] : w \in {v \in Slot : Kind[v] # "ASLEEP"}}
    BY <2>1, <2>2, <2>3 DEF InitialPositions
  <2>5. Reserved(s) = Spared(s.config)
    BY <2>4 DEF Reserved, Spared
  <2> QED
    BY <1>2, <1>3, <2>5 DEF SameWorld
<1> QED
  BY <1>4, <1>5

\* A worm that is not boxed in can move on the board that New builds from the store.
LEMMA RebuiltPlayable ==
  ASSUME NEW s, Rests(s), ~BoxedIn(s), SameWorld(s)
  PROVE  Playable(Rebuilt(s))
<1> DEFINE t == Rebuilt(s)
<1>1. s \in ExtendedState /\ s.base \in State /\ s.config.limit \in Nat /\ s.config.enabled
  BY HeldType DEF Rests, Held, Stirred
<1>2. /\ t.base = s.base /\ t.config = s.config /\ t.barred = s.barred
      /\ t.energy = [w \in Slot |-> s.config.limit] /\ t.temporary = [e \in Edge |-> 0]
  BY <1>1, RebuiltEffect DEF RebuiltDoes, SameWorld
<1> HIDE DEF t
<1>3. ASSUME NEW w \in Slot, t.base.alive[w] PROVE Exits(t, w) # {}
  <2>1. PICK d \in Dir : Allowed(s, w, d)
    BY <1>1, <1>2, <1>3 DEF Exits, BoxedIn
  <2> DEFINE from == s.base.pos[w]
             e == {from, Neighbor(from, d)}
  <2>2. e \in Edge
    <3>1. from \in Point /\ Neighbor(from, d) \in Point
      BY <1>1, <2>1 DEF State, Allowed, InBounds
    <3> QED
      BY <3>1 DEF Edge, EdgeOf
  <2>3. t.temporary[e] = 0 /\ (t.config.limit > 0 => t.energy[w] > 0)
    BY <1>1, <1>2, <2>2
  <2>4. Allowed(t, w, d)
    BY <1>2, <2>1, <2>3 DEF Allowed
  <2> QED
    BY <1>1, <1>2, <2>4 DEF Exits
<1> QED
  BY <1>3 DEF Playable, t

\* A state that a handler leaves can be loaded again, but for the two cases.
LEMMA HeldReloads ==
  ASSUME Wide, ExtensionInv
  PROVE  RefusedOnlyForCause
<1>1. CASE PlainGame(game)
  <2>1. Good(game.base) /\ ~game.config.enabled
    BY <1>1 DEF PlainGame
  <2>2. Validate(game.base)
    BY <2>1, GoodValidates
  <2>3. ValidVariant(game) /\ SameWorld(game) /\ LoadsAgain(game)
    BY <2>1, <2>2 DEF LoadsAgain, SameWorld, ValidVariant, CountersAgree, Validate
  <2> QED
    BY <2>3 DEF RefusedOnlyForCause
<1>2. CASE Rests(game)
  <2>1. ValidVariant(game)
    BY <1>2, RestsValidate
  <2>2. CASE StartGivenUp(game)
    BY <2>1, <2>2 DEF RefusedOnlyForCause
  <2>3. CASE ~StartGivenUp(game)
    <3>1. SameWorld(game)
      BY <1>2, <2>3, WorldStays
    <3>2. ~BoxedIn(game) => LoadsAgain(game)
      BY <1>2, <2>1, <3>1, RebuiltPlayable DEF LoadsAgain
    <3> QED
      BY <2>1, <3>1, <3>2 DEF RefusedOnlyForCause
  <2> QED
    BY <2>2, <2>3
<1> QED
  BY <1>1, <1>2 DEF ExtensionInv

\* On every board but a torus of one column, what rounds and answers leave behind passes
\* the checks of State.Validate on the state, the three counters of a capture included.
\* New draws the same world from it unless a worm of a generated world has died where it
\* started, and then accepts it unless a living worm is boxed in.
THEOREM StatesReload == SpecExtended => [](Wide => RefusedOnlyForCause)
<1>1. ExtensionInv => (Wide => RefusedOnlyForCause)
  BY HeldReloads
<1> QED
  BY <1>1, AlwaysHolds, PTL

------------------------------------------------------------------------------
(* The one reason to stall.                                                *)

\* A worm at its turn whose table names a move that it has not.
Stuck(s, w) ==
  /\ s.base.alive[w]
  /\ Kind[w] # "WILD"
  /\ s.base.rules[w][MaskAt(s.base, s.base.pos[w])] \in Dir \ Exits(s, w)

\* One of finitely many directions has the greatest value.
LEMMA GreatestExists ==
  ASSUME NEW v \in [Dir -> Int], NEW E \in SUBSET Dir, E # {}
  PROVE  \E g \in E : \A e \in E : v[e] <= v[g]
<1> DEFINE Upto(k) == (\E e \in E : e <= k) =>
                        \E g \in E : g <= k /\ \A e \in E : e <= k => v[e] <= v[g]
<1>1. Upto(0)
  BY DEF Dir
<1>2. ASSUME NEW k \in 0 .. 4, Upto(k)
      PROVE  Upto(k + 1)
  <2> SUFFICES ASSUME \E e \in E : e <= k + 1
               PROVE  \E g \in E : g <= k + 1 /\ \A e \in E : e <= k + 1 => v[e] <= v[g]
    OBVIOUS
  <2>1. \A e \in E : e \in Int /\ v[e] \in Int /\ (e <= k + 1 <=> e <= k \/ e = k + 1)
    <3>1. \A e \in E : e \in 0 .. 5 /\ v[e] \in Int
      BY DEF Dir
    <3> QED
      BY <3>1
  <2>2. CASE \E e \in E : e <= k
    <3>1. PICK g \in E : g <= k /\ \A e \in E : e <= k => v[e] <= v[g]
      BY <1>2, <2>2
    <3>2. CASE k + 1 \in E /\ v[k + 1] > v[g]
      BY <2>1, <3>1, <3>2
    <3>3. CASE ~(k + 1 \in E /\ v[k + 1] > v[g])
      BY <2>1, <3>1, <3>3
    <3> QED
      BY <3>2, <3>3
  <2>3. CASE ~\E e \in E : e <= k
    <3>1. k + 1 \in E /\ \A e \in E : e <= k + 1 => e = k + 1
      BY <2>1, <2>3
    <3>2. \A e \in E : e <= k + 1 => v[e] <= v[k + 1]
      BY <2>1, <3>1
    <3>3. k + 1 <= k + 1
      OBVIOUS
    <3> QED
      BY <3>1, <3>2, <3>3
  <2> QED
    BY <2>2, <2>3
<1> HIDE DEF Upto
<1>3. Upto(1)
  <2>1. Upto(0 + 1)
    BY <1>1, <1>2
  <2> QED
    BY <2>1
<1>4. Upto(2)
  <2>1. Upto(1 + 1)
    BY <1>2, <1>3
  <2> QED
    BY <2>1
<1>5. Upto(3)
  <2>1. Upto(2 + 1)
    BY <1>2, <1>4
  <2> QED
    BY <2>1
<1>6. Upto(4)
  <2>1. Upto(3 + 1)
    BY <1>2, <1>5
  <2> QED
    BY <2>1
<1>7. Upto(5)
  <2>1. Upto(4 + 1)
    BY <1>2, <1>6
  <2> QED
    BY <2>1
<1>8. \A e \in E : e <= 5
  BY DEF Dir
<1> QED
  BY <1>7, <1>8 DEF Upto

\* Between two moves nothing is due, so the expiry at the start of a move does nothing,
\* and a move that the worm has is made, with one outcome.
LEMMA MoveExists ==
  ASSUME NEW s, Held(s), NEW w \in Slot, NEW d \in Exits(s, w)
  PROVE  \E t : Apply(s, w, d) = {t}
<1> DEFINE due == Expire(s)
<1>1. /\ Stirred(s, s.base.tick + 1, 0, 0) /\ s \in ExtendedState /\ s.base \in State
      /\ s.base.tick \in Nat /\ 0 \in Slot
  BY HeldType
<1>2. s.config.enabled /\ (s.base.over => \A v \in Slot : ~s.base.alive[v])
  BY <1>1 DEF Stirred
<1>3. d \in Dir /\ Allowed(s, w, d)
  BY <1>2 DEF Exits
<1>4. Due(s) = {}
  <2>1. \A e \in Edge : s.temporary[e] # 0 =>
          s.temporary[e] \in s.base.tick + 1 .. s.base.tick + s.config.ttl
    BY <1>1 DEF Stirred, Timed
  <2> QED
    BY <1>1, <2>1 DEF Due
<1>5. /\ due.config = s.config /\ due.barred = s.barred /\ due.energy = s.energy
      /\ due.temporary = [e \in Edge |-> IF e \in Due(s) THEN 0 ELSE s.temporary[e]]
      /\ due.base = Cleared(s)
  BY <1>1, ExpireEffect DEF ExpireDoes
<1>6. ClearedDoes(s, due.base)
  BY <1>1, <1>5, ClearedEffect
<1> HIDE DEF due
<1>7. /\ due.base.pos = s.base.pos /\ due.base.alive = s.base.alive
      /\ due.base.over = s.base.over
  BY <1>6 DEF ClearedDoes, SameMoment
<1>8. \A e \in Edge : due.base.trails[e] = s.base.trails[e]
  BY <1>4, <1>6 DEF ClearedDoes
<1>9. \A p \in Point : due.base.cached[p] = s.base.cached[p]
  <2>1. \A p \in Point : FreedAt(s, p) = {}
    BY <1>4 DEF FreedAt
  <2> QED
    BY <1>6, <2>1 DEF ClearedDoes
<1>10. \A e \in Edge : due.temporary[e] = s.temporary[e]
  BY <1>4, <1>5
<1> DEFINE from == s.base.pos[w]
           to == Neighbor(from, d)
<1>11. from \in Point /\ InBounds(to) /\ {from, to} \in Edge
  <2>1. from \in Point /\ InBounds(to)
    BY <1>1, <1>3 DEF State, Allowed
  <2> QED
    BY <1>3, <2>1 DEF Edge, EdgeOf, InBounds
<1>12. MaskAt(due.base, from) = MaskAt(s.base, from)
  BY <1>8, <1>9, <1>11 DEF MaskAt, TrailMask
<1>13. \A p : WormAt(due.base, p) = WormAt(s.base, p)
  BY <1>7 DEF WormAt
<1>14. Allowed(due, w, d)
  <2>1. /\ s.base.alive[w] /\ (s.config.limit > 0 => s.energy[w] > 0)
        /\ s.barred[to] = {} /\ d \notin MaskAt(s.base, from)
        /\ ~Classic => ~WormAt(s.base, to)
        /\ s.base.trails[{from, to}] = None /\ s.temporary[{from, to}] = 0
        /\ s.config.oneWay[{from, to}] \in {Free, d}
    BY <1>3 DEF Allowed
  <2> HIDE DEF from, to
  <2>2. /\ due.base.alive[w] /\ (due.config.limit > 0 => due.energy[w] > 0)
        /\ InBounds(to) /\ due.barred[to] = {} /\ d \notin MaskAt(due.base, from)
        /\ ~Classic => ~WormAt(due.base, to)
        /\ due.base.trails[{from, to}] = None /\ due.temporary[{from, to}] = 0
        /\ due.config.oneWay[{from, to}] \in {Free, d}
    BY <1>5, <1>7, <1>8, <1>10, <1>11, <1>12, <1>13, <2>1
  <2>3. from = due.base.pos[w] /\ to = Neighbor(due.base.pos[w], d)
    BY <1>7 DEF from, to
  <2> QED
    BY <2>2, <2>3 DEF Allowed
<1>15. CanStep(due.base, w, d)
  BY <1>2, <1>7, <1>14 DEF Allowed, CanStep
<1>16. {t \in {Expire(s)} : Allowed(t, w, d) /\ CanStep(t.base, w, d)} = {due}
  BY <1>14, <1>15 DEF due
<1>17. Step(due.base, w, d) = {Stepped(due.base, w, d)}
  BY StepIsStepped
<1>18. Apply(s, w, d) = {Settle(due, Stepped(due.base, w, d), w)}
  BY <1>16, <1>17 DEF Apply
<1> QED
  BY <1>18

\* So a worm that has a move has a best one.
LEMMA BestExists ==
  ASSUME NEW s, Held(s), NEW w \in Slot, Exits(s, w) # {}
  PROVE  BestMoves(s, w) # {}
<1> DEFINE E == Exits(s, w)
           value(t) == 100 * (t.weighted[w] - s.weighted[w]) + Cardinality(Exits(t, w))
           made(d) == CHOOSE t : Apply(s, w, d) = {t}
           T == UNION {{[dir |-> d, value |-> value(t)] : t \in Apply(s, w, d)} : d \in E}
           v == [d \in Dir |-> IF d \in E THEN value(made(d)) ELSE 0]
<1>1. E \subseteq Dir /\ E # {}
  BY UsableAreExits
<1>2. ASSUME NEW d \in E PROVE Apply(s, w, d) = {made(d)}
  <2>1. \E t : Apply(s, w, d) = {t}
    BY MoveExists
  <2> QED
    BY <2>1
<1>3. ASSUME NEW d \in E PROVE value(made(d)) \in Int
  <2>1. made(d) \in Apply(s, w, d) /\ d \in Dir
    BY <1>1, <1>2
  <2> HIDE DEF made
  <2>2. Held(made(d))
    BY <2>1, ApplyHolds
  <2>3. made(d).weighted[w] \in Int /\ s.weighted[w] \in Int
    BY <2>2, HeldType DEF ExtendedState
  <2>4. Cardinality(Exits(made(d), w)) \in Nat
    <3>1. Exits(made(d), w) \subseteq Dir
      BY UsableAreExits
    <3>2. IsFiniteSet(Dir)
      <4>1. 0 \in Int /\ 5 \in Int
        OBVIOUS
      <4> QED
        BY <4>1, FS_Interval DEF Dir
    <3> QED
      BY <3>1, <3>2, FS_Subset, FS_CardinalityType
  <2> QED
    BY <2>3, <2>4
<1>4. v \in [Dir -> Int]
  <2> HIDE DEF value, made, E
  <2> QED
    BY <1>3
<1>5. \A d \in E : v[d] = value(made(d))
  <2> HIDE DEF value, made, E
  <2> QED
    BY <1>1
<1>6. \A x \in T : \E d \in E : x = [dir |-> d, value |-> v[d]]
  <2> HIDE DEF value, made, E, v
  <2> QED
    BY <1>2, <1>5
<1>7. \A d \in E : [dir |-> d, value |-> v[d]] \in T
  <2> HIDE DEF value, made, E, v
  <2> QED
    BY <1>2, <1>5
<1> HIDE DEF v, T
<1>8. PICK g \in E : \A e \in E : v[e] <= v[g]
  <2> HIDE DEF E
  <2> QED
    BY <1>1, <1>4, GreatestExists
<1>9. g \in Foremost(T)
  <2> DEFINE y == [dir |-> g, value |-> v[g]]
  <2>1. y \in T /\ y.dir = g
    BY <1>7
  <2>2. \A z \in T : z.value <= y.value
    <3> HIDE DEF E
    <3> QED
      BY <1>6, <1>8
  <2> HIDE DEF y
  <2>3. y.dir \in {x.dir : x \in {q \in T : \A z \in T : z.value <= q.value}}
    BY <2>1, <2>2
  <2> QED
    BY <2>1, <2>3 DEF Foremost
<1>10. BestMoves(s, w) = IF Cardinality(E) = 1 THEN E ELSE Foremost(T)
  BY DEF BestMoves, T
<1> HIDE DEF E
<1> QED
  BY <1>1, <1>9, <1>10

\* A table that lets a worm move names a move it has, or the worm is stuck.
LEMMA UsableExists ==
  ASSUME NEW s, Held(s), NEW w \in Slot, Exits(s, w) # {}, NEW a \in Dir \cup {DOAI},
         a \in Dir => a \in Exits(s, w) \/ Kind[w] = "WILD"
  PROVE  Usable(s, w, a) # {}
<1>1. BestMoves(s, w) # {}
  BY BestExists
<1> QED
  BY <1>1 DEF Usable

\* The board is the only thing that With changes.
LEMMA WithSame ==
  ASSUME NEW s \in ExtendedState, NEW b
  PROVE  /\ With(s, b).base = b /\ With(s, b).config = s.config
         /\ With(s, b).energy = s.energy /\ With(s, b).barred = s.barred
         /\ With(s, b).temporary = s.temporary
BY DEF With, ExtendedState

\* A move that a rule names and the worm has is made.
LEMMA TakeExists ==
  ASSUME NEW s, Held(s), NEW w \in Slot, NEW m \in Mask, NEW d \in Exits(s, w)
  PROVE  Take(s, w, m, d) # {}
<1> DEFINE u == With(s, UseRule(s.base, w, m, d))
<1>1. d \in Dir /\ s \in ExtendedState
  BY UsableAreExits, HeldType
<1>2. Held(u) /\ SameGame(s.base, u.base)
  BY <1>1, UseRuleKeeps
<1>3. /\ u.config = s.config /\ u.energy = s.energy /\ u.barred = s.barred
      /\ u.temporary = s.temporary
  BY <1>1, WithSame
<1>4. Take(s, w, m, d) = Apply(u, w, d)
  BY DEF Take
<1> HIDE DEF u
<1>5. SameLand(s.base, u.base) /\ u.base.alive = s.base.alive
  BY <1>2 DEF SameGame, SameLand
<1>6. d \in Exits(u, w)
  BY <1>3, <1>5, ExitsSame
<1>7. \E t : Apply(u, w, d) = {t}
  BY <1>2, <1>6, MoveExists
<1> QED
  BY <1>4, <1>7

\* A living worm moves, dies or is asked, unless it is stuck.
LEMMA TurnGoesOn ==
  ASSUME NEW s, Held(s), NEW w \in Slot, s.base.alive[w], DispatchMove(s, w) = {}
  PROVE  Stuck(s, w)
<1> DEFINE m == MaskAt(s.base, s.base.pos[w])
           a == s.base.rules[w][m]
           Outcome(d) ==
             Take(IF a = DOAI /\ ~Frozen(w) THEN With(s, Learn(s.base, w, m, d)) ELSE s, w, m, d)
<1>1. s.base \in State /\ Stirred(s, s.base.tick + 1, 0, 0)
  BY HeldType
<1>2. m \in Mask /\ a \in Action
  <2>1. s.base.pos[w] \in Point /\ s.base.rules \in [Slot -> [Mask -> Action]]
    BY <1>1 DEF State
  <2>2. m \in Mask
    BY <1>1, <2>1, MaskType
  <2> HIDE DEF m
  <2> QED
    BY <2>1, <2>2
<1>3. ASSUME Exits(s, w) # {}, a \in Dir \cup {DOAI}, Usable(s, w, a) # {}
      PROVE  FALSE
  <2> PICK d \in Usable(s, w, a) : TRUE
    BY <1>3
  <2>1. d \in Exits(s, w) /\ d \in Dir
    BY UsableAreExits
  <2>2. d \notin m
    BY <1>1, <2>1 DEF Exits, Allowed, Stirred
  <2>3. Outcome(d) # {}
    <3> HIDE DEF m, a
    <3>1. CASE a = DOAI /\ ~Frozen(w)
      <4> DEFINE u == With(s, Learn(s.base, w, m, d))
      <4>1. /\ Held(u) /\ SameLand(s.base, u.base) /\ u.base.alive = s.base.alive
            /\ u.config = s.config /\ u.energy = s.energy
        BY <1>2, <2>1, <2>2, <3>1, LearnKeeps
      <4>2. u.barred = s.barred /\ u.temporary = s.temporary
        BY HeldType, WithSame
      <4>3. Outcome(d) = Take(u, w, m, d)
        BY <3>1
      <4> HIDE DEF u, Outcome
      <4>4. d \in Exits(u, w)
        BY <2>1, <4>1, <4>2, ExitsSame
      <4> QED
        BY <1>2, <4>1, <4>3, <4>4, TakeExists
    <3>2. CASE ~(a = DOAI /\ ~Frozen(w))
      <4>1. Outcome(d) = Take(s, w, m, d)
        BY <3>2
      <4> HIDE DEF Outcome
      <4> QED
        BY <1>2, <2>1, <4>1, TakeExists
    <3> QED
      BY <3>1, <3>2
  <2>4. DispatchMove(s, w) = UNION {Outcome(x) : x \in Usable(s, w, a)}
    <3>1. GETNEW \notin Dir \cup {DOAI} /\ DIE \notin Dir \cup {DOAI}
      BY DEF GETNEW, DIE, DOAI, Dir
    <3>2. DispatchMove(s, w) =
            CASE Exits(s, w) = {} -> {With(s, Kill(s.base, w, "worm_blocked"))}
              [] Exits(s, w) # {} /\ a = GETNEW -> {With(s, Ask(s.base, w, m))}
              [] Exits(s, w) # {} /\ a = DIE -> {With(s, Kill(s.base, w, "worm_died"))}
              [] Exits(s, w) # {} /\ a \in Dir \cup {DOAI} ->
                   UNION {Outcome(x) : x \in Usable(s, w, a)}
      BY DEF DispatchMove
    <3> HIDE DEF a, Outcome
    <3> QED
      BY <1>3, <3>1, <3>2
  <2> HIDE DEF Outcome, a
  <2> QED
    BY <2>3, <2>4
<1>4. Exits(s, w) # {} /\ a \in Dir \cup {DOAI}
  <2>1. /\ GETNEW # DIE /\ GETNEW \notin Dir \cup {DOAI} /\ DIE \notin Dir \cup {DOAI}
        /\ a \in Dir \cup {GETNEW, DIE, DOAI}
    BY <1>2 DEF GETNEW, DIE, DOAI, Dir, Action
  <2>2. DispatchMove(s, w) =
          CASE Exits(s, w) = {} -> {With(s, Kill(s.base, w, "worm_blocked"))}
            [] Exits(s, w) # {} /\ a = GETNEW -> {With(s, Ask(s.base, w, m))}
            [] Exits(s, w) # {} /\ a = DIE -> {With(s, Kill(s.base, w, "worm_died"))}
            [] Exits(s, w) # {} /\ a \in Dir \cup {DOAI} ->
                 UNION {Outcome(x) : x \in Usable(s, w, a)}
    BY DEF DispatchMove
  <2> HIDE DEF a, Outcome
  <2>3. CASE Exits(s, w) = {}
    BY <2>1, <2>2, <2>3
  <2>4. CASE Exits(s, w) # {} /\ a = GETNEW
    BY <2>1, <2>2, <2>4
  <2>5. CASE Exits(s, w) # {} /\ a = DIE
    BY <2>1, <2>2, <2>5
  <2> QED
    BY <2>1, <2>3, <2>4, <2>5
<1> HIDE DEF Outcome
<1>5. a \in Dir /\ a \notin Exits(s, w) /\ Kind[w] # "WILD"
  <2> HIDE DEF a
  <2>1. Usable(s, w, a) = {}
    BY <1>3, <1>4
  <2>2. CASE a = DOAI \/ a \in Exits(s, w) \/ Kind[w] = "WILD"
    <3>1. a \in Dir => a \in Exits(s, w) \/ Kind[w] = "WILD"
      BY <2>2 DEF Dir, DOAI
    <3> QED
      BY <1>4, <2>1, <3>1, UsableExists
  <2>3. CASE ~(a = DOAI \/ a \in Exits(s, w) \/ Kind[w] = "WILD")
    BY <1>4, <2>3
  <2> QED
    BY <2>2, <2>3
<1> QED
  BY <1>5 DEF Stuck

\* Whether a worm is stuck is a matter of the land, the lives and its table.
LEMMA StuckSame ==
  ASSUME NEW s, NEW t, NEW w, SameLand(s.base, t.base), t.base.alive = s.base.alive,
         t.config = s.config, t.energy = s.energy, t.barred = s.barred,
         t.temporary = s.temporary, t.base.rules = s.base.rules, Stuck(t, w)
  PROVE  Stuck(s, w)
<1>1. /\ MaskAt(t.base, t.base.pos[w]) = MaskAt(s.base, s.base.pos[w])
      /\ Exits(t, w) = Exits(s, w)
  BY ExitsSame
<1> QED
  BY <1>1 DEF Stuck

\* A visit fails only at a worm that is stuck.
LEMMA VisitGoesOn ==
  ASSUME NEW s, Held(s), NEW w \in 0 .. 3, NEW first, VisitSlot(s, w, first) = {}
  PROVE  w \in Slot /\ ~(w < first) /\ Stuck(s, w)
<1> DEFINE b == [s.base EXCEPT !.slot = w]
           u == With(s, b)
<1>1. /\ w \in Slot /\ ~(w < first) /\ s.base.alive[w] /\ DispatchMove(u, w) = {}
  BY DEF VisitSlot
<1>2. s \in ExtendedState /\ s.base \in State
  BY HeldType
<1>3. SameLand(s.base, b) /\ b.alive = s.base.alive /\ b.rules = s.base.rules
  BY <1>2 DEF State, SameLand
<1>4. Held(u)
  BY <1>1, CursorKeeps
<1> HIDE DEF b
<1>5. /\ u.base = b /\ u.config = s.config /\ u.energy = s.energy
      /\ u.barred = s.barred /\ u.temporary = s.temporary
  BY <1>2, WithSame
<1> HIDE DEF u
<1>6. Stuck(u, w)
  BY <1>1, <1>3, <1>4, <1>5, TurnGoesOn
<1> QED
  BY <1>1, <1>3, <1>5, <1>6, StuckSame

\* Every slot's visits: if nobody comes out of one, somebody is stuck in it.
LEMMA EachGoesOn ==
  ASSUME NEW S, S # {}, \A u \in S : Held(u), NEW w \in 0 .. 3, NEW first,
         VisitEach(S, w, first) = {}
  PROVE  \E u \in S : w \in Slot /\ ~(w < first) /\ Stuck(u, w)
<1>1. PICK u \in S : TRUE
  OBVIOUS
<1>2. VisitSlot(u, w, first) = {}
  BY <1>1 DEF VisitEach
<1> QED
  BY <1>1, <1>2, VisitGoesOn

\* The loop fails only at a worm that is stuck, and at the first one before it has
\* served any other.
LEMMA LoopGoesOn ==
  ASSUME NEW s, Held(s), NEW first \in 0 .. 4, Serving(s, first),
         AdvanceSlots(s, first) = {}
  PROVE  \E w \in Slot : \E u : Stuck(u, w) /\ ~(w < first) /\ (w = 0 => u = s)
<1>1. AdvanceSlots(s, first) = After4(s, first)
  BY SlotsUnrolled DEF After1, After2, After3, After4
<1>2. Onward(s, s)
  BY HeldType, OnwardHere
<1>3. /\ \A u \in {s} : Held(u)
      /\ \A u \in After1(s, first) : Held(u)
      /\ \A u \in After2(s, first) : Held(u)
      /\ \A u \in After3(s, first) : Held(u)
  BY <1>2, VisitsServe DEF AllServing, Serving
<1>4. 0 \in 0 .. 3 /\ 1 \in 0 .. 3 /\ 2 \in 0 .. 3 /\ 3 \in 0 .. 3
  OBVIOUS
<1>5. CASE After1(s, first) = {}
  <2>1. VisitEach({s}, 0, first) = {}
    BY <1>5 DEF After1
  <2>2. \E u \in {s} : 0 \in Slot /\ ~(0 < first) /\ Stuck(u, 0)
    BY <1>3, <1>4, <2>1, EachGoesOn
  <2> QED
    BY <2>2
<1>6. CASE After1(s, first) # {} /\ After2(s, first) = {}
  <2>1. VisitEach(After1(s, first), 1, first) = {}
    BY <1>6 DEF After2
  <2>2. \E u : 1 \in Slot /\ ~(1 < first) /\ Stuck(u, 1)
    BY <1>3, <1>4, <1>6, <2>1, EachGoesOn
  <2> QED
    BY <2>2
<1>7. CASE After2(s, first) # {} /\ After3(s, first) = {}
  <2>1. VisitEach(After2(s, first), 2, first) = {}
    BY <1>7 DEF After3
  <2>2. \E u : 2 \in Slot /\ ~(2 < first) /\ Stuck(u, 2)
    BY <1>3, <1>4, <1>7, <2>1, EachGoesOn
  <2> QED
    BY <2>2
<1>8. CASE After3(s, first) # {} /\ After4(s, first) = {}
  <2>1. VisitEach(After3(s, first), 3, first) = {}
    BY <1>8 DEF After4
  <2>2. \E u : 3 \in Slot /\ ~(3 < first) /\ Stuck(u, 3)
    BY <1>3, <1>4, <1>8, <2>1, EachGoesOn
  <2> QED
    BY <2>2
<1>9. After4(s, first) = {}
  BY <1>1
<1> QED
  BY <1>5, <1>6, <1>7, <1>8, <1>9

\* AdvanceRound fails only at a stuck worm, and the first worm is stuck already.
LEMMA AdvancedGoesOn ==
  ASSUME NEW s, Rests(s), s.base.pending = NoDecision, Advanced(s) = {}
  PROVE  \E w \in Slot : \E u : Stuck(u, w) /\ (w = 0 => Stuck(s, 0))
<1> DEFINE q == With(s, Quiet(s.base))
<1>1. Held(s) /\ s.base.slot = None /\ Paid(s, 0) /\ s.config.enabled
  BY DEF Rests, AtRest, Held, Stirred
<1>2. /\ Held(q) /\ SameGame(s.base, q.base)
      /\ q.config = s.config /\ q.energy = s.energy
  BY <1>1, QuietKeeps
<1>3. Advanced(s) = {Finish(x) : x \in AdvanceSlots(q, 0)}
  BY <1>1 DEF Advanced
<1>4. s \in ExtendedState
  BY <1>1, HeldType
<1>5. q.barred = s.barred /\ q.temporary = s.temporary
  BY <1>4, WithSame
<1> HIDE DEF q
<1>6. Paid(q, 0) /\ q.base.pending = NoDecision
  BY <1>1, <1>2, PaidSame DEF SameGame
<1>7. Serving(q, 0)
  BY <1>2, <1>6 DEF Serving, Asked
<1>8. AdvanceSlots(q, 0) = {}
  BY <1>3
<1>9. PICK w \in Slot : \E u : Stuck(u, w) /\ (w = 0 => u = q)
  <2>1. 0 \in 0 .. 4
    OBVIOUS
  <2> QED
    BY <1>2, <1>7, <1>8, <2>1, LoopGoesOn
<1>10. Stuck(q, 0) => Stuck(s, 0)
  <2>1. /\ SameLand(s.base, q.base) /\ q.base.alive = s.base.alive
        /\ q.base.rules = s.base.rules
    BY <1>2 DEF SameGame, SameLand
  <2> QED
    BY <1>2, <1>5, <2>1, StuckSame
<1> QED
  BY <1>9, <1>10

\* Submit fails only at a stuck worm after the one that was asked.
LEMMA AnsweredGoesOn ==
  ASSUME NEW s, Rests(s), NEW d \in Dir, CanAnswer(s, d), Answered(s, d) = {}
  PROVE  \E w \in Slot : \E u : Stuck(u, w) /\ w # 0
<1> DEFINE w == s.base.pending.slot
           m == s.base.pending.mask
           u == Taught(s, d)
<1>1. /\ w \in Slot /\ m \in Mask /\ s.config.enabled
      /\ Held(u) /\ Paid(u, w) /\ u.base.pending = NoDecision /\ d \in Exits(u, w)
  BY TaughtHolds
<1>2. \A x \in Take(u, w, m, d) : AdvanceSlots(x, w + 1) = {}
  <2>1. Answered(s, d)
          = UNION {{Finish(y) : y \in AdvanceSlots(x, w + 1)} : x \in Take(u, w, m, d)}
    BY <1>1 DEF Answered, Taught
  <2> HIDE DEF u
  <2>2. \A x \in Take(u, w, m, d) : {Finish(y) : y \in AdvanceSlots(x, w + 1)} = {}
    BY <2>1
  <2> QED
    BY <2>2
<1> HIDE DEF w, m, u
<1>3. PICK x \in Take(u, w, m, d) : TRUE
  BY <1>1, TakeExists
<1>4. Serving(x, w + 1)
  BY <1>1, <1>3, TakeServes
<1>5. w \in Nat /\ w + 1 \in 0 .. 4
  BY <1>1, EngineAssumption DEF Slot
<1>6. PICK v \in Slot : \E y : Stuck(y, v) /\ ~(v < w + 1)
  BY <1>2, <1>3, <1>4, <1>5, LoopGoesOn DEF Serving
<1>7. v # 0
  BY <1>5, <1>6
<1> QED
  BY <1>6, <1>7

\* Only the first worm may be a worm that is not WILD.
Solo == \A w \in Slot \ {0} : Kind[w] = "WILD"

\* A frozen worm cannot be taught, and has nothing to ask: fillWild gives a WILD one
\* a direction for every pattern but the last.
Complete ==
  \A w \in Slot : Frozen(w) => \A m \in Mask : ConfiguredRules(w)[m] # GETNEW

\* With extensions, the tables of the frozen worms are what the game started with.
AsConfigured == game.config.enabled => FrozenKept(InitialState, game.base)

\* Nothing teaches a frozen worm.
LEMMA FrozenStay == SpecExtended => []AsConfigured
<1>1. InitExtended => AsConfigured
  <2> SUFFICES ASSUME InitExtended PROVE AsConfigured
    OBVIOUS
  <2>1. PICK c \in Configs : game \in NewGame(c)
    BY DEF InitExtended
  <2>2. PICK x \in Draws(c.rates) : game = Created([c EXCEPT !.seed = x])
    BY <2>1 DEF NewGame
  <2>3. game.base = InitialState
    BY <2>2, SeededType, CreatedEffect
  <2> QED
    BY <2>3 DEF AsConfigured, FrozenKept
<1>2. ExtensionInv /\ AsConfigured /\ [NextExtended]_game => AsConfigured'
  <2> SUFFICES ASSUME ExtensionInv, AsConfigured, [NextExtended]_game
               PROVE  AsConfigured'
    OBVIOUS
  <2>1. CASE NextExtended
    <3> PICK s, t : s = game /\ t = game'
      OBVIOUS
    <3>1. \/ Rests(s) /\ Onward(s, t)
          \/ PlainGame(t)
      BY <2>1, StepsHold
    <3>2. s.config.enabled => FrozenKept(InitialState, s.base)
      BY DEF AsConfigured
    <3>3. t.config.enabled => FrozenKept(InitialState, t.base)
      BY <3>1, <3>2 DEF Onward, FrozenKept, PlainGame
    <3> QED
      BY <3>3 DEF AsConfigured
  <2>2. CASE UNCHANGED game
    BY <2>2 DEF AsConfigured
  <2> QED
    BY <2>1, <2>2
<1> QED
  BY <1>1, <1>2, AlwaysHolds, PTL DEF SpecExtended

\* Where no operation goes on, the first worm is stuck.
LEMMA RestsGoesOn ==
  ASSUME Solo, Complete, NEW s, Rests(s), FrozenKept(InitialState, s.base), ~s.base.over,
         CanAdvance(s.base) => Advanced(s) = {},
         \A d \in Dir : CanAnswer(s, d) => Answered(s, d) = {}
  PROVE  0 \in Slot /\ Stuck(s, 0)
<1>1. Held(s) /\ s.base \in State /\ 0 \in Slot
  BY HeldType DEF Rests
<1>2. CASE s.base.pending = NoDecision
  <2>1. Advanced(s) = {}
    BY <1>2 DEF CanAdvance
  <2>2. PICK w \in Slot : \E u : Stuck(u, w) /\ (w = 0 => Stuck(s, 0))
    BY <1>2, <2>1, AdvancedGoesOn
  <2>3. w = 0
    BY <2>2 DEF Solo, Stuck
  <2> QED
    BY <1>1, <2>2, <2>3
<1>3. ASSUME s.base.pending # NoDecision
      PROVE  FALSE
  <2> DEFINE w == s.base.pending.slot
  <2>1. s.base.rules[w][s.base.pending.mask] = GETNEW /\ Exits(s, w) # {}
    BY <1>3 DEF Rests, Asked
  <2>2. w \in Slot /\ s.base.pending.mask \in Mask
    <3>1. s.base.pending \in Decision
      BY <1>1 DEF State
    <3> QED
      BY <1>3, <3>1 DEF Decision
  <2>3. ~Frozen(w)
    <3>1. SUFFICES ASSUME Frozen(w) PROVE FALSE
      OBVIOUS
    <3>2. s.base.rules[w] = InitialState.rules[w]
      BY <2>2, <3>1 DEF FrozenKept
    <3>3. InitialState.rules[w] = ConfiguredRules(w)
      BY <2>2 DEF InitialState
    <3> QED
      BY <2>1, <2>2, <3>1, <3>2, <3>3 DEF Complete
  <2>4. PICK d \in Exits(s, w) : TRUE
    BY <2>1
  <2>5. d \in Dir /\ CanAnswer(s, d)
    BY <1>3, <2>3, <2>4, UsableAreExits DEF CanAnswer
  <2>6. Answered(s, d) = {}
    BY <2>5
  <2>7. \E v \in Slot : \E u : Stuck(u, v) /\ v # 0
    BY <2>5, <2>6, AnsweredGoesOn
  <2> QED
    BY <2>7 DEF Solo, Stuck
<1> QED
  BY <1>2, <1>3

\* A game whose other worms are WILD stalls for one reason: its first worm remembers,
\* for the pattern it sees, a direction that it does not have here.
\* DispatchMove, the loop of advanceSlots (extension.go).
THEOREM StallsForOneReason == (Solo /\ Complete) => (SpecExtended => []StallNeedsAnIllegalRule)
<1> SUFFICES ASSUME Solo, Complete PROVE SpecExtended => []StallNeedsAnIllegalRule
  OBVIOUS
<1>1. ExtensionInv /\ AsConfigured => StallNeedsAnIllegalRule
  <2> SUFFICES ASSUME ExtensionInv, AsConfigured, game.config.enabled,
                      ~game.base.over, ~CanMoveOn
               PROVE  \E w \in Slot :
                        /\ game.base.alive[w]
                        /\ Kind[w] # "WILD"
                        /\ game.base.rules[w][MaskAt(game.base, game.base.pos[w])]
                             \in Dir \ Exits(game, w)
    BY DEF StallNeedsAnIllegalRule
  <2>1. Rests(game)
    BY DEF ExtensionInv, PlainGame
  <2>2. FrozenKept(InitialState, game.base)
    BY DEF AsConfigured
  <2>3. /\ CanAdvance(game.base) => Advanced(game) = {}
        /\ \A d \in Dir : CanAnswer(game, d) => Answered(game, d) = {}
    BY DEF CanMoveOn
  <2>4. 0 \in Slot /\ Stuck(game, 0)
    BY <2>1, <2>2, <2>3, RestsGoesOn
  <2> QED
    BY <2>4 DEF Stuck
<1> QED
  BY <1>1, AlwaysHolds, FrozenStay, PTL

=============================================================================
