----------------------------- MODULE ReplayProofs -----------------------------
(***************************************************************************)
(* Machine-checked facts about EngineReplay: a replay that sees nothing    *)
(* but the events of a handler arrives where the handler did, on every     *)
(* board, for every number of worms and every choice of controllers.       *)
(***************************************************************************)
EXTENDS EngineReplay, WormsEngineProofs, NaturalsInduction, WellFoundedInduction

------------------------------------------------------------------------------
(* The loop over the events.                                               *)

\* Every set of numbers has a smallest one.
LEMMA LeastExists ==
  ASSUME NEW S \in SUBSET Nat, S # {}
  PROVE  \E x \in S : \A y \in S : x <= y
<1> DEFINE less == OpToRel(<, Nat)
<1>1. IsWellFoundedOn(less, Nat)
  BY NatLessThanWellFounded
<1>2. \A x, y \in Nat : y < x => <<y, x>> \in less
  BY DEF OpToRel
<1> HIDE DEF less
<1>3. PICK x \in S : \A y \in S : ~(<<y, x>> \in less)
  BY <1>1, WFMin
<1>4. \A y \in S : ~(y < x)
  BY <1>2, <1>3
<1> QED
  BY <1>4

\* What the loop has reached after each of the first n events.
Reaches(s, events, n, f) ==
  f = [k \in 0 .. n |-> IF k = 0 THEN {s} ELSE ReplayOn(f[k - 1], events[k])]

\* The loop reaches something after any number of events.
LEMMA ReachesExists ==
  ASSUME NEW s, NEW events, NEW n \in Nat
  PROVE  \E f : Reaches(s, events, n, f)
<1> DEFINE Bad == {k \in Nat : ~\E f : Reaches(s, events, k, f)}
<1>1. SUFFICES ASSUME Bad # {} PROVE FALSE
  OBVIOUS
<1>2. PICK m \in Bad : \A k \in Bad : m <= k
  BY <1>1, LeastExists
<1>3. CASE m = 0
  <2> DEFINE f == [k \in 0 .. 0 |-> {s}]
  <2>1. f = [k \in 0 .. 0 |-> IF k = 0 THEN {s} ELSE ReplayOn(f[k - 1], events[k])]
    OBVIOUS
  <2>2. Reaches(s, events, m, f)
    BY <1>3, <2>1 DEF Reaches
  <2> QED
    BY <2>2
<1>4. CASE m # 0
  <2>1. m \in Nat /\ m - 1 \in Nat /\ m - 1 \notin Bad
    BY <1>2, <1>4
  <2>2. PICK f : Reaches(s, events, m - 1, f)
    BY <2>1
  <2> DEFINE g == [k \in 0 .. m |-> IF k = m THEN ReplayOn(f[m - 1], events[m]) ELSE f[k]]
             h == [k \in 0 .. m |-> IF k = 0 THEN {s} ELSE ReplayOn(g[k - 1], events[k])]
  <2>3. \A k \in 0 .. m - 1 : f[k] = IF k = 0 THEN {s} ELSE ReplayOn(f[k - 1], events[k])
    BY <2>2 DEF Reaches
  <2>4. \A k \in 0 .. m : g[k] = h[k]
    <3> SUFFICES ASSUME NEW k \in 0 .. m PROVE g[k] = h[k]
      OBVIOUS
    <3>1. CASE k = m
      <4>1. g[m - 1] = f[m - 1]
        BY <1>4, <2>1
      <4>2. g[m] = ReplayOn(f[m - 1], events[m]) /\ h[m] = ReplayOn(g[m - 1], events[m])
        BY <1>4, <2>1
      <4> QED
        BY <3>1, <4>1, <4>2
    <3>2. CASE k # m /\ k # 0
      <4>1. g[k] = f[k] /\ g[k - 1] = f[k - 1] /\ h[k] = ReplayOn(g[k - 1], events[k])
        BY <2>1, <3>2
      <4>2. f[k] = ReplayOn(f[k - 1], events[k])
        BY <2>1, <2>3, <3>2
      <4> QED
        BY <4>1, <4>2
    <3>3. CASE k # m /\ k = 0
      <4>1. g[0] = f[0] /\ h[0] = {s}
        BY <2>1, <3>3
      <4>2. f[0] = {s}
        BY <2>1, <2>3, <3>3
      <4> QED
        BY <3>3, <4>1, <4>2
    <3> QED
      BY <3>1, <3>2, <3>3
  <2>5. g = [k \in 0 .. m |-> g[k]] /\ h = [k \in 0 .. m |-> h[k]]
    OBVIOUS
  <2>6. g = h
    <3> HIDE DEF g, h
    <3> QED
      BY <2>4, <2>5
  <2>7. Reaches(s, events, m, g)
    BY <2>6 DEF Reaches
  <2> QED
    BY <2>7
<1> QED
  BY <1>3, <1>4

\* The first n events are those of a longer list.
Begins(events, longer, n) == \A k \in 1 .. n : events[k] = longer[k]

\* It depends on the events so far only.
LEMMA ReachesAgree ==
  ASSUME NEW s, NEW events, NEW longer, NEW n \in Nat, NEW o \in Nat, n <= o,
         Begins(events, longer, n),
         NEW f, Reaches(s, events, n, f), NEW g, Reaches(s, longer, o, g)
  PROVE  f[n] = g[n]
<1> DEFINE Bad == {k \in 0 .. n : f[k] # g[k]}
<1>1. SUFFICES ASSUME Bad # {} PROVE FALSE
  <2>1. n \in 0 .. n
    OBVIOUS
  <2> QED
    BY <2>1
<1>2. PICK m \in Bad : \A k \in Bad : m <= k
  <2>1. Bad \in SUBSET Nat
    OBVIOUS
  <2> HIDE DEF Bad
  <2> QED
    BY <1>1, <2>1, LeastExists
<1>3. f[m] = IF m = 0 THEN {s} ELSE ReplayOn(f[m - 1], events[m])
  BY DEF Reaches
<1>4. g[m] = IF m = 0 THEN {s} ELSE ReplayOn(g[m - 1], longer[m])
  <2>1. m \in 0 .. o
    OBVIOUS
  <2> HIDE DEF Bad
  <2> QED
    BY <2>1 DEF Reaches
<1>5. m # 0
  BY <1>2, <1>3, <1>4
<1>6. m - 1 \in 0 .. n /\ m - 1 \notin Bad /\ m \in 1 .. n
  BY <1>2, <1>5
<1>7. f[m - 1] = g[m - 1] /\ events[m] = longer[m]
  BY <1>6 DEF Begins
<1>8. f[m] = g[m]
  BY <1>3, <1>4, <1>5, <1>7
<1> QED
  BY <1>2, <1>8

\* Replay is what the loop has reached after all of them.
LEMMA ReplayReaches ==
  ASSUME NEW s, NEW events, NEW n \in Nat, n = Len(events), NEW f, Reaches(s, events, n, f)
  PROVE  Replay(s, events) = f[n]
<1> DEFINE a == CHOOSE g : Reaches(s, events, n, g)
<1>1. Replay(s, events) = a[n]
  BY DEF Replay, Reaches
<1>2. Reaches(s, events, n, a)
  OBVIOUS
<1> HIDE DEF a
<1>3. f[n] = a[n]
  <2>1. Begins(events, events, n)
    BY DEF Begins
  <2> QED
    BY <1>2, <2>1, ReachesAgree
<1> QED
  BY <1>1, <1>3

\* No event leads nowhere.
LEMMA ReplayNothing ==
  ASSUME NEW s
  PROVE  Replay(s, << >>) = {s}
<1>1. PICK f : Reaches(s, << >>, 0, f)
  BY ReachesExists
<1>2. f[0] = {s}
  BY <1>1 DEF Reaches
<1> QED
  BY <1>1, <1>2, ReplayReaches

\* One more event is applied to what the others have reached.
LEMMA ReplayOneMore ==
  ASSUME NEW s, NEW events, NEW more, NEW n \in Nat, NEW o \in Nat, o = n + 1,
         Len(events) = n, Len(more) = o, Begins(events, more, n)
  PROVE  Replay(s, more) = ReplayOn(Replay(s, events), more[o])
<1>1. PICK f : Reaches(s, events, n, f)
  BY ReachesExists
<1>2. PICK g : Reaches(s, more, o, g)
  BY ReachesExists
<1>3. Replay(s, events) = f[n] /\ Replay(s, more) = g[o]
  BY <1>1, <1>2, ReplayReaches
<1>4. f[n] = g[n]
  <2>1. n <= o
    OBVIOUS
  <2> QED
    BY <1>1, <1>2, <2>1, ReachesAgree
<1>5. g[o] = ReplayOn(g[o - 1], more[o])
  <2>1. o \in 0 .. o /\ o # 0
    OBVIOUS
  <2> QED
    BY <1>2, <2>1 DEF Reaches
<1>6. o - 1 = n
  OBVIOUS
<1> QED
  BY <1>3, <1>4, <1>5, <1>6

\* The same of an event that is appended.
LEMMA ReplayAppend ==
  ASSUME NEW s, NEW events \in Seq(Event), NEW e
  PROVE  Replay(s, Append(events, e)) = ReplayOn(Replay(s, events), e)
<1> DEFINE n == Len(events)
           more == Append(events, e)
<1>1. /\ n \in Nat /\ n + 1 \in Nat /\ Len(more) = n + 1 /\ more[n + 1] = e
      /\ Begins(events, more, n)
  BY DEF Begins
<1> HIDE DEF more
<1>2. Replay(s, more) = ReplayOn(Replay(s, events), more[n + 1])
  BY <1>1, ReplayOneMore
<1> QED
  BY <1>1, <1>2 DEF more

------------------------------------------------------------------------------
(* One event.                                                              *)

\* The replica has every part of the state but where the worms are, which an event
\* tells late, and where the scan is, which it does not always tell.
SameParts(r, s) ==
  /\ r.tick = s.tick /\ r.round = s.round /\ r.alive = s.alive /\ r.score = s.score
  /\ r.rules = s.rules /\ r.trails = s.trails /\ r.owner = s.owner
  /\ r.cached = s.cached /\ r.pending = s.pending /\ r.over = s.over

Mirrors(r, s) ==
  r \in State /\ r.events = << >> /\ r.seq = s.seq /\ SameParts(r, s)

\* The events of s lead from b to r alone, and r mirrors s.
Told(b, s, r) == Replay(b, s.events) = {r} /\ Mirrors(r, s)

Numbered(t) == [t EXCEPT !.seq = @ + 1]

\* The number of the events is a part of its own.
LEMMA NumberedIs ==
  ASSUME NEW t \in State
  PROVE  LET u == Numbered(t) IN
         /\ u \in State /\ SameGame(t, u) /\ u.events = t.events /\ u.seq = t.seq + 1
<1>1. \A n \in Nat : LET u == [t EXCEPT !.seq = n] IN
        /\ u \in State /\ SameGame(t, u) /\ u.events = t.events /\ u.seq = n
  BY DEF State, SameGame
<1>2. t.seq + 1 \in Nat
  BY DEF State
<1> QED
  BY <1>1, <1>2 DEF Numbered

\* emit appends its event and counts it.
LEMMA EmitAppends ==
  ASSUME NEW s \in State, NEW type, NEW body
  PROVE  /\ Emit(s, type, body).seq = s.seq + 1
         /\ Emit(s, type, body).events
              = Append(s.events, [type |-> type, tick |-> s.tick,
                                  round |-> s.round, body |-> body])
<1>1. \A q, evs : LET t == [s EXCEPT !.seq = q, !.events = evs] IN
        t.seq = q /\ t.events = evs
  BY DEF State
<1> QED
  BY <1>1 DEF Emit

\* A replay of what is emitted applies the new event to what it has reached.
LEMMA EmitTells ==
  ASSUME NEW b, NEW s \in State, NEW type, NEW body, NEW r, NEW t,
         Replay(b, s.events) = {r},
         ReplayEvent(r, [type |-> type, tick |-> s.tick, round |-> s.round,
                         body |-> body]) = {t}
  PROVE  Replay(b, Emit(s, type, body).events) = {t}
<1> DEFINE e == [type |-> type, tick |-> s.tick, round |-> s.round, body |-> body]
<1>1. Emit(s, type, body).events = Append(s.events, e)
  BY EmitAppends
<1>2. s.events \in Seq(Event)
  BY DEF State
<1> HIDE DEF e
<1>3. Replay(b, Append(s.events, e)) = ReplayOn({r}, e)
  <2>1. Replay(b, Append(s.events, e)) = ReplayOn(Replay(b, s.events), e)
    BY <1>2, ReplayAppend
  <2> QED
    BY <2>1
<1>4. ReplayOn({r}, e) = ReplayEvent(r, e)
  BY DEF ReplayOn
<1>5. ReplayEvent(r, e) = {t}
  BY DEF e
<1> QED
  BY <1>1, <1>3, <1>4, <1>5

\* Which handler of applyReplayEvent an event has.
LEMMA EventHandler ==
  ASSUME NEW r, NEW e
  PROVE  /\ e.type = "trail_claimed" =>
              ReplayEvent(r, e) = {Numbered(t) : t \in ReplayTrail(r, e)}
         /\ e.type = "territory_color_changed" =>
              ReplayEvent(r, e) = {Numbered(t) : t \in ReplayColor(r, e)}
         /\ e.type = "territory_captured" =>
              ReplayEvent(r, e) = {Numbered(t) : t \in ReplayCapture(r, e)}
         /\ e.type = "worm_moved" =>
              ReplayEvent(r, e) = {Numbered(t) : t \in ReplayMove(r, e)}
         /\ e.type \in {"worm_died", "worm_blocked"} =>
              ReplayEvent(r, e) = {Numbered(t) : t \in ReplayDeath(r, e)}
         /\ e.type = "rule_learned" =>
              ReplayEvent(r, e) = {Numbered(t) : t \in ReplayLearned(r, e)}
         /\ e.type = "rule_used" =>
              ReplayEvent(r, e) = {Numbered(t) : t \in {q \in {r} : OnTime(r, e)}}
         /\ e.type = "decision_pending" =>
              ReplayEvent(r, e) = {Numbered(t) : t \in ReplayPending(r, e)}
         /\ e.type = "round_completed" =>
              ReplayEvent(r, e) = {Numbered(t) : t \in ReplayRound(r, e)}
         /\ e.type = "game_over" =>
              ReplayEvent(r, e)
                = {Numbered(t) : t \in {q \in {[r EXCEPT !.over = TRUE]} : OnTime(r, e)}}
BY DEF ReplayEvent, Numbered

\* An event is told well if replaying it makes the change that was made before it was
\* emitted.
LEMMA EventTold ==
  ASSUME NEW b, NEW s \in State, NEW r, Told(b, s, r),
         NEW u \in State, u.events = s.events, u.seq = s.seq,
         NEW type \in EventType, NEW body \in EventBody,
         NEW q \in State, q.events = r.events, q.seq = r.seq, SameParts(q, u),
         ReplayEvent(r, [type |-> type, tick |-> u.tick, round |-> u.round,
                         body |-> body]) = {Numbered(q)}
  PROVE  /\ Told(b, Emit(u, type, body), Numbered(q))
         /\ Numbered(q).pos = q.pos /\ Numbered(q).slot = q.slot
<1> DEFINE t == Emit(u, type, body)
           n == Numbered(q)
<1>1. n \in State /\ SameGame(q, n) /\ n.events = q.events /\ n.seq = q.seq + 1
  BY NumberedIs
<1>2. t \in State /\ SameGame(u, t) /\ t.seq = u.seq + 1
  BY EmitType, EmitAppends
<1>3. Replay(b, t.events) = {n}
  BY EmitTells DEF Told
<1> HIDE DEF t, n
<1>4. Mirrors(n, t)
  BY <1>1, <1>2 DEF Told, Mirrors, SameParts, SameGame
<1>5. n.pos = q.pos /\ n.slot = q.slot
  BY <1>1 DEF SameGame
<1> QED
  BY <1>3, <1>4, <1>5 DEF Told, t, n

\* kill.
LEMMA DeathTold ==
  ASSUME NEW b, NEW s \in State, NEW r, Told(b, s, r), r.pos = s.pos,
         NEW w \in Slot, NEW cause \in {"worm_died", "worm_blocked"}
  PROVE  \E n : Told(b, Kill(s, w, cause), n) /\ n.pos = s.pos /\ n.slot = r.slot
<1> DEFINE body == [worm |-> w, at |-> s.pos[w]]
           u == [s EXCEPT !.alive[w] = FALSE]
           q == [r EXCEPT !.alive[w] = FALSE]
           e == [type |-> cause, tick |-> u.tick, round |-> u.round, body |-> body]
<1>1. r \in State /\ r.tick = s.tick /\ SameParts(r, s)
  BY DEF Told, Mirrors, SameParts
<1>2. u \in State /\ u.events = s.events /\ u.seq = s.seq /\ u.tick = s.tick
  BY DEF State
<1>3. /\ q \in State /\ q.events = r.events /\ q.seq = r.seq
      /\ q.pos = r.pos /\ q.slot = r.slot
  BY <1>1 DEF State
<1>4. SameParts(q, u)
  BY <1>1 DEF SameParts, State
<1>5. cause \in EventType /\ body \in EventBody
  BY DEF EventType, EventBody, State
<1>6. ReplayDeath(r, e) = {q}
  <2>1. OnTime(r, e) /\ r.pos[w] = e.body.at /\ e.body.worm = w
    BY <1>1, <1>2 DEF OnTime
  <2> HIDE DEF e
  <2> QED
    BY <2>1 DEF ReplayDeath
<1>7. ReplayEvent(r, e) = {Numbered(q)}
  <2>1. e.type \in {"worm_died", "worm_blocked"}
    OBVIOUS
  <2> HIDE DEF e, q
  <2> QED
    BY <1>6, <2>1, EventHandler
<1> HIDE DEF q, u, body
<1>8. /\ Told(b, Emit(u, cause, body), Numbered(q))
      /\ Numbered(q).pos = q.pos /\ Numbered(q).slot = q.slot
  BY <1>2, <1>3, <1>4, <1>5, <1>7, EventTold
<1>9. Kill(s, w, cause) = Emit(u, cause, body)
  BY DEF Kill, u, body
<1> QED
  BY <1>3, <1>8, <1>9

\* recolorCapture: a dot that is owned is complete, so that nothing is left to tell.
LEMMA RecolorTold ==
  ASSUME NEW b, NEW s \in State, NEW r, Told(b, s, r), NEW w \in Slot, NEW p \in Point,
         s.owner[p] # None => s.cached[p] = Dir
  PROVE  \E n : Told(b, Recolor(s, w, p), n) /\ n.pos = r.pos /\ n.slot = r.slot
<1> DEFINE m == MaskAt(s, p)
           u == [s EXCEPT !.cached[p] = m]
           v == [u EXCEPT !.owner[p] = w, !.score[w] = @ + 1]
           body == [worm |-> w, at |-> p, mask |-> m]
           x == [r EXCEPT !.cached[p] = m]
           y == [r EXCEPT !.cached[p] = m, !.owner[p] = w, !.score[w] = @ + 1]
<1>1. r \in State /\ r.tick = s.tick /\ SameParts(r, s)
  BY DEF Told, Mirrors, SameParts
<1>2. m \in Mask
  BY MaskType
<1>3. body \in EventBody /\ body.worm = w /\ body.at = p /\ body.mask = m
  BY <1>2 DEF EventBody
<1> HIDE DEF m, body
<1>4. /\ u \in State /\ u.events = s.events /\ u.seq = s.seq /\ u.tick = s.tick
      /\ u.cached = [s.cached EXCEPT ![p] = m] /\ u.owner = s.owner /\ u.score = s.score
  BY <1>2 DEF State
<1>5. /\ x \in State /\ x.events = r.events /\ x.seq = r.seq
      /\ x.pos = r.pos /\ x.slot = r.slot
  BY <1>1, <1>2 DEF State
<1>6. SameParts(x, u)
  BY <1>1 DEF SameParts, State
<1>7. CASE s.owner[p] # None
  <2>1. Recolor(s, w, p) = u
    BY <1>7 DEF Recolor, u, m
  <2>2. m = Dir
    BY <1>7 DEF m, MaskAt, TrailMask
  <2>3. u.cached = s.cached
    BY <1>4, <1>7, <2>2 DEF State
  <2>4. SameParts(r, u)
    BY <1>1, <2>3 DEF SameParts, State
  <2> HIDE DEF u
  <2>5. Told(b, u, r)
    BY <1>1, <1>4, <2>4 DEF Told, Mirrors
  <2> QED
    BY <2>1, <2>5
<1>8. CASE s.owner[p] = None /\ m # Dir
  <2> DEFINE e == [type |-> "territory_color_changed", tick |-> u.tick,
                   round |-> u.round, body |-> body]
  <2>1. Recolor(s, w, p) = Emit(u, "territory_color_changed", body)
    BY <1>8 DEF Recolor, u, m, body
  <2>2. ReplayColor(r, e) = {x}
    <3>1. OnTime(r, e) /\ e.body = body
      BY <1>1, <1>4 DEF OnTime
    <3> HIDE DEF e
    <3> QED
      BY <1>3, <3>1 DEF ReplayColor
  <2>3. ReplayEvent(r, e) = {Numbered(x)}
    <3>1. e.type = "territory_color_changed"
      OBVIOUS
    <3> HIDE DEF e, x
    <3> QED
      BY <2>2, <3>1, EventHandler
  <2>4. "territory_color_changed" \in EventType
    BY DEF EventType
  <2> HIDE DEF x, u
  <2>5. /\ Told(b, Emit(u, "territory_color_changed", body), Numbered(x))
        /\ Numbered(x).pos = x.pos /\ Numbered(x).slot = x.slot
    BY <1>3, <1>4, <1>5, <1>6, <2>3, <2>4, EventTold
  <2> QED
    BY <1>5, <2>1, <2>5
<1>9. CASE s.owner[p] = None /\ m = Dir
  <2> DEFINE e == [type |-> "territory_captured", tick |-> v.tick,
                   round |-> v.round, body |-> body]
             C(t, f, g) == [t EXCEPT !.owner = f, !.score = g]
             D(t, h, f, g) == [t EXCEPT !.cached = h, !.owner = f, !.score = g]
             f1 == [s.owner EXCEPT ![p] = w]
             g1 == [s.score EXCEPT ![w] = s.score[w] + 1]
             h1 == [s.cached EXCEPT ![p] = m]
  <2>1. Recolor(s, w, p) = Emit(v, "territory_captured", body)
    BY <1>9 DEF Recolor, v, u, m, body
  <2>2. f1 \in [Point -> Slot \cup {None}] /\ g1 \in [Slot -> Nat] /\ h1 \in [Point -> Mask]
    BY <1>2 DEF State
  <2>3. v = C(u, f1, g1)
    BY <1>4
  <2>4. y = D(r, h1, f1, g1)
    BY <1>1 DEF SameParts
  <2> HIDE DEF f1, g1, h1, u
  <2>5. \A f \in [Point -> Slot \cup {None}], g \in [Slot -> Nat] :
          /\ C(u, f, g) \in State /\ C(u, f, g).events = u.events
          /\ C(u, f, g).seq = u.seq /\ C(u, f, g).tick = u.tick
          /\ C(u, f, g).owner = f /\ C(u, f, g).score = g
          /\ C(u, f, g).cached = u.cached /\ C(u, f, g).round = u.round
          /\ C(u, f, g).alive = u.alive /\ C(u, f, g).rules = u.rules
          /\ C(u, f, g).trails = u.trails /\ C(u, f, g).pending = u.pending
          /\ C(u, f, g).over = u.over
    BY <1>4 DEF State
  <2>6. \A h \in [Point -> Mask], f \in [Point -> Slot \cup {None}], g \in [Slot -> Nat] :
          LET t == D(r, h, f, g) IN
          /\ t \in State /\ t.events = r.events /\ t.seq = r.seq /\ t.tick = r.tick
          /\ t.owner = f /\ t.score = g /\ t.cached = h /\ t.round = r.round
          /\ t.alive = r.alive /\ t.rules = r.rules /\ t.trails = r.trails
          /\ t.pending = r.pending /\ t.over = r.over /\ t.pos = r.pos /\ t.slot = r.slot
    <3> SUFFICES ASSUME NEW h \in [Point -> Mask], NEW f \in [Point -> Slot \cup {None}],
                        NEW g \in [Slot -> Nat]
                 PROVE  LET t == D(r, h, f, g) IN
          /\ t \in State /\ t.events = r.events /\ t.seq = r.seq /\ t.tick = r.tick
          /\ t.owner = f /\ t.score = g /\ t.cached = h /\ t.round = r.round
          /\ t.alive = r.alive /\ t.rules = r.rules /\ t.trails = r.trails
          /\ t.pending = r.pending /\ t.over = r.over /\ t.pos = r.pos /\ t.slot = r.slot
      OBVIOUS
    <3>1. r \in State
      BY <1>1
    <3>2. D(r, h, f, g) \in State
      BY <3>1 DEF State
    <3>3. LET t == D(r, h, f, g) IN
          /\ t.events = r.events /\ t.seq = r.seq /\ t.tick = r.tick
          /\ t.owner = f /\ t.score = g /\ t.cached = h /\ t.round = r.round
          /\ t.alive = r.alive /\ t.rules = r.rules /\ t.trails = r.trails
          /\ t.pending = r.pending /\ t.over = r.over /\ t.pos = r.pos /\ t.slot = r.slot
      BY <3>1 DEF State
    <3> QED
      BY <3>2, <3>3
  <2>7. /\ v \in State /\ v.events = u.events /\ v.seq = u.seq /\ v.tick = u.tick
        /\ v.owner = f1 /\ v.score = g1 /\ v.cached = u.cached /\ v.round = u.round
        /\ v.alive = u.alive /\ v.rules = u.rules /\ v.trails = u.trails
        /\ v.pending = u.pending /\ v.over = u.over
    <3> HIDE DEF v, C
    <3> QED
      BY <2>2, <2>3, <2>5
  <2>8. /\ y \in State /\ y.events = r.events /\ y.seq = r.seq /\ y.tick = r.tick
        /\ y.owner = f1 /\ y.score = g1 /\ y.cached = h1 /\ y.round = r.round
        /\ y.alive = r.alive /\ y.rules = r.rules /\ y.trails = r.trails
        /\ y.pending = r.pending /\ y.over = r.over /\ y.pos = r.pos /\ y.slot = r.slot
    <3> HIDE DEF y, D
    <3> QED
      BY <2>2, <2>4, <2>6
  <2>9. ReplayCapture(r, e) = {y}
    <3>1. OnTime(r, e) /\ e.body = body
      BY <1>1, <1>4, <2>7 DEF OnTime
    <3> HIDE DEF e
    <3> QED
      BY <1>3, <3>1 DEF ReplayCapture
  <2>10. ReplayEvent(r, e) = {Numbered(y)}
    <3>1. e.type = "territory_captured"
      OBVIOUS
    <3> HIDE DEF e, y
    <3> QED
      BY <2>9, <3>1, EventHandler
  <2>11. "territory_captured" \in EventType
    BY DEF EventType
  <2> HIDE DEF v, y
  <2>12. SameParts(y, v)
    <3>1. /\ u.round = s.round /\ u.alive = s.alive /\ u.rules = s.rules
          /\ u.trails = s.trails /\ u.pending = s.pending /\ u.over = s.over
          /\ u.cached = h1
      BY DEF u, h1, State
    <3> QED
      BY <1>1, <1>4, <2>7, <2>8, <3>1 DEF SameParts
  <2>13. /\ Told(b, Emit(v, "territory_captured", body), Numbered(y))
         /\ Numbered(y).pos = y.pos /\ Numbered(y).slot = y.slot
    BY <1>3, <1>4, <2>7, <2>8, <2>10, <2>11, <2>12, EventTold
  <2> QED
    BY <2>1, <2>8, <2>13
<1> QED
  BY <1>7, <1>8, <1>9

\* What the events tell depends on the parts only.
LEMMA ToldSame ==
  ASSUME NEW b, NEW s, NEW t, NEW r, Told(b, s, r),
         t.events = s.events, t.seq = s.seq, SameParts(s, t)
  PROVE  Told(b, t, r)
BY DEF Told, Mirrors, SameParts

\* The first half of Step.
LEMMA ClaimTold ==
  ASSUME NEW b, NEW s \in State, NEW r, Told(b, s, r), NEW w \in Slot, NEW d \in Dir,
         CanStep(s, w, d)
  PROVE  \E n : Told(b, Claimed(s, w, d), n) /\ n.pos = r.pos /\ n.slot = r.slot
<1> DEFINE from == s.pos[w]
           to == Neighbor(from, d)
           edge == {from, to}
           f == [s.trails EXCEPT ![edge] = w]
           C(t, n, g) == [t EXCEPT !.tick = n, !.trails = g]
           u == [s EXCEPT !.tick = @ + 1, !.trails[edge] = w]
           q == [r EXCEPT !.tick = @ + 1, !.trails[edge] = w]
           body == [worm |-> w, at |-> from, to |-> to]
           e == [type |-> "trail_claimed", tick |-> u.tick, round |-> u.round,
                 body |-> body]
<1>1. r \in State /\ r.tick = s.tick /\ r.trails = s.trails /\ SameParts(r, s)
  BY DEF Told, Mirrors, SameParts
<1>2. from \in Point /\ to \in Point /\ edge \in Edge
  BY StepEdge
<1>3. f \in [Edge -> Slot \cup {None}] /\ s.tick + 1 \in Nat
  BY <1>2 DEF State
<1>4. s.trails[edge] = None
  BY DEF CanStep
<1>5. body \in EventBody /\ body.worm = w /\ {body.at, body.to} = edge
  BY <1>2 DEF EventBody
<1> HIDE DEF edge, f
<1>6. u = C(s, s.tick + 1, f) /\ q = C(r, s.tick + 1, f)
  BY <1>1 DEF f
<1>7. ASSUME NEW t \in State, NEW n \in Nat, NEW g \in [Edge -> Slot \cup {None}]
      PROVE  LET c == C(t, n, g) IN
             /\ c \in State /\ c.events = t.events /\ c.seq = t.seq /\ c.tick = n
             /\ c.trails = g /\ c.round = t.round /\ c.alive = t.alive
             /\ c.score = t.score /\ c.rules = t.rules /\ c.owner = t.owner
             /\ c.cached = t.cached /\ c.pending = t.pending /\ c.over = t.over
             /\ c.pos = t.pos /\ c.slot = t.slot
  <2>1. C(t, n, g) \in State
    BY DEF State
  <2> QED
    BY <2>1 DEF State
<1> HIDE DEF C, u, q
<1>8. /\ u \in State /\ u.events = s.events /\ u.seq = s.seq /\ u.tick = s.tick + 1
      /\ u.trails = f /\ u.round = s.round /\ u.alive = s.alive
      /\ u.score = s.score /\ u.rules = s.rules /\ u.owner = s.owner
      /\ u.cached = s.cached /\ u.pending = s.pending /\ u.over = s.over
  BY <1>3, <1>6, <1>7
<1>9. /\ q \in State /\ q.events = r.events /\ q.seq = r.seq /\ q.tick = s.tick + 1
      /\ q.trails = f /\ q.round = r.round /\ q.alive = r.alive
      /\ q.score = r.score /\ q.rules = r.rules /\ q.owner = r.owner
      /\ q.cached = r.cached /\ q.pending = r.pending /\ q.over = r.over
      /\ q.pos = r.pos /\ q.slot = r.slot
  BY <1>1, <1>3, <1>6, <1>7
<1>10. SameParts(q, u)
  BY <1>1, <1>8, <1>9 DEF SameParts
<1>11. ReplayTrail(r, e) = {q}
  <2>1. e.tick = r.tick + 1 /\ e.body = body /\ r.trails[edge] = None
    BY <1>1, <1>4, <1>8
  <2>2. q = [r EXCEPT !.tick = @ + 1, !.trails[edge] = w]
    BY DEF q
  <2> HIDE DEF e, body
  <2> QED
    BY <1>5, <2>1, <2>2 DEF ReplayTrail
<1>12. ReplayEvent(r, e) = {Numbered(q)}
  <2>1. e.type = "trail_claimed"
    OBVIOUS
  <2> HIDE DEF e
  <2> QED
    BY <1>11, <2>1, EventHandler
<1>13. "trail_claimed" \in EventType
  BY DEF EventType
<1>14. Claimed(s, w, d) = Emit(u, "trail_claimed", body)
  BY DEF Claimed, u, edge
<1> HIDE DEF body
<1>15. /\ Told(b, Emit(u, "trail_claimed", body), Numbered(q))
       /\ Numbered(q).pos = q.pos /\ Numbered(q).slot = q.slot
  BY <1>5, <1>8, <1>9, <1>10, <1>12, <1>13, EventTold
<1> QED
  BY <1>9, <1>14, <1>15

\* The second half: the worm is told to be where it went, from where it was.
LEMMA MoveTold ==
  ASSUME NEW b, NEW s \in State, NEW r, Told(b, s, r), NEW w \in Slot, NEW d \in Dir,
         s.alive[w], NEW from \in Point, NEW to \in Point, to = Neighbor(from, d),
         r.pos[w] = from, s.pos = [r.pos EXCEPT ![w] = to]
  PROVE  \E n : /\ Told(b, Emit(s, "worm_moved", [worm |-> w, at |-> from, to |-> to]), n)
                /\ n.pos = s.pos /\ n.slot = r.slot
<1> DEFINE body == [worm |-> w, at |-> from, to |-> to]
           q == [r EXCEPT !.pos[w] = to]
           e == [type |-> "worm_moved", tick |-> s.tick, round |-> s.round, body |-> body]
<1>1. r \in State /\ r.tick = s.tick /\ r.alive = s.alive /\ SameParts(r, s)
  BY DEF Told, Mirrors, SameParts
<1>2. body \in EventBody /\ body.worm = w /\ body.at = from /\ body.to = to
  BY DEF EventBody
<1>3. /\ q \in State /\ q.events = r.events /\ q.seq = r.seq
      /\ q.pos = s.pos /\ q.slot = r.slot
  BY <1>1 DEF State
<1>4. SameParts(q, s)
  BY <1>1 DEF SameParts, State
<1>5. ReplayMove(r, e) = {q}
  <2>1. OnTime(r, e) /\ e.body = body
    BY <1>1 DEF OnTime
  <2> HIDE DEF e, body
  <2> QED
    BY <1>1, <1>2, <2>1 DEF ReplayMove
<1>6. ReplayEvent(r, e) = {Numbered(q)}
  <2>1. e.type = "worm_moved"
    OBVIOUS
  <2> HIDE DEF e, q
  <2> QED
    BY <1>5, <2>1, EventHandler
<1>7. "worm_moved" \in EventType
  BY DEF EventType
<1> HIDE DEF q, body
<1>8. /\ Told(b, Emit(s, "worm_moved", body), Numbered(q))
      /\ Numbered(q).pos = q.pos /\ Numbered(q).slot = q.slot
  BY <1>2, <1>3, <1>4, <1>6, <1>7, EventTold
<1> QED
  BY <1>3, <1>8 DEF body

\* useRule.
LEMMA UseTold ==
  ASSUME NEW b, NEW s \in State, NEW r, Told(b, s, r), NEW w \in Slot, NEW m \in Mask,
         NEW d \in Dir
  PROVE  \E n : Told(b, UseRule(s, w, m, d), n) /\ n.pos = r.pos /\ n.slot = r.slot
<1> DEFINE body == [worm |-> w, mask |-> m, action |-> d]
           e == [type |-> "rule_used", tick |-> s.tick, round |-> s.round, body |-> body]
<1>1. /\ r \in State /\ r.tick = s.tick /\ r.seq = s.seq /\ SameParts(r, s)
  BY DEF Told, Mirrors, SameParts
<1>2. body \in EventBody /\ "rule_used" \in EventType
  BY DEF EventBody, EventType
<1>3. ReplayEvent(r, e) = {Numbered(r)}
  <2>1. OnTime(r, e) /\ e.type = "rule_used"
    BY <1>1 DEF OnTime
  <2> HIDE DEF e
  <2>2. ReplayEvent(r, e) = {Numbered(t) : t \in {q \in {r} : OnTime(r, e)}}
    BY <2>1, EventHandler
  <2> QED
    BY <2>1, <2>2
<1> HIDE DEF body
<1>4. /\ Told(b, Emit(s, "rule_used", body), Numbered(r))
      /\ Numbered(r).pos = r.pos /\ Numbered(r).slot = r.slot
  BY <1>1, <1>2, <1>3, EventTold
<1> QED
  BY <1>4 DEF UseRule, body

\* A lesson that answers no question.
LEMMA LearnTold ==
  ASSUME NEW b, NEW s \in State, NEW r, Told(b, s, r), s.pending = NoDecision,
         NEW w \in Slot, NEW m \in Mask, NEW d \in Dir
  PROVE  \E n : Told(b, Learn(s, w, m, d), n) /\ n.pos = r.pos /\ n.slot = r.slot
<1> DEFINE f == [s.rules EXCEPT ![w][m] = d]
           C(t, g) == [t EXCEPT !.rules = g]
           body == [worm |-> w, mask |-> m, action |-> d]
           u == [s EXCEPT !.rules[w][m] = d]
           q == [r EXCEPT !.rules[w][m] = d]
           e == [type |-> "rule_learned", tick |-> u.tick, round |-> u.round, body |-> body]
<1>1. /\ r \in State /\ r.tick = s.tick /\ r.rules = s.rules /\ r.pending = NoDecision
      /\ SameParts(r, s)
  BY DEF Told, Mirrors, SameParts
<1>2. f \in [Slot -> [Mask -> Action]]
  BY DEF State, Action
<1>3. /\ body \in EventBody /\ "rule_learned" \in EventType
      /\ body.worm = w /\ body.mask = m /\ body.action = d
  BY DEF EventBody, EventType
<1>4. u = C(s, f) /\ q = C(r, f)
  BY <1>1
<1> HIDE DEF f
<1>5. ASSUME NEW t \in State, NEW g \in [Slot -> [Mask -> Action]]
      PROVE  LET c == C(t, g) IN
             /\ c \in State /\ c.events = t.events /\ c.seq = t.seq /\ c.tick = t.tick
             /\ c.trails = t.trails /\ c.round = t.round /\ c.alive = t.alive
             /\ c.score = t.score /\ c.rules = g /\ c.owner = t.owner
             /\ c.cached = t.cached /\ c.pending = t.pending /\ c.over = t.over
             /\ c.pos = t.pos /\ c.slot = t.slot
  BY DEF State
<1> HIDE DEF C, u, q
<1>6. /\ u \in State /\ u.events = s.events /\ u.seq = s.seq /\ u.tick = s.tick
      /\ SameParts(q, u)
      /\ q \in State /\ q.events = r.events /\ q.seq = r.seq
      /\ q.pos = r.pos /\ q.slot = r.slot
  BY <1>1, <1>2, <1>4, <1>5 DEF SameParts
<1>7. ReplayLearned(r, e) = {q}
  <2>1. OnTime(r, e) /\ e.body = body
    BY <1>1, <1>6 DEF OnTime
  <2>2. q = [r EXCEPT !.rules[w][m] = d]
    BY DEF q
  <2> HIDE DEF e, body
  <2> QED
    BY <1>1, <1>3, <2>1, <2>2 DEF ReplayLearned
<1>8. ReplayEvent(r, e) = {Numbered(q)}
  <2>1. e.type = "rule_learned"
    OBVIOUS
  <2> HIDE DEF e
  <2> QED
    BY <1>7, <2>1, EventHandler
<1>9. Learn(s, w, m, d) = Emit(u, "rule_learned", body)
  BY DEF Learn, u
<1> HIDE DEF body
<1>10. /\ Told(b, Emit(u, "rule_learned", body), Numbered(q))
       /\ Numbered(q).pos = q.pos /\ Numbered(q).slot = q.slot
  BY <1>3, <1>6, <1>8, EventTold
<1> QED
  BY <1>6, <1>9, <1>10

\* The state in which Submit follows the answer.
Answered(s, w, m, d) ==
  [Learn(s, w, m, d) EXCEPT !.pending = NoDecision, !.slot = w + 1]

\* A lesson that answers the question: the replay takes it back as Submit does.
LEMMA AnswerTold ==
  ASSUME NEW b, NEW s \in State, NEW r, Told(b, s, r), s.pending # NoDecision,
         NEW w \in Slot, w = s.pending.slot, NEW m \in Mask, m = s.pending.mask,
         NEW d \in Dir
  PROVE  \E n : Told(b, Answered(s, w, m, d), n) /\ n.pos = r.pos /\ n.slot = w + 1
<1> DEFINE f == [s.rules EXCEPT ![w][m] = d]
           C(t, g) == [t EXCEPT !.rules = g]
           D(t, i, p) == [t EXCEPT !.slot = i, !.pending = p]
           body == [worm |-> w, mask |-> m, action |-> d]
           u == C(s, f)
           v == D(u, w + 1, NoDecision)
           q == D(C(r, f), w + 1, NoDecision)
           l == Learn(s, w, m, d)
           t == [l EXCEPT !.pending = NoDecision, !.slot = w + 1]
           e == [type |-> "rule_learned", tick |-> v.tick, round |-> v.round, body |-> body]
<1>1. /\ r \in State /\ r.tick = s.tick /\ r.rules = s.rules /\ r.pending = s.pending
      /\ SameParts(r, s)
  BY DEF Told, Mirrors, SameParts
<1>2. f \in [Slot -> [Mask -> Action]]
  BY DEF State, Action
<1>3. /\ body \in EventBody /\ "rule_learned" \in EventType
      /\ body.worm = w /\ body.mask = m /\ body.action = d
  BY DEF EventBody, EventType
<1>4. w + 1 \in Slot \cup {None, N} /\ NoDecision \in Decision
  BY EngineAssumption DEF Slot, Decision
<1>5. [s EXCEPT !.rules[w][m] = d] = C(s, f) /\ [r EXCEPT !.rules[w][m] = d] = C(r, f)
  BY <1>1
<1> HIDE DEF f
<1>6. ASSUME NEW x \in State, NEW g \in [Slot -> [Mask -> Action]]
      PROVE  LET c == C(x, g) IN
             /\ c \in State /\ c.events = x.events /\ c.seq = x.seq /\ c.tick = x.tick
             /\ c.trails = x.trails /\ c.round = x.round /\ c.alive = x.alive
             /\ c.score = x.score /\ c.rules = g /\ c.owner = x.owner
             /\ c.cached = x.cached /\ c.pending = x.pending /\ c.over = x.over
             /\ c.pos = x.pos /\ c.slot = x.slot
  BY DEF State
<1>7. ASSUME NEW x \in State, NEW i \in Slot \cup {None, N}, NEW p \in Decision
      PROVE  LET c == D(x, i, p) IN
             /\ c \in State /\ c.events = x.events /\ c.seq = x.seq /\ c.tick = x.tick
             /\ c.trails = x.trails /\ c.round = x.round /\ c.alive = x.alive
             /\ c.score = x.score /\ c.rules = x.rules /\ c.owner = x.owner
             /\ c.cached = x.cached /\ c.pending = p /\ c.over = x.over
             /\ c.pos = x.pos /\ c.slot = i
  <2>1. D(x, i, p) \in State
    BY DEF State
  <2> QED
    BY <2>1 DEF State
<1>8. q = [[r EXCEPT !.rules[w][m] = d] EXCEPT !.slot = r.pending.slot + 1,
                                               !.pending = NoDecision]
  BY <1>1, <1>5
<1> HIDE DEF C
<1>9. /\ C(s, f) \in State /\ C(s, f).events = s.events /\ C(s, f).seq = s.seq
      /\ C(s, f).tick = s.tick
      /\ C(r, f) \in State /\ C(r, f).events = r.events /\ C(r, f).seq = r.seq
      /\ C(r, f).pos = r.pos /\ SameParts(C(r, f), C(s, f))
  BY <1>1, <1>2, <1>6 DEF SameParts
<1>10. /\ v \in State /\ v.events = s.events /\ v.seq = s.seq /\ v.tick = s.tick
       /\ v.round = u.round
       /\ q \in State /\ q.events = r.events /\ q.seq = r.seq
       /\ q.pos = r.pos /\ q.slot = w + 1 /\ SameParts(q, v)
  <2> HIDE DEF D
  <2> QED
    BY <1>4, <1>7, <1>9 DEF SameParts
<1>11. ReplayLearned(r, e) = {q}
  <2>1. OnTime(r, e) /\ e.body = body
    BY <1>1, <1>10 DEF OnTime
  <2> HIDE DEF e, body, q
  <2> QED
    BY <1>1, <1>3, <1>8, <2>1 DEF ReplayLearned
<1>12. ReplayEvent(r, e) = {Numbered(q)}
  <2>1. e.type = "rule_learned"
    OBVIOUS
  <2> HIDE DEF e, q
  <2> QED
    BY <1>11, <2>1, EventHandler
<1> HIDE DEF q
<1>13. /\ Told(b, Emit(v, "rule_learned", body), Numbered(q))
       /\ Numbered(q).pos = q.pos /\ Numbered(q).slot = q.slot
  <2> HIDE DEF v, body
  <2> QED
    BY <1>3, <1>10, <1>12, EventTold
<1>14. l = Emit(u, "rule_learned", body)
  BY <1>5 DEF Learn
<1> HIDE DEF l, v, u, D
<1>15. /\ l \in State /\ l.seq = u.seq + 1 /\ SameGame(u, l)
       /\ l.events = Append(u.events, [type |-> "rule_learned", tick |-> u.tick,
                                       round |-> u.round, body |-> body])
  <2>1. u \in State
    BY <1>9 DEF u
  <2> HIDE DEF body
  <2> QED
    BY <1>3, <1>14, <2>1, EmitType, EmitAppends
<1> DEFINE x == Emit(v, "rule_learned", body)
<1>16. /\ x \in State /\ x.seq = v.seq + 1 /\ SameGame(v, x)
       /\ x.events = Append(v.events, [type |-> "rule_learned", tick |-> v.tick,
                                       round |-> v.round, body |-> body])
  <2> HIDE DEF body
  <2> QED
    BY <1>3, <1>10, EmitType, EmitAppends
<1>17. t = D(l, w + 1, NoDecision)
  BY DEF D
<1> DEFINE i == w + 1
<1>18. /\ t.events = l.events /\ t.seq = l.seq /\ t.tick = l.tick
       /\ t.trails = l.trails /\ t.round = l.round /\ t.alive = l.alive
       /\ t.score = l.score /\ t.rules = l.rules /\ t.owner = l.owner
       /\ t.cached = l.cached /\ t.pending = NoDecision /\ t.over = l.over
  <2>1. l \in State
    BY <1>15
  <2>2. i \in Slot \cup {None, N} /\ NoDecision \in Decision
    BY <1>4
  <2>3. t = D(l, i, NoDecision)
    BY <1>17
  <2> HIDE DEF t, i
  <2> QED
    BY <1>7, <2>1, <2>2, <2>3
<1> HIDE DEF t
<1>19. /\ v.trails = u.trails /\ v.round = u.round /\ v.alive = u.alive
       /\ v.score = u.score /\ v.rules = u.rules /\ v.owner = u.owner
       /\ v.cached = u.cached /\ v.pending = NoDecision /\ v.over = u.over
       /\ v.tick = u.tick /\ v.events = u.events /\ v.seq = u.seq
  <2>1. u \in State
    BY <1>9 DEF u
  <2>2. i \in Slot \cup {None, N} /\ NoDecision \in Decision
    BY <1>4
  <2>3. v = D(u, i, NoDecision)
    BY DEF v
  <2> HIDE DEF i
  <2> QED
    BY <1>7, <2>1, <2>2, <2>3
<1>20. t.events = x.events /\ t.seq = x.seq
  <2> DEFINE a == [type |-> "rule_learned", tick |-> u.tick, round |-> u.round,
                   body |-> body]
             c == [type |-> "rule_learned", tick |-> v.tick, round |-> v.round,
                   body |-> body]
  <2>1. a = c
    BY <1>19
  <2>2. l.events = Append(u.events, a)
    BY <1>15
  <2>3. x.events = Append(v.events, c)
    BY <1>16
  <2> HIDE DEF a, c, x
  <2> QED
    BY <1>15, <1>16, <1>18, <1>19, <2>1, <2>2, <2>3
<1>21. SameParts(x, t)
  <2> HIDE DEF x
  <2> QED
    BY <1>15, <1>16, <1>18, <1>19 DEF SameParts, SameGame
<1>22. Told(b, x, Numbered(q))
  BY <1>13
<1>23. Told(b, t, Numbered(q))
  <2> HIDE DEF x
  <2> QED
    BY <1>20, <1>21, <1>22, ToldSame
<1>24. Numbered(q).pos = r.pos /\ Numbered(q).slot = w + 1
  <2> HIDE DEF x, body
  <2> QED
    BY <1>10, <1>13
<1> HIDE DEF x, body
<1>25. \E n : Told(b, t, n) /\ n.pos = r.pos /\ n.slot = w + 1
  BY <1>23, <1>24
<1> QED
  BY <1>25 DEF t, l, Answered

\* A question: its number is that of the event that asks it.
LEMMA AskTold ==
  ASSUME NEW b, NEW s \in State, NEW r, Told(b, s, r), NEW w \in Slot, NEW m \in Mask
  PROVE  \E n : Told(b, Ask(s, w, m), n) /\ n.pos = r.pos /\ n.slot = w
<1> DEFINE p == [slot |-> w, mask |-> m, request |-> s.seq + 1]
           body == [worm |-> w, mask |-> m, request |-> s.seq + 1]
           u == [s EXCEPT !.pending = p]
           q == [r EXCEPT !.pending = p, !.slot = w]
           e == [type |-> "decision_pending", tick |-> u.tick, round |-> u.round,
                 body |-> body]
<1>1. r \in State /\ r.tick = s.tick /\ SameParts(r, s)
  BY DEF Told, Mirrors, SameParts
<1>2. s.seq + 1 \in Nat
  BY DEF State
<1>3. p \in Decision
  BY <1>2 DEF Decision
<1>4. body \in EventBody /\ "decision_pending" \in EventType
  BY <1>2 DEF EventBody, EventType
<1>5. [slot |-> body.worm, mask |-> body.mask, request |-> body.request] = p
  OBVIOUS
<1>6. w \in Slot \cup {None, N}
  OBVIOUS
<1> HIDE DEF p
<1>7. u \in State /\ u.events = s.events /\ u.seq = s.seq /\ u.tick = s.tick
  BY <1>3 DEF State
<1>8. q \in State
  BY <1>1, <1>3, <1>6 DEF State
<1>9. /\ q.events = r.events /\ q.seq = r.seq /\ q.pos = r.pos /\ q.slot = w
      /\ SameParts(q, u)
  BY <1>1 DEF SameParts, State
<1>10. ReplayPending(r, e) = {q}
  <2>1. OnTime(r, e) /\ e.body = body
    BY <1>1, <1>7 DEF OnTime
  <2>2. body.worm = w
    OBVIOUS
  <2>3. q = [r EXCEPT !.pending = p, !.slot = w]
    OBVIOUS
  <2> HIDE DEF e, body, q
  <2> QED
    BY <1>5, <2>1, <2>2, <2>3 DEF ReplayPending
<1>11. ReplayEvent(r, e) = {Numbered(q)}
  <2>1. e.type = "decision_pending"
    OBVIOUS
  <2> HIDE DEF e, q
  <2> QED
    BY <1>10, <2>1, EventHandler
<1>12. Ask(s, w, m) = Emit(u, "decision_pending", body)
  BY DEF Ask, p
<1> HIDE DEF q, u, body
<1>13. /\ Told(b, Emit(u, "decision_pending", body), Numbered(q))
       /\ Numbered(q).pos = q.pos /\ Numbered(q).slot = q.slot
  BY <1>4, <1>7, <1>8, <1>9, <1>11, EventTold
<1> QED
  BY <1>9, <1>12, <1>13

\* The two events of EndRound.
Done(s) ==
  Emit([s EXCEPT !.slot = None, !.round = s.round + 1], "round_completed",
       [worm |-> None])

Last(s) == Emit([s EXCEPT !.over = TRUE], "game_over", [worm |-> None])

\* The end of a scan: the round is counted and no slot is served any more.
LEMMA RoundTold ==
  ASSUME NEW b, NEW s \in State, NEW r, Told(b, s, r), s.pending = NoDecision
  PROVE  /\ Done(s) \in State
         /\ \E n : Told(b, Done(s), n) /\ n.pos = r.pos /\ n.slot = None
<1> DEFINE k == s.round + 1
           body == [worm |-> None]
           u == [s EXCEPT !.slot = None, !.round = k]
           q == [r EXCEPT !.round = k, !.slot = None]
           e == [type |-> "round_completed", tick |-> u.tick, round |-> u.round,
                 body |-> body]
<1>1. /\ r \in State /\ r.tick = s.tick /\ r.round = s.round /\ r.pending = NoDecision
      /\ SameParts(r, s)
  BY DEF Told, Mirrors, SameParts
<1>2. k \in Nat /\ None \in Slot \cup {None, N}
  BY DEF State
<1>3. body \in EventBody /\ "round_completed" \in EventType
  BY DEF EventBody, EventType
<1>4. k = r.round + 1
  BY <1>1
<1> HIDE DEF k
<1>5. u \in State
  BY <1>2 DEF State
<1>6. /\ u.events = s.events /\ u.seq = s.seq /\ u.tick = s.tick /\ u.round = k
  BY DEF State
<1>7. q \in State
  BY <1>1, <1>2 DEF State
<1>8. /\ q.events = r.events /\ q.seq = r.seq /\ q.pos = r.pos /\ q.slot = None
      /\ SameParts(q, u)
  BY <1>1 DEF SameParts, State
<1>9. ReplayRound(r, e) = {q}
  <2>1. OnTime(r, e) /\ e.round = k
    BY <1>1, <1>6 DEF OnTime
  <2>2. q = [r EXCEPT !.round = e.round, !.slot = None]
    BY <2>1
  <2> HIDE DEF e, q
  <2> QED
    BY <1>1, <1>4, <2>1, <2>2 DEF ReplayRound
<1>10. ReplayEvent(r, e) = {Numbered(q)}
  <2>1. e.type = "round_completed"
    OBVIOUS
  <2> HIDE DEF e, q
  <2> QED
    BY <1>9, <2>1, EventHandler
<1> HIDE DEF q, u, body
<1>11. /\ Told(b, Emit(u, "round_completed", body), Numbered(q))
       /\ Numbered(q).pos = q.pos /\ Numbered(q).slot = q.slot
  BY <1>3, <1>5, <1>6, <1>7, <1>8, <1>10, EventTold
<1>12. Emit(u, "round_completed", body) \in State
  BY <1>3, <1>5, EmitType
<1>13. Done(s) = Emit(u, "round_completed", body)
  BY DEF Done, u, body, k
<1> QED
  BY <1>8, <1>11, <1>12, <1>13

\* The end of the game.
LEMMA OverTold ==
  ASSUME NEW b, NEW s \in State, NEW r, Told(b, s, r)
  PROVE  \E n : Told(b, Last(s), n) /\ n.pos = r.pos /\ n.slot = r.slot
<1> DEFINE body == [worm |-> None]
           u == [s EXCEPT !.over = TRUE]
           q == [r EXCEPT !.over = TRUE]
           e == [type |-> "game_over", tick |-> u.tick, round |-> u.round, body |-> body]
<1>1. r \in State /\ r.tick = s.tick /\ SameParts(r, s)
  BY DEF Told, Mirrors, SameParts
<1>2. body \in EventBody /\ "game_over" \in EventType
  BY DEF EventBody, EventType
<1>3. u \in State /\ u.events = s.events /\ u.seq = s.seq /\ u.tick = s.tick
  BY DEF State
<1>4. /\ q \in State /\ q.events = r.events /\ q.seq = r.seq
      /\ q.pos = r.pos /\ q.slot = r.slot
  BY <1>1 DEF State
<1>5. SameParts(q, u)
  BY <1>1 DEF SameParts, State
<1>6. ReplayEvent(r, e) = {Numbered(q)}
  <2>1. OnTime(r, e) /\ e.type = "game_over" /\ q = [r EXCEPT !.over = TRUE]
    BY <1>1, <1>3 DEF OnTime
  <2> HIDE DEF e, q
  <2>2. ReplayEvent(r, e)
          = {Numbered(t) : t \in {x \in {[r EXCEPT !.over = TRUE]} : OnTime(r, e)}}
    BY <2>1, EventHandler
  <2>3. ReplayEvent(r, e) = {Numbered(t) : t \in {q}}
    BY <2>1, <2>2
  <2> QED
    BY <2>3
<1> HIDE DEF q, u, body
<1>7. /\ Told(b, Emit(u, "game_over", body), Numbered(q))
      /\ Numbered(q).pos = q.pos /\ Numbered(q).slot = q.slot
  BY <1>2, <1>3, <1>4, <1>5, <1>6, EventTold
<1>8. Last(s) = Emit(u, "game_over", body)
  BY DEF Last, u, body
<1> QED
  BY <1>4, <1>7, <1>8

\* EndRound tells one event, or two when nobody lives.
LEMMA EndRoundTold ==
  ASSUME NEW b, NEW s \in State, NEW r, Told(b, s, r), s.pending = NoDecision
  PROVE  \E n : Told(b, EndRound(s), n) /\ n.pos = r.pos /\ n.slot = None
<1>1. PICK n : Told(b, Done(s), n) /\ n.pos = r.pos /\ n.slot = None
  BY RoundTold
<1>2. Done(s) \in State
  BY RoundTold
<1>3. EndRound(s) = IF \E w \in Slot : s.alive[w] THEN Done(s) ELSE Last(Done(s))
  BY DEF EndRound, Done, Last
<1>4. PICK o : Told(b, Last(Done(s)), o) /\ o.pos = n.pos /\ o.slot = n.slot
  BY <1>1, <1>2, OverTold
<1> QED
  BY <1>1, <1>3, <1>4

------------------------------------------------------------------------------
(* The handlers.                                                           *)

\* Step.
LEMMA StepTold ==
  ASSUME NEW b, NEW s \in State, NEW r, Told(b, s, r), r.pos = s.pos,
         NEW w \in Slot, NEW d \in Dir, CanStep(s, w, d), Owned(s), Scored(s)
  PROVE  \E n : /\ Told(b, Stepped(s, w, d), n)
                /\ n.pos = Stepped(s, w, d).pos /\ n.slot = r.slot
<1> DEFINE from == s.pos[w]
           to == Neighbor(from, d)
           c == Claimed(s, w, d)
           rc == Recolor(c, w, from)
           m == Moved(s, w, d)
           a == Arrived(s, w, d)
           t == Emit(a, "worm_moved", [worm |-> w, at |-> from, to |-> to])
           k == Kill(t, w, "worm_died")
<1>1. from \in Point /\ to \in Point /\ s.alive[w]
  BY StepEdge DEF CanStep
<1>2. /\ c \in State /\ c.pos = s.pos /\ c.owner = s.owner /\ c.cached = s.cached
      /\ c.score = s.score /\ c.alive = s.alive
  BY ClaimEffect
<1>3. Owned(c) /\ Scored(c)
  <2>1. SameScores(s, c)
    BY <1>2 DEF SameScores
  <2> HIDE DEF c
  <2> QED
    BY <2>1, SameScoresKeep
<1>4. PICK n1 : Told(b, c, n1) /\ n1.pos = r.pos /\ n1.slot = r.slot
  BY ClaimTold
<1> HIDE DEF from, to
<1>5. PICK n2 : Told(b, rc, n2) /\ n2.pos = s.pos /\ n2.slot = r.slot
  <2>1. c.owner[from] # None => c.cached[from] = Dir
    BY <1>1, <1>3 DEF Owned
  <2> HIDE DEF c
  <2> QED
    BY <1>1, <1>2, <1>4, <2>1, RecolorTold
<1>6. RecolorDoes(c, w, from, rc) /\ Owned(rc) /\ Scored(rc)
  <2> HIDE DEF c
  <2> QED
    BY <1>1, <1>2, <1>3, RecolorEffect, RecolorKeepsScores
<1>7. rc \in State /\ rc.pos = s.pos /\ rc.alive = s.alive
  <2> HIDE DEF c, rc
  <2> QED
    BY <1>2, <1>6 DEF RecolorDoes
<1>8. m = [rc EXCEPT !.pos[w] = to]
  BY DEF Moved, from, to
<1> HIDE DEF rc, m
<1>9. m \in State
  BY <1>1, <1>7, <1>8 DEF State
<1>10. /\ m.events = rc.events /\ m.seq = rc.seq /\ SameParts(rc, m)
       /\ m.pos = [s.pos EXCEPT ![w] = to] /\ m.owner = rc.owner /\ m.cached = rc.cached
       /\ m.alive = s.alive
  BY <1>7, <1>8 DEF State, SameParts
<1>11. Told(b, m, n2)
  BY <1>5, <1>10, ToldSame
<1>12. a = Recolor(m, w, to)
  BY DEF Arrived, m, to, from
<1> HIDE DEF a
<1>13. PICK n3 : Told(b, a, n3) /\ n3.pos = s.pos /\ n3.slot = r.slot
  <2>1. m.owner[to] # None => m.cached[to] = Dir
    BY <1>1, <1>6, <1>10 DEF Owned
  <2> QED
    BY <1>1, <1>5, <1>9, <1>11, <1>12, <2>1, RecolorTold
<1>14. a \in State /\ a.pos = [s.pos EXCEPT ![w] = to] /\ a.alive[w]
  <2>1. RecolorDoes(m, w, to, a)
    BY <1>1, <1>9, <1>12, RecolorEffect
  <2> QED
    BY <1>1, <1>10, <2>1 DEF RecolorDoes
<1>15. PICK n4 : Told(b, t, n4) /\ n4.pos = a.pos /\ n4.slot = r.slot
  <2>1. to = Neighbor(from, d) /\ n3.pos[w] = from /\ a.pos = [n3.pos EXCEPT ![w] = to]
    BY <1>13, <1>14 DEF to, from
  <2> QED
    BY <1>1, <1>13, <1>14, <2>1, MoveTold
<1>16. t \in State /\ t.pos = a.pos
  <2>1. "worm_moved" \in EventType /\ [worm |-> w, at |-> from, to |-> to] \in EventBody
    BY <1>1 DEF EventType, EventBody
  <2> QED
    BY <1>14, <2>1, EmitType DEF SameGame
<1>17. Stepped(s, w, d) = IF MaskAt(t, to) = Dir THEN k ELSE t
  BY DEF Stepped, a, to, from
<1> HIDE DEF t
<1>18. PICK n5 : Told(b, k, n5) /\ n5.pos = t.pos /\ n5.slot = n4.slot
  <2>1. Told(b, t, n4) /\ n4.pos = t.pos /\ t \in State
    BY <1>15, <1>16
  <2>2. "worm_died" \in {"worm_died", "worm_blocked"}
    OBVIOUS
  <2> QED
    BY <2>1, <2>2, DeathTold
<1>19. k.pos = t.pos
  <2> DEFINE x == [t EXCEPT !.alive[w] = FALSE]
  <2>1. SameGame(x, k)
    BY <1>16, KillType
  <2>2. x.pos = t.pos
    BY <1>16 DEF State
  <2> HIDE DEF x, k
  <2> QED
    BY <2>1, <2>2 DEF SameGame
<1> HIDE DEF k
<1> QED
  BY <1>15, <1>16, <1>17, <1>18, <1>19

\* The dead stay where they die, and no question is asked.
LEMMA KillStays ==
  ASSUME NEW s \in State, NEW w \in Slot, NEW cause \in {"worm_died", "worm_blocked"}
  PROVE  LET t == Kill(s, w, cause) IN t.pos = s.pos /\ t.pending = s.pending
<1> DEFINE t == Kill(s, w, cause)
           x == [s EXCEPT !.alive[w] = FALSE]
<1>1. SameGame(x, t)
  BY KillType
<1>2. x.pos = s.pos /\ x.pending = s.pending
  BY DEF State
<1> HIDE DEF x, t
<1>3. t.pos = s.pos /\ t.pending = s.pending
  BY <1>1, <1>2 DEF SameGame
<1> QED
  BY <1>3 DEF t

\* The replica of s stands where s stands; where its scan is, it knows when a question
\* waits.
Copied(b, s) ==
  \E r : Told(b, s, r) /\ r.pos = s.pos /\ (s.pending # NoDecision => r.slot = s.slot)

\* A remembered or a chosen direction.
LEMMA FollowTold ==
  ASSUME NEW b, NEW s \in State, Sound(s), NEW r, Told(b, s, r), r.pos = s.pos,
         NEW w \in Slot, NEW m \in Mask, NEW d \in Dir, NEW t \in Follow(s, w, m, d)
  PROVE  \E n : Told(b, t, n) /\ n.pos = t.pos /\ n.slot = r.slot
<1> DEFINE u == UseRule(s, w, m, d)
<1>1. u \in State /\ SameGame(s, u) /\ Leads(s, u)
  BY UseRuleLeads
<1>2. CanStep(u, w, d) /\ t = Stepped(u, w, d)
  BY StepIsStepped DEF Follow
<1>3. PICK o : Told(b, u, o) /\ o.pos = r.pos /\ o.slot = r.slot
  BY UseTold
<1> HIDE DEF u
<1>4. Owned(u) /\ Scored(u) /\ o.pos = u.pos
  BY <1>1, <1>3 DEF Leads, Sound, SameGame
<1>5. \E n : Told(b, Stepped(u, w, d), n) /\ n.pos = Stepped(u, w, d).pos /\ n.slot = o.slot
  BY <1>1, <1>2, <1>3, <1>4, StepTold
<1> QED
  BY <1>2, <1>3, <1>5

\* One slot of the loop.
LEMMA DispatchTold ==
  ASSUME NEW b, NEW s \in State, Sound(s), NEW r, Told(b, s, r), r.pos = s.pos,
         NEW w \in Slot, s.slot = w, s.pending = NoDecision, NEW t \in Dispatch(s, w)
  PROVE  Copied(b, t)
<1> DEFINE m == MaskAt(s, s.pos[w])
           a == s.rules[w][m]
<1>1. m \in Mask /\ a \in Action
  <2>1. s.pos[w] \in Point /\ s.rules[w] \in [Mask -> Action]
    BY DEF State
  <2>2. m \in Mask
    BY <2>1, MaskType
  <2> QED
    BY <2>1, <2>2
<1>2. ASSUME NEW cause \in {"worm_died", "worm_blocked"}, t = Kill(s, w, cause)
      PROVE  Copied(b, t)
  <2>1. PICK n : Told(b, Kill(s, w, cause), n) /\ n.pos = s.pos /\ n.slot = r.slot
    BY DeathTold
  <2>2. t.pos = s.pos /\ t.pending = NoDecision
    BY <1>2, KillStays
  <2> QED
    BY <1>2, <2>1, <2>2 DEF Copied
<1>3. CASE LegalMoves(s, w) = {}
  <2>1. t = Kill(s, w, "worm_blocked")
    BY <1>3 DEF Dispatch
  <2> QED
    BY <1>2, <2>1
<1>4. CASE LegalMoves(s, w) # {} /\ a = GETNEW
  <2>1. t = Ask(s, w, m)
    BY <1>4 DEF Dispatch, GETNEW, DIE, DOAI, Dir
  <2> HIDE DEF m, a
  <2>2. PICK n : Told(b, Ask(s, w, m), n) /\ n.pos = r.pos /\ n.slot = w
    BY <1>1, AskTold
  <2>3. SameGame([s EXCEPT !.pending = t.pending], t)
    BY <1>1, <2>1, AskEffect
  <2>4. t.pos = s.pos /\ t.slot = s.slot
    BY <2>3 DEF SameGame, State
  <2> QED
    BY <2>1, <2>2, <2>4 DEF Copied
<1>5. CASE LegalMoves(s, w) # {} /\ a = DIE
  <2>1. t = Kill(s, w, "worm_died")
    BY <1>5 DEF Dispatch, GETNEW, DIE, DOAI, Dir
  <2> QED
    BY <1>2, <2>1
<1>6. ASSUME NEW u \in State, Sound(u), NEW o, Told(b, u, o), o.pos = u.pos,
             u.pending = NoDecision, NEW d \in Dir, t \in Follow(u, w, m, d)
      PROVE  Copied(b, t)
  <2> HIDE DEF m, a
  <2>1. PICK n : Told(b, t, n) /\ n.pos = t.pos /\ n.slot = o.slot
    BY <1>1, <1>6, FollowTold
  <2>2. t.pending = NoDecision
    BY <1>1, <1>6, FollowLeads DEF SameTurn
  <2> QED
    BY <2>1, <2>2 DEF Copied
<1>7. CASE LegalMoves(s, w) # {} /\ a = DOAI
  <2>1. PICK d \in AutoChoices(s, w) :
           t \in Follow(IF Frozen(w) THEN s ELSE Learn(s, w, m, d), w, m, d)
    <3>1. Dispatch(s, w) = UNION {Follow(IF Frozen(w) THEN s ELSE Learn(s, w, m, d), w, m, d) :
                                    d \in AutoChoices(s, w)}
      BY <1>7 DEF Dispatch, GETNEW, DIE, DOAI, Dir
    <3> QED
      BY <3>1
  <2>2. d \in Dir /\ d \notin m
    BY DEF AutoChoices, LegalMoves
  <2>3. a \notin Dir
    BY <1>7 DEF DOAI, Dir
  <2> HIDE DEF m
  <2>4. CASE Frozen(w)
    BY <1>6, <2>1, <2>2, <2>4
  <2>5. CASE ~Frozen(w)
    <3> DEFINE u == Learn(s, w, m, d)
    <3>1. Leads(s, u) /\ SameTurn(s, u)
      <4>1. s.rules[w][m] \notin Dir
        BY <2>3
      <4> HIDE DEF a
      <4> QED
        BY <1>1, <2>2, <4>1, LearnLeads
    <3>2. u.pos = s.pos
      <4>1. SameGame([s EXCEPT !.rules = u.rules], u)
        <5>1. \A v \in Slot : ValidRules(s.rules[v])
          BY DEF Sound
        <5> HIDE DEF a
        <5> QED
          BY <1>1, <2>2, <5>1, LearnEffect
      <4> HIDE DEF u
      <4> QED
        BY <4>1 DEF SameGame, State
    <3>3. PICK o : Told(b, u, o) /\ o.pos = r.pos /\ o.slot = r.slot
      BY <1>1, <2>2, LearnTold
    <3>4. t \in Follow(u, w, m, d)
      BY <2>1, <2>5
    <3> HIDE DEF u
    <3>5. u \in State /\ Sound(u) /\ u.pending = NoDecision
      BY <3>1 DEF Leads, SameTurn
    <3> QED
      BY <1>6, <2>2, <3>2, <3>3, <3>4, <3>5
  <2> QED
    BY <2>4, <2>5
<1>8. CASE LegalMoves(s, w) # {} /\ a \in Dir
  <2>1. t \in Follow(s, w, m, a)
    BY <1>8 DEF Dispatch, GETNEW, DIE, DOAI, Dir
  <2> HIDE DEF m, a
  <2> QED
    BY <1>6, <1>8, <2>1
<1> QED
  BY <1>1, <1>3, <1>4, <1>5, <1>7, <1>8 DEF Action

\* One iteration of the loop: the cursor that it sets is told at the end only.
LEMMA VisitTold ==
  ASSUME NEW b, NEW s, Good(s), Copied(b, s), NEW w \in 0 .. 3, NEW first,
         NEW t \in Visit(s, w, first)
  PROVE  Copied(b, t)
<1> DEFINE u == [s EXCEPT !.slot = w]
<1>1. s \in State /\ Sound(s)
  BY DEF Good
<1>2. CASE w \notin Slot \/ w < first \/ s.pending # NoDecision
  <2>1. t = s
    BY <1>2 DEF Visit
  <2> QED
    BY <2>1
<1>3. CASE w \in Slot /\ ~(w < first) /\ s.pending = NoDecision
  <2>1. t \in IF ~s.alive[w] THEN {u} ELSE Dispatch(u, w)
    BY <1>3 DEF Visit
  <2>2. Leads(s, u) /\ u.slot = w /\ u.pending = NoDecision
    BY <1>1, <1>3, SlotLeads
  <2>3. u.events = s.events /\ u.seq = s.seq /\ SameParts(s, u) /\ u.pos = s.pos
    BY <1>1 DEF SameParts, State
  <2>4. PICK r : Told(b, s, r) /\ r.pos = s.pos
    BY DEF Copied
  <2> HIDE DEF u
  <2>5. Told(b, u, r)
    BY <2>3, <2>4, ToldSame
  <2>6. CASE ~s.alive[w]
    BY <2>1, <2>2, <2>3, <2>4, <2>5, <2>6 DEF Copied
  <2>7. CASE s.alive[w]
    <3>1. u \in State /\ Sound(u) /\ r.pos = u.pos
      BY <2>2, <2>3, <2>4 DEF Leads
    <3> QED
      BY <1>3, <2>1, <2>2, <2>5, <2>7, <3>1, DispatchTold
  <2> QED
    BY <2>6, <2>7
<1> QED
  BY <1>2, <1>3

\* Every state of S is told.
AllCopied(b, S) == \A u \in S : Good(u) /\ Copied(b, u)

\* The same of every state the loop may be in.
LEMMA VisitAllTold ==
  ASSUME NEW b, NEW S, AllCopied(b, S), NEW w \in 0 .. 3, NEW first
  PROVE  AllCopied(b, VisitAll(S, w, first))
<1> SUFFICES ASSUME NEW t \in VisitAll(S, w, first)
             PROVE  Good(t) /\ Copied(b, t)
  BY DEF AllCopied
<1>1. PICK u \in S : t \in Visit(u, w, first)
  BY DEF VisitAll
<1>2. Good(u) /\ Copied(b, u)
  BY DEF AllCopied
<1>3. Good(t)
  BY <1>1, <1>2, VisitLeads DEF Good, Runs, Leads
<1> QED
  BY <1>1, <1>2, <1>3, VisitTold

\* The loop over the slots.
LEMMA ScanTold ==
  ASSUME NEW b, NEW s, Good(s), Copied(b, s), NEW first, NEW t \in Scan(s, first)
  PROVE  Good(t) /\ Copied(b, t)
<1> DEFINE S0 == VisitAll({s}, 0, first)
           S1 == VisitAll(S0, 1, first)
           S2 == VisitAll(S1, 2, first)
           S3 == VisitAll(S2, 3, first)
<1>1. AllCopied(b, {s})
  BY DEF AllCopied
<1>2. AllCopied(b, S0)
  BY <1>1, VisitAllTold
<1> HIDE DEF S0
<1>3. AllCopied(b, S1)
  BY <1>2, VisitAllTold
<1> HIDE DEF S1
<1>4. AllCopied(b, S2)
  BY <1>3, VisitAllTold
<1> HIDE DEF S2
<1>5. AllCopied(b, S3)
  BY <1>4, VisitAllTold
<1>6. t \in S3
  BY DEF Scan, S0, S1, S2, S3
<1> HIDE DEF S3
<1> QED
  BY <1>5, <1>6 DEF AllCopied

\* A state is its parts.
LEMMA PartsAreAll ==
  ASSUME NEW r \in State, NEW t \in State, SameParts(r, t), r.pos = t.pos,
         r.slot = t.slot, r.seq = t.seq, r.events = t.events
  PROVE  r = t
<1> DEFINE all(x) ==
      [tick |-> x.tick, round |-> x.round, alive |-> x.alive, pos |-> x.pos,
       score |-> x.score, rules |-> x.rules, trails |-> x.trails, owner |-> x.owner,
       cached |-> x.cached, slot |-> x.slot, pending |-> x.pending, over |-> x.over,
       seq |-> x.seq, events |-> x.events]
<1>1. \A x \in State : x = all(x)
  BY DEF State
<1>2. all(r) = all(t)
  BY DEF SameParts
<1> HIDE DEF all
<1> QED
  BY <1>1, <1>2

\* The end of a handler.
LEMMA HandlerTold ==
  ASSUME NEW b, NEW s, Good(s), Copied(b, s)
  PROVE  Replay(b, EndRound(s).events) = {Quiet(EndRound(s))}
<1> DEFINE t == EndRound(s)
           q == Quiet(t)
<1>1. s \in State
  BY DEF Good
<1>2. t \in State
  BY EndRoundLeads DEF Runs, Leads
<1>3. PICK r : Told(b, s, r) /\ r.pos = s.pos /\ (s.pending # NoDecision => r.slot = s.slot)
  BY DEF Copied
<1>4. PICK n : Told(b, t, n) /\ n.pos = t.pos /\ n.slot = t.slot
  <2>1. CASE s.pending # NoDecision
    <3>1. t = s
      BY <2>1 DEF EndRound
    <3> QED
      BY <1>3, <2>1, <3>1
  <2>2. CASE s.pending = NoDecision
    <3>1. t.slot = None /\ t.pos = s.pos
      BY <1>1, <2>2, EndRoundEffect
    <3>2. PICK n : Told(b, t, n) /\ n.pos = r.pos /\ n.slot = None
      BY <1>1, <1>3, <2>2, EndRoundTold
    <3> QED
      BY <1>3, <3>1, <3>2
  <2> QED
    BY <2>1, <2>2
<1> HIDE DEF t
<1>5. q \in State /\ SameGame(t, q)
  BY <1>2, QuietType
<1>6. q.events = << >> /\ q.seq = t.seq
  BY <1>2 DEF Quiet, State
<1> HIDE DEF q
<1>7. n = q
  <2>1. n \in State /\ n.events = << >> /\ n.seq = t.seq /\ SameParts(n, t)
    BY <1>4 DEF Told, Mirrors
  <2>2. SameParts(n, q) /\ n.pos = q.pos /\ n.slot = q.slot
    BY <1>4, <1>5, <2>1 DEF SameParts, SameGame
  <2> QED
    BY <1>5, <1>6, <2>1, <2>2, PartsAreAll
<1>8. Replay(b, t.events) = {q}
  BY <1>4, <1>7 DEF Told
<1> QED
  BY <1>8 DEF q, t

\* A handler begins with no events, and its replica in the state it begins in.
LEMMA QuietTold ==
  ASSUME NEW s \in State
  PROVE  LET q == Quiet(s) IN Told(q, q, q)
<1> DEFINE q == Quiet(s)
<1>1. q \in State /\ q.events = << >>
  BY QuietType DEF Quiet, State
<1> HIDE DEF q
<1>2. Replay(q, q.events) = {q}
  BY <1>1, ReplayNothing
<1>3. Mirrors(q, q)
  BY <1>1 DEF Mirrors, SameParts
<1>4. Told(q, q, q)
  BY <1>2, <1>3 DEF Told
<1> QED
  BY <1>4 DEF q

\* AdvanceRound: the replica goes where the engine went.
LEMMA AdvanceTold ==
  ASSUME NEW s, Good(s), CanAdvance(s), NEW t \in AdvanceOutcomes(s)
  PROVE  Replay(Quiet(s), t.events) = {Quiet(t)}
<1> DEFINE q == Quiet(s)
<1>1. s \in State /\ Sound(s) /\ s.pending = NoDecision
  BY DEF Good, CanAdvance
<1>2. Leads(s, q) /\ SameGame(s, q)
  BY <1>1, QuietLeads
<1>3. PICK u : /\ u \in Scan(q, IF s.slot = None THEN 0 ELSE s.slot)
               /\ t = EndRound(u)
  BY DEF AdvanceOutcomes
<1>4. Told(q, q, q)
  BY <1>1, QuietTold
<1> HIDE DEF q
<1>5. Good(q) /\ Copied(q, q)
  BY <1>1, <1>2, <1>4 DEF Good, Leads, SameGame, PendingCurrent, Copied
<1>6. Good(u) /\ Copied(q, u)
  BY <1>3, <1>5, ScanTold
<1>7. Replay(q, t.events) = {Quiet(t)}
  BY <1>3, <1>6, HandlerTold
<1> QED
  BY <1>7 DEF q

\* Submit: the lesson answers the question, and the replay goes on behind it.
LEMMA SubmitTold ==
  ASSUME NEW s, Good(s), NEW d \in Dir, CanSubmit(s, d), NEW t \in SubmitOutcomes(s, d)
  PROVE  Replay(Quiet(s), t.events) = {Quiet(t)}
<1> DEFINE w == s.pending.slot
           m == s.pending.mask
           q == Quiet(s)
           l == Learn(q, w, m, d)
           answered == [l EXCEPT !.pending = NoDecision, !.slot = w + 1]
<1>1. s \in State /\ Sound(s) /\ PendingCurrent(s) /\ s.pending # NoDecision
  BY DEF Good, CanSubmit
<1>2. w \in Slot /\ m \in Mask
  <2>1. s.pending \in Decision
    BY <1>1 DEF State
  <2> QED
    BY <1>1, <2>1 DEF Decision
<1>3. m = MaskAt(s, s.pos[w]) /\ s.rules[w][m] = GETNEW
  BY <1>1 DEF PendingCurrent
<1>4. d \notin m
  BY <1>3 DEF CanSubmit, LegalMoves
<1>5. Leads(s, q) /\ SameGame(s, q) /\ q \in State /\ Sound(q)
  BY <1>1, QuietLeads DEF Leads
<1>6. Told(q, q, q)
  BY <1>1, QuietTold
<1>7. q.pending # NoDecision /\ w = q.pending.slot /\ m = q.pending.mask
  BY <1>1, <1>5 DEF SameGame
<1> HIDE DEF q, w, m
<1>8. q.rules[w][m] \notin Dir
  BY <1>3, <1>5 DEF SameGame, GETNEW, Dir
<1>9. Leads(q, l)
  BY <1>2, <1>4, <1>5, <1>8, LearnLeads
<1>10. l.pos = q.pos
  <2>1. SameGame([q EXCEPT !.rules = l.rules], l)
    <3>1. \A v \in Slot : ValidRules(q.rules[v])
      BY <1>5 DEF Sound
    <3> QED
      BY <1>2, <1>4, <1>5, <3>1, LearnEffect
  <2> HIDE DEF l
  <2> QED
    BY <1>5, <2>1 DEF SameGame, State
<1>11. PICK o : Told(q, answered, o) /\ o.pos = q.pos
  <2>1. answered = Answered(q, w, m, d)
    BY DEF Answered
  <2>2. \E n : Told(q, Answered(q, w, m, d), n) /\ n.pos = q.pos /\ n.slot = w + 1
    BY <1>2, <1>5, <1>6, <1>7, AnswerTold
  <2> HIDE DEF answered
  <2> QED
    BY <2>1, <2>2
<1> HIDE DEF l
<1>12. l \in State /\ Sound(l)
  BY <1>9 DEF Leads
<1>13. /\ answered \in State /\ SameBoard(l, answered)
       /\ answered.pending = NoDecision /\ answered.pos = l.pos
  <2>1. w + 1 \in Slot \cup {None, N} /\ NoDecision \in Decision
    BY <1>2, EngineAssumption DEF Slot, Decision
  <2>2. \A n \in Slot \cup {None, N}, f \in Decision :
           /\ [l EXCEPT !.pending = f, !.slot = n] \in State
           /\ SameBoard(l, [l EXCEPT !.pending = f, !.slot = n])
           /\ [l EXCEPT !.pending = f, !.slot = n].pending = f
           /\ [l EXCEPT !.pending = f, !.slot = n].pos = l.pos
    BY <1>12 DEF State, SameBoard
  <2> QED
    BY <2>1, <2>2
<1>14. PICK u, v : /\ u \in Follow(answered, w, m, d)
                   /\ v \in Scan(u, w + 1)
                   /\ t = EndRound(v)
  BY DEF SubmitOutcomes, q, w, m, l
<1> HIDE DEF answered
<1>15. Sound(answered)
  BY <1>12, <1>13, SameBoardLeads DEF Leads
<1>16. Leads(answered, u) /\ SameTurn(answered, u)
  BY <1>2, <1>13, <1>14, <1>15, FollowLeads
<1>17. Good(u) /\ u.pending = NoDecision
  BY <1>13, <1>16 DEF Good, Leads, SameTurn, PendingCurrent
<1>18. Copied(q, u)
  <2>1. o.pos = answered.pos
    BY <1>10, <1>11, <1>13
  <2>2. \E n : Told(q, u, n) /\ n.pos = u.pos /\ n.slot = o.slot
    BY <1>2, <1>11, <1>13, <1>14, <1>15, <2>1, FollowTold
  <2> QED
    BY <1>17, <2>2 DEF Copied
<1>19. Good(v) /\ Copied(q, v)
  BY <1>14, <1>17, <1>18, ScanTold
<1>20. Replay(q, t.events) = {Quiet(t)}
  BY <1>14, <1>19, HandlerTold
<1> QED
  BY <1>20 DEF q

------------------------------------------------------------------------------
(* The theorem.                                                            *)

\* "A replay must reproduce state and hash": on every board, for every number of
\* worms, whoever controls them and whatever the seeded ties yield, a copy of the
\* game that sees nothing but the events AdvanceRound and Submit emit is, after each
\* of them, in exactly the state of the engine.  Replay never rejects an event the
\* engine emitted, no change is missing from the events and none is told twice.
THEOREM EventsReproduceTheState == ReplaySpec => []ReplayReproducesState
<1>1. ReplayInit => Inductive /\ ReplayReproducesState
  BY InitGood DEF ReplayInit, Init, Inductive, ScanEnded, InitialState,
                  ReplayReproducesState
<1>2. /\ Inductive /\ ReplayReproducesState /\ [ReplayNext]_replayVars
      => Inductive' /\ ReplayReproducesState'
  <2> SUFFICES ASSUME Inductive, ReplayReproducesState, [ReplayNext]_replayVars
               PROVE  Inductive' /\ ReplayReproducesState'
    OBVIOUS
  <2>1. CASE ReplayNext
    <3>1. Next
      BY <2>1 DEF ReplayNext, Next
    <3>2. Inductive'
      BY <3>1, NextRuns DEF Good, Runs, Leads, Inductive
    <3>3. Replay(Quiet(game), game'.events) = {Quiet(game')}
      <4>1. CASE AdvanceRound
        BY <4>1, AdvanceTold DEF AdvanceRound, Inductive
      <4>2. CASE Answer
        <5>1. PICK d \in Dir : CanSubmit(game, d) /\ game' \in SubmitOutcomes(game, d)
          BY <4>2 DEF Answer, Submit
        <5> QED
          BY <5>1, SubmitTold DEF Inductive
      <4> QED
        BY <3>1, <4>1, <4>2 DEF Next
    <3>4. replica' = UNION {Replay(t, game'.events) : t \in replica}
      BY <2>1 DEF ReplayNext, Follows
    <3>5. replica' = {Quiet(game')}
      BY <3>3, <3>4 DEF ReplayReproducesState
    <3>6. ReplayReproducesState' <=> replica' = {Quiet(game')}
      BY DEF ReplayReproducesState, Quiet
    <3> QED
      BY <3>2, <3>5, <3>6
  <2>2. CASE UNCHANGED replayVars
    BY <2>2 DEF replayVars, Inductive, ReplayReproducesState
  <2> QED
    BY <2>1, <2>2
<1> QED
  BY <1>1, <1>2, PTL DEF ReplaySpec

=============================================================================
