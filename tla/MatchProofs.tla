----------------------------- MODULE MatchProofs -----------------------------
(***************************************************************************)
(* The safety of a match, for every board, every assignment of controllers *)
(* and every number of crashes and refused writes.                         *)
(***************************************************************************)
EXTENDS Match, WormsEngineProofs

------------------------------------------------------------------------------
(* The events that the engine counts.  A decision is numbered by the event     *)
(* that asks for it, so a later decision has a greater number.                 *)

\* From s the handlers have counted on to t, and a question that was not open in s
\* has been counted since.
Counts(s, t) ==
  /\ t.seq >= s.seq
  /\ (t.pending # NoDecision /\ s.pending = NoDecision) => t.seq > s.seq

\* emit counts one event.
LEMMA EmitCounts ==
  ASSUME NEW s \in State, NEW type, NEW body
  PROVE  Emit(s, type, body).seq = s.seq + 1
  <1>1. \A x, y : [s EXCEPT !.seq = x, !.events = y].seq = x
    BY DEF State
  <1> QED
    BY <1>1 DEF Emit

\* A death is an event.
LEMMA KillCounts ==
  ASSUME NEW s \in State, NEW w \in Slot, NEW cause
  PROVE  Kill(s, w, cause).seq = s.seq + 1
  <1> DEFINE u == [s EXCEPT !.alive[w] = FALSE]
  <1>1. u \in State /\ u.seq = s.seq
    BY DEF State
  <1> HIDE DEF u
  <1> QED
    BY <1>1, EmitCounts DEF Kill, u

\* A lesson is an event.
LEMMA LearnCounts ==
  ASSUME NEW s \in State, NEW w \in Slot, NEW m \in Mask, NEW d \in Dir
  PROVE  Learn(s, w, m, d).seq = s.seq + 1
  <1> DEFINE u == [s EXCEPT !.rules[w][m] = d]
  <1>1. u \in State /\ u.seq = s.seq
    <2>1. [s.rules EXCEPT ![w][m] = d] \in [Slot -> [Mask -> Action]]
      BY DEF State, Action
    <2>2. \A r \in [Slot -> [Mask -> Action]] :
             [s EXCEPT !.rules = r] \in State /\ [s EXCEPT !.rules = r].seq = s.seq
      BY DEF State
    <2>3. u = [s EXCEPT !.rules = [s.rules EXCEPT ![w][m] = d]]
      BY DEF State
    <2> QED
      BY <2>1, <2>2, <2>3
  <1> HIDE DEF u
  <1> QED
    BY <1>1, EmitCounts DEF Learn, u

\* A question is an event.
LEMMA AskCounts ==
  ASSUME NEW s \in State, NEW w \in Slot, NEW m \in Mask
  PROVE  Ask(s, w, m).seq = s.seq + 1
  <1> DEFINE decision == [slot |-> w, mask |-> m, request |-> s.seq + 1]
             u == [s EXCEPT !.pending = decision]
  <1>1. decision \in Decision
    BY DEF Decision, State
  <1>2. u \in State /\ u.seq = s.seq
    <2> HIDE DEF decision
    <2> QED
      BY <1>1 DEF State
  <1> HIDE DEF u
  <1> QED
    BY <1>2, EmitCounts DEF Ask, u

\* recolorCapture reports at most one thing.
LEMMA RecolorCounts ==
  ASSUME NEW s \in State, NEW w \in Slot, NEW p \in Point
  PROVE  Recolor(s, w, p).seq >= s.seq /\ Recolor(s, w, p).seq \in Nat
  <1> DEFINE m == MaskAt(s, p)
             u == [s EXCEPT !.cached[p] = m]
             v == [u EXCEPT !.owner[p] = w, !.score[w] = @ + 1]
  <1>1. m \in Mask
    BY MaskType
  <1> HIDE DEF m
  <1>2. u \in State /\ u.seq = s.seq
    BY <1>1 DEF State
  <1>3. \E y, z : Recolor(s, w, p) \in {u, Emit(u, y, z), Emit(v, y, z)}
    BY DEF Recolor, m
  <1> HIDE DEF u
  <1>4. v \in State /\ v.seq = u.seq
    <2> DEFINE own == [u.owner EXCEPT ![p] = w]
               won == [u.score EXCEPT ![w] = @ + 1]
    <2>1. own \in [Point -> Slot \cup {None}]
      BY <1>2 DEF State
    <2>2. won \in [Slot -> Nat]
      BY <1>2 DEF State
    <2>3. \A o \in [Point -> Slot \cup {None}], c \in [Slot -> Nat] :
             /\ [u EXCEPT !.owner = o, !.score = c] \in State
             /\ [u EXCEPT !.owner = o, !.score = c].seq = u.seq
      BY <1>2 DEF State
    <2>4. v = [u EXCEPT !.owner = own, !.score = won]
      BY <1>2 DEF State
    <2> HIDE DEF v, own, won
    <2> QED
      BY <2>1, <2>2, <2>3, <2>4
  <1> HIDE DEF v
  <1>5. s.seq \in Nat
    BY DEF State
  <1> QED
    BY <1>2, <1>3, <1>4, <1>5, EmitCounts

\* A move reports at least the spoke it claims.
LEMMA StepCounts ==
  ASSUME NEW s \in State, NEW w \in Slot, NEW d \in Dir, CanStep(s, w, d)
  PROVE  Stepped(s, w, d).seq > s.seq
  <1> DEFINE from == s.pos[w]
             to == Neighbor(from, d)
             c == Claimed(s, w, d)
             r == Recolor(c, w, from)
             m == Moved(s, w, d)
             a == Arrived(s, w, d)
             body == [worm |-> w, at |-> from, to |-> to]
             e == Emit(a, "worm_moved", body)
  <1>1. from \in Point /\ to \in Point /\ s.seq \in Nat
    BY StepEdge DEF State
  <1>2. c \in State /\ c.seq = s.seq + 1
    <2>1. c \in State
      BY ClaimEffect
    <2> DEFINE u == [s EXCEPT !.tick = @ + 1, !.trails[{from, to}] = w]
    <2>2. u \in State /\ u.seq = s.seq
      <3> DEFINE taken == [s.trails EXCEPT ![{from, to}] = w]
                 next == s.tick + 1
      <3>1. taken \in [Edge -> Slot \cup {None}]
        BY DEF State
      <3>2. \A n \in Nat, x \in [Edge -> Slot \cup {None}] :
               /\ [s EXCEPT !.tick = n, !.trails = x] \in State
               /\ [s EXCEPT !.tick = n, !.trails = x].seq = s.seq
        BY DEF State
      <3>3. u = [s EXCEPT !.tick = next, !.trails = taken]
        BY DEF State
      <3>4. next \in Nat
        BY DEF State
      <3> HIDE DEF u, taken, next
      <3> QED
        BY <3>1, <3>2, <3>3, <3>4
    <2> HIDE DEF u
    <2>3. c.seq = u.seq + 1
      BY <2>2, EmitCounts DEF Claimed, u
    <2> QED
      BY <2>1, <2>2, <2>3
  <1> HIDE DEF c
  <1>3. r \in State /\ r.seq >= c.seq /\ r.seq \in Nat
    BY <1>1, <1>2, RecolorCounts, RecolorEffect DEF RecolorDoes
  <1>4. m \in State /\ m.seq = r.seq
    <2>1. m \in State
      BY MovedEffect DEF MoveDoes
    <2>2. m = [r EXCEPT !.pos[w] = to]
      BY DEF Moved, c
    <2> HIDE DEF m, r
    <2> QED
      BY <1>3, <2>1, <2>2 DEF State
  <1>5. a = Recolor(m, w, to)
    BY DEF Arrived
  <1> HIDE DEF m, r
  <1>6. a \in State /\ a.seq >= m.seq /\ a.seq \in Nat
    <2>1. Recolor(m, w, to) \in State
      BY <1>1, <1>4, RecolorEffect DEF RecolorDoes
    <2> HIDE DEF to
    <2> QED
      BY <1>1, <1>4, <1>5, <2>1, RecolorCounts
  <1> HIDE DEF a
  <1>7. e \in State /\ e.seq = a.seq + 1
    <2>1. body \in EventBody
      BY <1>1 DEF EventBody
    <2> QED
      BY <1>6, <2>1, EmitType, EmitCounts DEF EventType
  <1>8. Stepped(s, w, d) \in {e, Kill(e, w, "worm_died")}
    BY StepStages DEF a
  <1> HIDE DEF e
  <1>9. Stepped(s, w, d).seq \in {e.seq, e.seq + 1} /\ e.seq \in Nat
    BY <1>6, <1>7, <1>8, KillCounts
  <1> QED
    BY <1>1, <1>2, <1>3, <1>4, <1>6, <1>7, <1>9

\* A remembered direction is reported and walked.
LEMMA FollowCounts ==
  ASSUME NEW s \in State, Sound(s), NEW w \in Slot, NEW m \in Mask, NEW d \in Dir,
         NEW t \in Follow(s, w, m, d)
  PROVE  t.seq > s.seq
  <1> DEFINE u == UseRule(s, w, m, d)
  <1>1. u \in State
    BY UseRuleLeads
  <1>2. u.seq = s.seq + 1
    BY EmitCounts DEF UseRule
  <1>3. CanStep(u, w, d) /\ t \in Step(u, w, d)
    BY DEF Follow
  <1> HIDE DEF u
  <1>4. t = Stepped(u, w, d)
    BY <1>3, StepIsStepped
  <1>5. t \in State
    BY <1>1, <1>3, <1>4, StepEffect DEF StepDoes
  <1>6. t.seq > u.seq
    BY <1>1, <1>3, <1>4, StepCounts
  <1> QED
    BY <1>1, <1>2, <1>5, <1>6 DEF State

\* Every turn that is taken reports something.
LEMMA DispatchCounts ==
  ASSUME NEW s \in State, Sound(s), NEW w \in Slot, NEW t \in Dispatch(s, w)
  PROVE  t.seq > s.seq
  <1> DEFINE m == MaskAt(s, s.pos[w])
             a == s.rules[w][m]
  <1>1. m \in Mask /\ a \in Action /\ s.seq \in Nat
    <2>1. s.pos[w] \in Point /\ s.rules[w] \in [Mask -> Action] /\ s.seq \in Nat
      BY DEF State
    <2>2. m \in Mask
      BY <2>1, MaskType
    <2> QED
      BY <2>1, <2>2
  <1>2. CASE LegalMoves(s, w) = {} \/ a = DIE
    <2>1. \E cause : t = Kill(s, w, cause)
      BY <1>2 DEF Dispatch, GETNEW, DIE, DOAI, Dir
    <2> QED
      BY <1>1, <2>1, KillCounts
  <1>3. CASE LegalMoves(s, w) # {} /\ a = GETNEW
    <2>1. t = Ask(s, w, m)
      BY <1>3 DEF Dispatch, GETNEW, DIE, DOAI, Dir
    <2> HIDE DEF m
    <2> QED
      BY <1>1, <2>1, AskCounts
  <1>4. CASE LegalMoves(s, w) # {} /\ a = DOAI
    <2>1. PICK d \in AutoChoices(s, w) :
             t \in Follow(IF Frozen(w) THEN s ELSE Learn(s, w, m, d), w, m, d)
      <3>1. Dispatch(s, w) = UNION {Follow(IF Frozen(w) THEN s ELSE Learn(s, w, m, d), w, m, d) :
                                      d \in AutoChoices(s, w)}
        BY <1>4 DEF Dispatch, GETNEW, DIE, DOAI, Dir
      <3> QED
        BY <3>1
    <2>2. d \in Dir /\ d \notin m
      BY DEF AutoChoices, LegalMoves
    <2>3. a \notin Dir
      BY <1>4 DEF DOAI, Dir
    <2> DEFINE u == IF Frozen(w) THEN s ELSE Learn(s, w, m, d)
    <2>4. u \in State /\ Sound(u) /\ u.seq >= s.seq /\ u.seq \in Nat
      <3> HIDE DEF m
      <3>1. CASE Frozen(w)
        BY <1>1, <3>1
      <3>2. CASE ~Frozen(w)
        BY <1>1, <2>2, <2>3, <3>2, LearnLeads, LearnCounts DEF Leads
      <3> QED
        BY <3>1, <3>2
    <2>5. t \in Follow(u, w, m, d)
      BY <2>1
    <2> HIDE DEF u, m
    <2>6. t.seq > u.seq
      BY <1>1, <2>2, <2>4, <2>5, FollowCounts
    <2>7. t \in State
      BY <1>1, <2>2, <2>4, <2>5, FollowLeads DEF Leads
    <2> QED
      BY <1>1, <2>4, <2>6, <2>7 DEF State
  <1>5. CASE LegalMoves(s, w) # {} /\ a \in Dir
    <2>1. t \in Follow(s, w, m, a)
      BY <1>5 DEF Dispatch, GETNEW, DIE, DOAI, Dir
    <2> HIDE DEF m, a
    <2> QED
      BY <1>1, <1>5, <2>1, FollowCounts
  <1> QED
    BY <1>1, <1>2, <1>3, <1>4, <1>5 DEF Action

\* One slot of the loop.
LEMMA VisitCounts ==
  ASSUME NEW s, Good(s), NEW w \in 0 .. 3, NEW first, NEW t \in Visit(s, w, first)
  PROVE  Counts(s, t)
  <1> DEFINE u == [s EXCEPT !.slot = w]
  <1>1. s \in State /\ Sound(s) /\ s.seq \in Nat
    BY DEF Good, State
  <1>2. CASE w \notin Slot \/ w < first \/ s.pending # NoDecision
    <2>1. t = s
      BY <1>2 DEF Visit
    <2> QED
      BY <1>1, <2>1 DEF Counts
  <1>3. CASE w \in Slot /\ ~(w < first) /\ s.pending = NoDecision
    <2>1. t \in IF ~s.alive[w] THEN {u} ELSE Dispatch(u, w)
      BY <1>3 DEF Visit
    <2>2. Leads(s, u) /\ u.pending = s.pending
      BY <1>1, <1>3, SlotLeads
    <2>3. u.seq = s.seq
      BY <1>1 DEF State
    <2> HIDE DEF u
    <2>4. CASE t = u
      BY <1>1, <1>3, <2>2, <2>3, <2>4 DEF Counts
    <2>5. CASE t \in Dispatch(u, w)
      <3>1. t.seq > u.seq
        BY <1>3, <2>2, <2>5, DispatchCounts DEF Leads
      <3>2. t \in State
        <4>1. Runs(s, t)
          BY <1>3, VisitLeads
        <4> QED
          BY <4>1 DEF Runs, Leads
      <3> QED
        BY <1>1, <2>3, <3>1, <3>2 DEF Counts, State
    <2> QED
      BY <2>1, <2>4, <2>5
  <1> QED
    BY <1>2, <1>3

\* What the loop that began at s may be in.
AllCount(s, S) == \A u \in S : Good(u) /\ Counts(s, u)

\* The same for every outcome of the slots before it.
LEMMA VisitAllCounts ==
  ASSUME NEW s \in State, NEW S, NEW w \in 0 .. 3, NEW first, AllCount(s, S)
  PROVE  AllCount(s, VisitAll(S, w, first))
  <1> SUFFICES ASSUME NEW t \in VisitAll(S, w, first)
               PROVE  Good(t) /\ Counts(s, t)
    BY DEF AllCount
  <1>1. PICK u \in S : t \in Visit(u, w, first)
    BY DEF VisitAll
  <1>2. Good(u) /\ Counts(s, u)
    BY DEF AllCount
  <1>3. Good(t)
    BY <1>1, <1>2, VisitLeads DEF Good, Runs, Leads
  <1>4. Counts(u, t)
    BY <1>1, <1>2, VisitCounts
  <1>5. s.seq \in Nat /\ u.seq \in Nat /\ t.seq \in Nat
    BY <1>2, <1>3 DEF Good, State
  <1> QED
    BY <1>2, <1>3, <1>4, <1>5 DEF Counts

\* The whole loop.
LEMMA ScanCounts ==
  ASSUME NEW s, Good(s), NEW first, NEW t \in Scan(s, first)
  PROVE  Good(t) /\ Counts(s, t)
  <1> DEFINE S0 == VisitAll({s}, 0, first)
             S1 == VisitAll(S0, 1, first)
             S2 == VisitAll(S1, 2, first)
             S3 == VisitAll(S2, 3, first)
  <1>1. AllCount(s, {s}) /\ s \in State
    BY DEF AllCount, Counts, Good, State
  <1>2. AllCount(s, S0)
    BY <1>1, VisitAllCounts
  <1>3. t \in S3
    BY DEF Scan
  <1> HIDE DEF S0
  <1>4. AllCount(s, S1)
    BY <1>1, <1>2, VisitAllCounts
  <1> HIDE DEF S1
  <1>5. AllCount(s, S2)
    BY <1>1, <1>4, VisitAllCounts
  <1> HIDE DEF S2
  <1>6. AllCount(s, S3)
    BY <1>1, <1>5, VisitAllCounts
  <1> HIDE DEF S3
  <1> QED
    BY <1>3, <1>6 DEF AllCount

\* The lines after the loop.
LEMMA EndRoundCounts ==
  ASSUME NEW s, Good(s)
  PROVE  Counts(s, EndRound(s))
  <1> DEFINE u    == [s EXCEPT !.slot = None, !.round = @ + 1]
             body == [worm |-> None]
             done == Emit(u, "round_completed", body)
             last == [done EXCEPT !.over = TRUE]
             end  == Emit(last, "game_over", body)
  <1>1. s \in State /\ s.seq \in Nat
    BY DEF Good, State
  <1>2. CASE s.pending # NoDecision
    BY <1>1, <1>2 DEF EndRound, Counts
  <1>3. CASE s.pending = NoDecision
    <2>1. u \in State /\ u.seq = s.seq /\ u.pending = s.pending
      <3>1. \A n \in Nat : LET v == [s EXCEPT !.slot = None, !.round = n]
                           IN  v \in State /\ v.seq = s.seq /\ v.pending = s.pending
        BY <1>1 DEF State
      <3>2. s.round + 1 \in Nat
        BY <1>1 DEF State
      <3> DEFINE next == s.round + 1
      <3>3. u = [s EXCEPT !.slot = None, !.round = next]
        OBVIOUS
      <3> HIDE DEF u, next
      <3> QED
        BY <3>1, <3>2, <3>3 DEF next
    <2>2. EndRound(s) \in {done, end}
      BY <1>3 DEF EndRound
    <2> HIDE DEF u
    <2>3. done \in State /\ done.seq = s.seq + 1 /\ done.pending = NoDecision
      <3>1. body \in EventBody /\ "round_completed" \in EventType
        BY DEF EventBody, EventType
      <3> QED
        BY <1>3, <2>1, <3>1, EmitType, EmitCounts DEF SameGame
    <2> HIDE DEF done
    <2>4. last \in State /\ last.seq = done.seq /\ last.pending = NoDecision
      BY <2>3 DEF State
    <2> HIDE DEF last
    <2>5. end.seq = last.seq + 1 /\ end.pending = NoDecision
      <3>1. body \in EventBody /\ "game_over" \in EventType
        BY DEF EventBody, EventType
      <3> QED
        BY <2>4, <3>1, EmitType, EmitCounts DEF SameGame
    <2> HIDE DEF end
    <2> QED
      BY <1>1, <2>2, <2>3, <2>4, <2>5 DEF Counts
  <1> QED
    BY <1>2, <1>3

\* A question that is open after a handler has been asked by it.
Fresher(s, t) == t.seq >= s.seq /\ (t.pending # NoDecision => t.seq > s.seq)

\* AdvanceRound starts with nothing pending.
LEMMA AdvanceCounts ==
  ASSUME NEW s, Good(s), CanAdvance(s), NEW t \in AdvanceOutcomes(s)
  PROVE  Fresher(s, t)
  <1> DEFINE q == Quiet(s)
  <1>1. s \in State /\ Sound(s) /\ s.pending = NoDecision /\ s.seq \in Nat
    BY DEF Good, CanAdvance, State
  <1>2. Leads(s, q) /\ SameGame(s, q)
    BY <1>1, QuietLeads
  <1>3. q.seq = s.seq
    BY <1>1 DEF Quiet, State
  <1>4. PICK first, u : u \in Scan(q, first) /\ t = EndRound(u)
    BY DEF AdvanceOutcomes
  <1> HIDE DEF q
  <1>5. Good(q) /\ q.pending = NoDecision
    BY <1>1, <1>2 DEF Good, Leads, SameGame, PendingCurrent
  <1>6. Good(u) /\ Counts(q, u)
    BY <1>4, <1>5, ScanCounts
  <1>7. Counts(u, t)
    BY <1>4, <1>6, EndRoundCounts
  <1>8. t.seq \in Nat /\ u.seq \in Nat
    <2>1. Runs(s, t)
      BY AdvanceLeads
    <2> QED
      BY <1>6, <2>1 DEF Runs, Leads, Good, State
  <1> QED
    BY <1>1, <1>3, <1>5, <1>6, <1>7, <1>8 DEF Counts, Fresher

\* Submit closes the question it answers before it goes on.
LEMMA SubmitCounts ==
  ASSUME NEW s, Good(s), ~s.over, NEW d \in Dir, CanSubmit(s, d),
         NEW t \in SubmitOutcomes(s, d)
  PROVE  Fresher(s, t)
  <1> DEFINE w == s.pending.slot
             m == s.pending.mask
             q == Quiet(s)
             l == Learn(q, w, m, d)
             answered == [l EXCEPT !.pending = NoDecision, !.slot = w + 1]
  <1>1. s \in State /\ Sound(s) /\ PendingCurrent(s) /\ s.pending # NoDecision /\ s.seq \in Nat
    BY DEF Good, CanSubmit, State
  <1>2. w \in Slot /\ m \in Mask
    <2>1. s.pending \in Decision
      BY <1>1 DEF State
    <2> QED
      BY <1>1, <2>1 DEF Decision
  <1>3. m = MaskAt(s, s.pos[w]) /\ s.rules[w][m] = GETNEW
    BY <1>1 DEF PendingCurrent
  <1>4. d \notin m
    BY <1>3 DEF CanSubmit, LegalMoves
  <1>5. Leads(s, q) /\ SameGame(s, q) /\ q \in State /\ Sound(q)
    BY <1>1, QuietLeads DEF Leads
  <1>6. q.seq = s.seq
    BY <1>1 DEF Quiet, State
  <1> HIDE DEF q, w, m
  <1>7. q.rules[w][m] \notin Dir
    BY <1>3, <1>5 DEF SameGame, GETNEW, Dir
  <1>8. l \in State /\ Sound(l) /\ SameTurn(q, l)
    BY <1>2, <1>4, <1>5, <1>7, LearnLeads DEF Leads
  <1>9. l.seq = s.seq + 1
    BY <1>2, <1>5, <1>6, LearnCounts
  <1> HIDE DEF l
  <1>10. answered \in State /\ SameBoard(l, answered) /\ answered.pending = NoDecision
         /\ answered.seq = l.seq
    <2>1. w + 1 \in Slot \cup {None, N} /\ NoDecision \in Decision
      BY <1>2, EngineAssumption DEF Slot, Decision
    <2>2. \A n \in Slot \cup {None, N}, f \in Decision :
             /\ [l EXCEPT !.pending = f, !.slot = n] \in State
             /\ SameBoard(l, [l EXCEPT !.pending = f, !.slot = n])
             /\ [l EXCEPT !.pending = f, !.slot = n].pending = f
             /\ [l EXCEPT !.pending = f, !.slot = n].seq = l.seq
      BY <1>8 DEF State, SameBoard
    <2> QED
      BY <2>1, <2>2
  <1>11. PICK u, v : /\ u \in Follow(answered, w, m, d)
                     /\ v \in Scan(u, w + 1)
                     /\ t = EndRound(v)
    BY DEF SubmitOutcomes, q, w, m, l
  <1> HIDE DEF answered
  <1>12. Sound(answered)
    BY <1>8, <1>10, SameBoardLeads DEF Leads
  <1>13. Leads(answered, u) /\ SameTurn(answered, u)
    BY <1>2, <1>10, <1>11, <1>12, FollowLeads
  <1>14. Good(u) /\ u.pending = NoDecision
    BY <1>10, <1>13 DEF Good, Leads, SameTurn, PendingCurrent
  <1>15. u.seq > answered.seq
    BY <1>2, <1>10, <1>11, <1>12, FollowCounts
  <1>16. Good(v) /\ Counts(u, v)
    BY <1>11, <1>14, ScanCounts
  <1>17. Counts(v, t)
    BY <1>11, <1>16, EndRoundCounts
  <1>18. u.seq \in Nat /\ v.seq \in Nat /\ t.seq \in Nat
    <2>1. Runs(s, t)
      BY SubmitLeads
    <2> QED
      BY <1>14, <1>16, <2>1 DEF Runs, Leads, Good, State
  <1> QED
    BY <1>1, <1>9, <1>10, <1>14, <1>15, <1>16, <1>17, <1>18 DEF Counts, Fresher

------------------------------------------------------------------------------
(* The invariant of a match.                                                   *)

OutcomeRecord ==
  [request : Nat, slot : Slot, kind : {"accepted", "timeout", "disconnect", "resigned"}]

\* No decision has two outcomes.
Once(outs) == \A i, j \in DOMAIN outs : outs[i].request = outs[j].request => i = j

\* A game and the outcomes on record: those are of decisions asked before the one
\* that is open.
Story(s, outs) ==
  /\ Good(s)
  /\ s.over => ~Pending(s)
  /\ outs \in Seq(OutcomeRecord)
  /\ \A i \in DOMAIN outs : /\ outs[i].request <= s.seq
                            /\ Pending(s) => outs[i].request < s.pending.request
  /\ Once(outs)

\* The deadlines that a match may hold beside a stored one.
Dates(due) == {d \in Due : due # "none" => d = due}

Waiting(s, d, b) == [phase |-> "waiting", state |-> s, due |-> d, before |-> b]

HasReply(s, d, b, r) ==
  [phase |-> "replied", state |-> s, due |-> d, before |-> b, reply |-> r]

\* What the process may hold while s and a deadline are stored: nothing, or s
\* itself, with a method under way only if a decision is open.
Holds(m, s, due) ==
  \/ m = Gone
  \/ \E d \in Dates(due) : m = InMemory(s, d)
  \/ /\ Pending(s)
     /\ \E d, b \in Dates(due) :
          \/ m \in {Calling(s, d, b), Waiting(s, d, b)}
          \/ \E r : m = HasReply(s, d, b, r)

MatchInv ==
  /\ Story(game, outcomes)
  /\ stored.due \in Due
  /\ Holds(memory, game, stored.due)

\* A write that succeeds stores a later game and at most the outcome of the decision
\* that was open; one that fails brings the handler's runtime snapshot back.
LEMMA PersistHolds ==
  ASSUME MatchInv,
         NEW s, Good(s), s.over => ~Pending(s), Fresher(game, s),
         NEW due \in Due, NEW status,
         NEW new, \/ new = << >>
                  \/ /\ Pending(game)
                     /\ \E kind \in {"accepted", "timeout", "disconnect", "resigned"} :
                          new = <<Outcome(game, kind)>>,
         NEW next, Holds(next, s, due),
         NEW back, Holds(back, game, stored.due),
         Persist(s, due, status, new, next, back)
  PROVE  MatchInv'
  <1>1. CASE /\ game' = s
             /\ stored' = [status |-> status, due |-> due]
             /\ outcomes' = outcomes \o new
             /\ memory' = next
    <2>1. stored'.due = due
      BY <1>1
    <2>2. Holds(memory', game', stored'.due)
      BY <1>1, <2>1
    <2>3. /\ Good(game) /\ outcomes \in Seq(OutcomeRecord) /\ Once(outcomes)
          /\ \A i \in DOMAIN outcomes :
               /\ outcomes[i].request <= game.seq
               /\ Pending(game) => outcomes[i].request < game.pending.request
      BY DEF MatchInv, Story
    <2>4. game.seq \in Nat /\ s.seq \in Nat /\ s.seq >= game.seq
          /\ (Pending(s) => s.seq > game.seq /\ s.pending.request = s.seq)
      BY <2>3 DEF Good, State, Fresher, Pending, PendingCurrent
    <2>5. \A i \in DOMAIN outcomes : outcomes[i] \in OutcomeRecord
      BY <2>3
    <2>6. CASE new = << >>
      <3>1. outcomes' = outcomes
        BY <1>1, <2>3, <2>6
      <3>2. Story(s, outcomes)
        <4>1. \A i \in DOMAIN outcomes : /\ outcomes[i].request <= s.seq
                                         /\ Pending(s) => outcomes[i].request < s.pending.request
          BY <2>3, <2>4, <2>5 DEF OutcomeRecord
        <4> QED
          BY <2>3, <4>1 DEF Story
      <3> QED
        BY <1>1, <2>1, <2>2, <3>1, <3>2 DEF MatchInv
    <2>7. CASE /\ Pending(game)
               /\ \E kind \in {"accepted", "timeout", "disconnect", "resigned"} :
                    new = <<Outcome(game, kind)>>
      <3>1. PICK kind \in {"accepted", "timeout", "disconnect", "resigned"} :
               new = <<Outcome(game, kind)>>
        BY <2>7
      <3> DEFINE o == Outcome(game, kind)
      <3>2. o \in OutcomeRecord /\ o.request = game.seq /\ o.request = game.pending.request
        <4>1. game.pending \in Decision /\ game.pending # NoDecision
              /\ game.pending.request = game.seq
          BY <2>3, <2>7 DEF Good, State, Pending, PendingCurrent
        <4> QED
          BY <4>1 DEF Outcome, OutcomeRecord, Decision
      <3> HIDE DEF o
      <3>3. outcomes' = Append(outcomes, o)
        BY <1>1, <2>3, <3>1, <3>2 DEF o
      <3>4. /\ outcomes' \in Seq(OutcomeRecord)
            /\ DOMAIN outcomes' = DOMAIN outcomes \cup {Len(outcomes) + 1}
            /\ Len(outcomes) + 1 \notin DOMAIN outcomes
            /\ \A i \in DOMAIN outcomes : outcomes'[i] = outcomes[i]
            /\ outcomes'[Len(outcomes) + 1] = o
        BY <2>3, <3>2, <3>3
      <3>5. \A i \in DOMAIN outcomes : outcomes[i].request < o.request
        BY <2>3, <2>7, <3>2
      <3>6. Once(outcomes')
        <4>1. \A i \in DOMAIN outcomes : outcomes[i].request # o.request
          BY <2>5, <3>2, <3>5 DEF OutcomeRecord
        <4> QED
          BY <2>3, <3>4, <4>1 DEF Once
      <3>7. \A i \in DOMAIN outcomes' :
              /\ outcomes'[i].request <= s.seq
              /\ Pending(s) => outcomes'[i].request < s.pending.request
        <4>1. \A i \in DOMAIN outcomes' :
                /\ outcomes'[i].request \in Nat
                /\ outcomes'[i].request <= game.seq
          BY <2>3, <2>4, <2>5, <3>2, <3>4 DEF OutcomeRecord
        <4> QED
          BY <2>4, <4>1
      <3>8. Story(s, outcomes')
        BY <3>4, <3>6, <3>7 DEF Story
      <3> QED
        BY <1>1, <2>1, <2>2, <3>8 DEF MatchInv
    <2> QED
      BY <2>6, <2>7
  <1>2. CASE memory' = back /\ UNCHANGED <<game, stored, outcomes>>
    BY <1>2 DEF MatchInv
  <1> QED
    BY <1>1, <1>2 DEF Persist

\* Dropping the events of the handler changes no count.
LEMMA QuietStory ==
  ASSUME NEW s, NEW t, Runs(s, t), ScanEnded(t), Fresher(s, t)
  PROVE  /\ Good(Quiet(t)) /\ Fresher(s, Quiet(t))
         /\ Quiet(t).over => ~Pending(Quiet(t))
         /\ Pending(Quiet(t)) <=> Pending(t)
  <1>1. t \in State /\ Sound(t) /\ PendingCurrent(t)
    BY DEF Runs, Leads
  <1>2. Leads(t, Quiet(t)) /\ SameGame(t, Quiet(t))
    BY <1>1, QuietLeads
  <1>3. Quiet(t).seq = t.seq
    BY <1>1 DEF Quiet, State
  <1> DEFINE q == Quiet(t)
  <1>4. q \in State /\ Sound(q) /\ SameGame(t, q) /\ q.seq = t.seq
    BY <1>2, <1>3 DEF Leads
  <1> HIDE DEF q
  <1>5. PendingCurrent(q)
    <2>1. \A p \in Point : MaskAt(q, p) = MaskAt(t, p)
      BY <1>4 DEF SameGame, MaskAt, TrailMask
    <2>2. \A w \in Slot : LegalMoves(q, w) = LegalMoves(t, w)
      <3>1. \A w \in Slot : MaskAt(q, q.pos[w]) = MaskAt(t, t.pos[w])
        BY <1>1, <1>4, <2>1 DEF SameGame, State
      <3> QED
        BY <1>4, <3>1 DEF SameGame, LegalMoves, WormAt
    <2>3. t.pending # NoDecision => t.pending.slot \in Slot
      BY <1>1 DEF State, Decision
    <2> QED
      BY <1>1, <1>4, <2>1, <2>2, <2>3 DEF PendingCurrent, SameGame, State
  <1>6. q.pending = t.pending /\ q.over = t.over
    BY <1>4 DEF SameGame
  <1> QED
    BY <1>4, <1>5, <1>6 DEF q, Good, Fresher, Pending, ScanEnded

\* resolveTerminalLocked takes one worm out and leaves the board as it is.
LEMMA EndedEffect ==
  ASSUME NEW s \in State, Pending(s)
  PROVE  LET t == Ended(s)
         IN  /\ t \in State /\ SameBoard(s, t) /\ t.pending = NoDecision
             /\ t.seq = s.seq /\ t.alive = [s.alive EXCEPT ![s.pending.slot] = FALSE]
             /\ s.pending.slot \in Slot
  <1> DEFINE w == s.pending.slot
             u == [s EXCEPT !.alive[w] = FALSE, !.pending = NoDecision, !.slot = w + 1]
             t == Ended(s)
  <1>1. s \in State
    OBVIOUS
  <1>2. w \in Slot
    BY <1>1 DEF Pending, State, Decision
  <1>3. w + 1 \in Slot \cup {None, N} /\ NoDecision \in Decision
    BY <1>2, EngineAssumption DEF Slot, Decision
  <1> HIDE DEF w
  <1> DEFINE left == [s.alive EXCEPT ![w] = FALSE]
  <1>4. left \in [Slot -> BOOLEAN] /\ \A v \in Slot : left[v] => s.alive[v]
    BY <1>1, <1>2 DEF State
  <1>5. u = [s EXCEPT !.alive = left, !.pending = NoDecision, !.slot = w + 1]
    BY <1>1, <1>2 DEF State
  <1> HIDE DEF left, u
  <1>6. t = [s EXCEPT !.alive = left, !.pending = NoDecision, !.slot = w + 1,
                      !.over = \A v \in Slot : ~u.alive[v]]
    <2>1. t = [u EXCEPT !.over = \A v \in Slot : ~u.alive[v]]
      BY DEF Ended, u, w
    <2> QED
      BY <1>1, <1>5, <2>1 DEF State
  <1> HIDE DEF t
  <1>7. /\ t \in State /\ SameBoard(s, t) /\ t.pending = NoDecision /\ t.seq = s.seq
        /\ t.alive = left
    <2> DEFINE done == \A v \in Slot : ~u.alive[v]
    <2>1. done \in BOOLEAN
      OBVIOUS
    <2>2. t = [s EXCEPT !.alive = left, !.pending = NoDecision, !.slot = w + 1, !.over = done]
      BY <1>6
    <2> HIDE DEF done
    <2> DEFINE next == w + 1
    <2>3. /\ next \in Slot \cup {None, N}
          /\ t = [s EXCEPT !.alive = left, !.pending = NoDecision, !.slot = next, !.over = done]
      BY <1>3, <2>2
    <2> HIDE DEF next
    <2>4. t \in State
      BY <1>1, <1>3, <1>4, <2>1, <2>3 DEF State
    <2>5. /\ t.rules = s.rules /\ t.trails = s.trails /\ t.owner = s.owner
          /\ t.cached = s.cached /\ t.score = s.score /\ t.pos = s.pos
          /\ t.alive = left /\ t.pending = NoDecision /\ t.seq = s.seq
      BY <1>1, <2>3 DEF State
    <2> QED
      BY <1>4, <2>4, <2>5 DEF SameBoard
  <1> QED
    BY <1>2, <1>7 DEF t, w, left

\* A worm that is taken out, or a game that is stopped, leaves the board as it is
\* and nothing open.
LEMMA EndedStory ==
  ASSUME NEW s, Good(s), Pending(s)
  PROVE  LET t == Ended(s) IN Good(t) /\ Fresher(s, t) /\ ~Pending(t)
  <1> DEFINE t == Ended(s)
  <1>1. s \in State /\ Sound(s) /\ s.seq \in Nat
    BY DEF Good, State
  <1>2. t \in State /\ SameBoard(s, t) /\ t.pending = NoDecision /\ t.seq = s.seq
    BY <1>1, EndedEffect
  <1> HIDE DEF t
  <1>3. Sound(t)
    BY <1>1, <1>2, SameBoardLeads DEF Leads
  <1> QED
    BY <1>1, <1>2, <1>3 DEF t, Good, PendingCurrent, Fresher, Pending

\* The same for Stop.
LEMMA StoppedStory ==
  ASSUME NEW s, Good(s)
  PROVE  LET t == [s EXCEPT !.pending = NoDecision, !.over = TRUE]
         IN  Good(t) /\ Fresher(s, t) /\ ~Pending(t)
  <1> DEFINE t == [s EXCEPT !.pending = NoDecision, !.over = TRUE]
  <1>1. s \in State /\ Sound(s) /\ s.seq \in Nat /\ NoDecision \in Decision
    BY DEF Good, State, Decision
  <1>2. t \in State /\ SameBoard(s, t) /\ t.pending = NoDecision /\ t.seq = s.seq
    BY <1>1 DEF State, SameBoard
  <1> HIDE DEF t
  <1>3. Sound(t)
    BY <1>1, <1>2, SameBoardLeads DEF Leads
  <1> QED
    BY <1>1, <1>2, <1>3 DEF t, Good, PendingCurrent, Fresher, Pending

\* However a decision ends, an idle match with the stored game is left, or what the
\* handler brings back; and after a deadline it ends with the timeout.
LEMMA JudgeHolds ==
  ASSUME MatchInv, Pending(game), NEW due \in Dates(stored.due), NEW r,
         NEW back, Holds(back, game, stored.due), Judge(game, due, r, back)
  PROVE  /\ MatchInv'
         /\ (stored.due = "passed" /\ outcomes' # outcomes) =>
              outcomes'[Len(outcomes')].kind # "accepted"
  <1>1. Good(game) /\ ~game.over /\ outcomes \in Seq(OutcomeRecord)
    BY DEF MatchInv, Story
  <1>2. ASSUME NEW kind \in {"timeout", "disconnect", "resigned"},
               Terminate(game, kind, back)
        PROVE  MatchInv'
    <2> DEFINE s == Ended(game)
    <2>1. Good(s) /\ Fresher(game, s) /\ ~Pending(s)
      BY <1>1, EndedStory
    <2>2. Persist(s, "none", StatusOf(s), <<Outcome(game, kind)>>, InMemory(s, "none"), back)
      BY <1>2 DEF Terminate
    <2> HIDE DEF s
    <2>3. Holds(InMemory(s, "none"), s, "none") /\ "none" \in Due
      BY DEF Holds, Dates, Due
    <2>4. kind \in {"accepted", "timeout", "disconnect", "resigned"}
      BY <1>2
    <2> QED
      BY <2>1, <2>2, <2>3, <2>4, PersistHolds
  <1>3. ASSUME NEW kind, Terminate(game, kind, back), outcomes' # outcomes
        PROVE  outcomes'[Len(outcomes')].kind = kind
    <2>1. outcomes' = outcomes \o <<Outcome(game, kind)>>
      BY <1>3 DEF Terminate, Persist
    <2>2. outcomes'[Len(outcomes')] = Outcome(game, kind)
      BY <1>1, <2>1
    <2> QED
      BY <2>2 DEF Outcome
  <1>4. CASE due = "passed"
    <2>1. Terminate(game, "timeout", back)
      BY <1>4 DEF Judge
    <2> QED
      BY <1>2, <1>3, <2>1
  <1>5. CASE due # "passed"
    <2>1. stored.due # "passed"
      BY <1>5 DEF Dates
    <2>2. CASE r = Fails
      <3>1. Terminate(game, "disconnect", back)
        BY <1>5, <2>2 DEF Judge
      <3> QED
        BY <1>2, <2>1, <3>1
    <2>3. CASE r # Fails /\ r = Resign
      <3>1. Terminate(game, "resigned", back)
        BY <1>5, <2>3 DEF Judge
      <3> QED
        BY <1>2, <2>1, <3>1
    <2>4. CASE r # Fails /\ r # Resign /\ Playable(game, r)
      <3>1. Accept(game, r.dir, back)
        BY <1>5, <2>4 DEF Judge
      <3>2. PICK t \in SubmitOutcomes(game, r.dir) :
               Persist(Quiet(t), "none", StatusOf(t), <<Outcome(game, "accepted")>>,
                       InMemory(Quiet(t), "none"), back)
        BY <3>1 DEF Accept
      <3>3. r.dir \in Dir /\ CanSubmit(game, r.dir)
        BY <2>4 DEF Playable, CanSubmit, LegalMoves
      <3>4. Runs(game, t) /\ ScanEnded(t) /\ Fresher(game, t)
        BY <1>1, <3>3, SubmitLeads, SubmitCounts
      <3> DEFINE s == Quiet(t)
                 status == StatusOf(t)
      <3>5. Good(s) /\ Fresher(game, s) /\ (s.over => ~Pending(s))
        BY <3>4, QuietStory
      <3>6. Persist(s, "none", status, <<Outcome(game, "accepted")>>, InMemory(s, "none"), back)
        BY <3>2
      <3> HIDE DEF s, status
      <3>7. Holds(InMemory(s, "none"), s, "none") /\ "none" \in Due
        BY DEF Holds, Dates, Due
      <3>8. MatchInv'
        BY <3>5, <3>6, <3>7, PersistHolds
      <3> QED
        BY <2>1, <3>8
    <2>5. CASE r # Fails /\ r # Resign /\ ~Playable(game, r)
      <3>1. memory' = back /\ UNCHANGED <<game, stored, outcomes>>
        BY <1>5, <2>5 DEF Judge
      <3> QED
        BY <2>1, <3>1 DEF MatchInv
    <2> QED
      BY <2>2, <2>3, <2>4, <2>5
  <1> QED
    BY <1>4, <1>5

------------------------------------------------------------------------------
(* Every action, on the invariant and on the deadline.                         *)

\* A stored deadline that has passed lets nothing be accepted in this step.
TooLate ==
  (stored.due = "passed" /\ outcomes' # outcomes) =>
    outcomes'[Len(outcomes')].kind # "accepted"

\* A round is played from the stored game, and the question that ends it is new.
LEMMA RoundHolds ==
  ASSUME MatchInv, RunRound
  PROVE  MatchInv' /\ TooLate
  <1>1. PICK d \in Dates(stored.due) : memory = InMemory(game, d)
    BY DEF RunRound, Idle, MatchInv, Holds, Gone, Calling, Waiting, HasReply
  <1>2. memory.state = game /\ memory.due = d
    BY <1>1 DEF InMemory
  <1>3. PICK t \in AdvanceOutcomes(game) :
           LET s   == Quiet(t)
               due == IF Pending(s) THEN Asked(d) ELSE d
           IN  Persist(s, due, StatusOf(s), << >>,
                       IF Automated(s) THEN Calling(s, due, due) ELSE InMemory(s, due),
                       memory)
    BY <1>2 DEF RunRound
  <1> DEFINE s    == Quiet(t)
             due  == IF Pending(s) THEN Asked(d) ELSE d
             next == IF Automated(s) THEN Calling(s, due, due) ELSE InMemory(s, due)
             status == StatusOf(s)
  <1>4. Good(game) /\ CanAdvance(game)
    BY <1>2 DEF MatchInv, Story, RunRound
  <1>5. Runs(game, t) /\ ScanEnded(t) /\ Fresher(game, t)
    BY <1>4, AdvanceLeads, AdvanceCounts
  <1>6. Good(s) /\ Fresher(game, s) /\ (s.over => ~Pending(s))
    BY <1>5, QuietStory
  <1>7. Persist(s, due, status, << >>, next, memory)
    BY <1>3
  <1> HIDE DEF s, status
  <1>8. due \in Due
    BY DEF Dates, Due, Asked
  <1> HIDE DEF due
  <1>9. Holds(next, s, due)
    BY <1>8 DEF Holds, Dates, Automated
  <1> HIDE DEF next
  <1>10. Holds(memory, game, stored.due)
    BY DEF MatchInv
  <1>11. MatchInv'
    BY <1>6, <1>7, <1>8, <1>9, <1>10, PersistHolds
  <1>12. outcomes' = outcomes
    BY <1>7 DEF Persist, MatchInv, Story
  <1> QED
    BY <1>11, <1>12 DEF TooLate

\* Asking a controller, hearing from it and passing time leave game and outcomes.
LEMMA AskingHolds ==
  ASSUME MatchInv, AskAgain \/ Decide \/ Begin \/ SessionDecides \/ Expire
  PROVE  MatchInv' /\ TooLate
  <1>1. UNCHANGED <<game, outcomes>>
    BY DEF AskAgain, Decide, Begin, SessionDecides, Expire
  <1>2. stored'.due \in Due /\ Holds(memory', game, stored'.due)
    <2>1. CASE AskAgain
      <3>1. PICK d \in Dates(stored.due) : memory = InMemory(game, d)
        BY <2>1 DEF AskAgain, Idle, MatchInv, Holds, Gone, Calling, Waiting, HasReply
      <3>2. Pending(game) /\ memory' = Calling(game, Asked(d), d) /\ stored' = stored
        BY <2>1, <3>1 DEF AskAgain, Automated, InMemory
      <3>3. Asked(d) \in Dates(stored.due)
        BY DEF Dates, Asked, Due, MatchInv
      <3> QED
        BY <3>2, <3>3 DEF Holds, MatchInv
    <2>2. CASE Decide \/ Begin \/ SessionDecides
      <3>1. memory.phase \in {"calling", "waiting"} /\ stored' = stored
        BY <2>2 DEF Decide, Begin, SessionDecides
      <3>2. Pending(game)
        BY <3>1 DEF MatchInv, Holds, Gone, InMemory
      <3>3. PICK d, b \in Dates(stored.due) : memory \in {Calling(game, d, b), Waiting(game, d, b)}
        BY <3>1 DEF MatchInv, Holds, Gone, InMemory, HasReply
      <3>4. memory.state = game /\ memory.due = d /\ memory.before = b
        BY <3>3 DEF Calling, Waiting
      <3>5. \/ \E r : memory' = Replied(r)
            \/ memory' = [memory EXCEPT !.phase = "waiting"]
        BY <2>2 DEF Decide, Begin, SessionDecides, Respond
      <3>6. CASE \E r : memory' = Replied(r)
        <4>1. PICK r : memory' = HasReply(game, d, b, r)
          BY <3>4, <3>6 DEF Replied, HasReply
        <4> QED
          BY <3>1, <3>2, <4>1 DEF Holds, MatchInv
      <3>7. CASE memory' = [memory EXCEPT !.phase = "waiting"]
        <4>1. memory' = Waiting(game, d, b)
          BY <3>3, <3>7 DEF Calling, Waiting
        <4> QED
          BY <3>1, <3>2, <4>1 DEF Holds, MatchInv
      <3> QED
        BY <3>5, <3>6, <3>7
    <2>3. CASE Expire
      <3>1. memory # Gone /\ memory.due = "ahead"
        BY <2>3 DEF Expire
      <3>2. stored'.due = Later(stored.due) /\ Later(stored.due) \in Due
        <4>1. stored' = [stored EXCEPT !.due = Later(@)]
          BY <2>3 DEF Expire
        <4> QED
          BY <4>1 DEF Later, Due, MatchInv
      <3>3. "passed" \in Dates(Later(stored.due))
            \/ "ahead" \notin Dates(stored.due)
        BY DEF Dates, Later, Due, MatchInv
      <3>4. \A b \in Dates(stored.due) : Later(b) \in Dates(Later(stored.due))
        BY DEF Dates, Later, Due, MatchInv
      <3>5. CASE \E d \in Dates(stored.due) : memory = InMemory(game, d)
        <4>1. memory = InMemory(game, "ahead") /\ "ahead" \in Dates(stored.due)
          BY <3>1, <3>5 DEF InMemory
        <4>2. memory' = InMemory(game, "passed")
          BY <2>3, <4>1 DEF Expire, InMemory
        <4> QED
          BY <3>2, <3>3, <4>1, <4>2 DEF Holds
      <3>6. CASE ~\E d \in Dates(stored.due) : memory = InMemory(game, d)
        <4>1. Pending(game)
          BY <3>1, <3>6 DEF MatchInv, Holds
        <4>2. PICK d, b \in Dates(stored.due) :
                 \/ memory \in {Calling(game, d, b), Waiting(game, d, b)}
                 \/ \E r : memory = HasReply(game, d, b, r)
          BY <3>1, <3>6 DEF MatchInv, Holds
        <4>3. d = "ahead"
          BY <3>1, <4>2 DEF Calling, Waiting, HasReply
        <4>4. \/ memory' \in {Calling(game, "passed", Later(b)), Waiting(game, "passed", Later(b))}
              \/ \E r : memory' = HasReply(game, "passed", Later(b), r)
          <5>1. CASE memory = Calling(game, d, b)
            BY <2>3, <5>1 DEF Expire, Calling
          <5>2. CASE memory = Waiting(game, d, b)
            BY <2>3, <5>2 DEF Expire, Waiting
          <5>3. CASE \E r : memory = HasReply(game, d, b, r)
            <6>1. PICK r : memory = HasReply(game, d, b, r)
              BY <5>3
            <6>2. memory' = HasReply(game, "passed", Later(b), r)
              BY <2>3, <6>1 DEF Expire, HasReply
            <6> QED
              BY <6>2
          <5> QED
            BY <4>2, <5>1, <5>2, <5>3
        <4>5. "passed" \in Dates(stored'.due) /\ Later(b) \in Dates(stored'.due)
          BY <3>2, <3>3, <3>4, <4>3
        <4> DEFINE due == stored'.due
                   m == memory'
        <4>6. Holds(m, game, due)
          <5> HIDE DEF due, m
          <5> QED
            BY <4>1, <4>4, <4>5 DEF Holds, due, m
        <4> QED
          BY <3>2, <4>6
      <3> QED
        BY <3>5, <3>6
    <2> QED
      BY <2>1, <2>2, <2>3
  <1> QED
    BY <1>1, <1>2 DEF MatchInv, TooLate

\* The controller has returned, or somebody answers by hand.
LEMMA EndingHolds ==
  ASSUME MatchInv, Conclude \/ SubmitByHand \/ ResolveByHand
  PROVE  MatchInv' /\ TooLate
  <1>1. CASE Conclude
    <2>1. Pending(game)
      BY <1>1 DEF Conclude, MatchInv, Holds, Gone, InMemory
    <2>2. PICK d, b \in Dates(stored.due) :
             \E r : memory = HasReply(game, d, b, r)
      BY <1>1 DEF Conclude, MatchInv, Holds, Gone, InMemory, Calling, Waiting
    <2>3. Judge(game, d, memory.reply, InMemory(game, b))
      BY <1>1, <2>2 DEF Conclude, HasReply
    <2>4. Holds(InMemory(game, b), game, stored.due)
      BY DEF Holds
    <2> QED
      BY <2>1, <2>3, <2>4, JudgeHolds DEF TooLate
  <1>2. CASE SubmitByHand \/ ResolveByHand
    <2>1. PICK d \in Dates(stored.due) : memory = InMemory(game, d)
      BY <1>2 DEF SubmitByHand, ResolveByHand, Idle, MatchInv, Holds, Gone, Calling,
          Waiting, HasReply
    <2>2. memory.state = game /\ memory.due = d /\ Pending(game)
      BY <1>2, <2>1 DEF SubmitByHand, ResolveByHand, InMemory
    <2>3. Asked(d) \in Dates(stored.due)
      BY DEF Dates, Asked, Due, MatchInv
    <2> DEFINE back == InMemory(game, Asked(d))
    <2>4. Holds(back, game, stored.due)
      BY <2>3 DEF Holds
    <2>5. CASE SubmitByHand
      <3>1. PICK r : Judge(game, Asked(d), r, back)
        BY <2>2, <2>5 DEF SubmitByHand
      <3> HIDE DEF back
      <3> QED
        BY <2>2, <2>3, <2>4, <3>1, JudgeHolds DEF TooLate
    <2>6. CASE ResolveByHand
      <3>1. CASE d = "passed"
        <4>1. Judge(game, Asked(d), Fails, back)
          BY <2>2, <2>6, <3>1 DEF ResolveByHand, Judge, Asked
        <4> HIDE DEF back
        <4> QED
          BY <2>2, <2>3, <2>4, <4>1, JudgeHolds DEF TooLate
      <3>2. CASE d # "passed"
        <4>1. memory' = back /\ UNCHANGED <<game, stored, outcomes>>
          BY <2>2, <2>6, <3>2 DEF ResolveByHand
        <4> HIDE DEF back
        <4> QED
          BY <2>4, <4>1 DEF MatchInv, TooLate
      <3> QED
        BY <3>1, <3>2
    <2> QED
      BY <1>2, <2>5, <2>6
  <1> QED
    BY <1>1, <1>2

\* Stop, and what happens around the match.
LEMMA OtherHolds ==
  ASSUME MatchInv, Stop \/ ExpireAtRest \/ Crash \/ ResumeMatch \/ Outsider
  PROVE  MatchInv' /\ TooLate
  <1>1. CASE Stop
    <2>1. PICK d \in Dates(stored.due) : memory = InMemory(game, d)
      BY <1>1 DEF Stop, Idle, MatchInv, Holds, Gone, Calling, Waiting, HasReply
    <2> DEFINE t == [game EXCEPT !.pending = NoDecision, !.over = TRUE]
    <2>2. Good(t) /\ Fresher(game, t) /\ ~Pending(t)
      BY StoppedStory DEF MatchInv, Story
    <2>3. Persist(t, "none", "stopped", << >>, InMemory(t, "none"), memory)
      BY <1>1, <2>1 DEF Stop, InMemory
    <2> HIDE DEF t
    <2>4. Holds(InMemory(t, "none"), t, "none") /\ "none" \in Due
      BY DEF Holds, Dates, Due
    <2>5. Holds(memory, game, stored.due)
      BY DEF MatchInv
    <2>6. MatchInv'
      BY <2>2, <2>3, <2>4, <2>5, PersistHolds
    <2>7. outcomes' = outcomes
      BY <2>3 DEF Persist, MatchInv, Story
    <2> QED
      BY <2>6, <2>7 DEF TooLate
  <1>2. CASE ExpireAtRest
    <2>1. memory = Gone /\ stored.due = "ahead" /\ UNCHANGED <<game, outcomes, memory>>
          /\ stored' = [stored EXCEPT !.due = "passed"]
      BY <1>2 DEF ExpireAtRest
    <2>2. stored'.due \in Due
      BY <2>1 DEF Due, MatchInv
    <2> QED
      BY <2>1, <2>2 DEF MatchInv, Holds, TooLate
  <1>3. CASE Crash
    BY <1>3 DEF Crash, MatchInv, Holds, TooLate
  <1>4. CASE ResumeMatch
    <2>1. memory' = InMemory(game, stored.due) /\ UNCHANGED <<game, stored, outcomes>>
      BY <1>4 DEF ResumeMatch, Restored
    <2>2. stored.due \in Dates(stored.due)
      BY DEF MatchInv, Dates
    <2> QED
      BY <2>1, <2>2 DEF MatchInv, Holds, TooLate
  <1>5. CASE Outsider
    BY <1>5 DEF Outsider, MatchInv, TooLate
  <1> QED
    BY <1>1, <1>2, <1>3, <1>4, <1>5

\* Every step.
LEMMA StepHolds ==
  ASSUME MatchInv, [MatchNext]_match
  PROVE  MatchInv' /\ TooLate
  <1>1. CASE MatchNext
    BY <1>1, RoundHolds, AskingHolds, EndingHolds, OtherHolds DEF MatchNext, Advance
  <1>2. CASE UNCHANGED match
    BY <1>2 DEF match, MatchInv, TooLate
  <1> QED
    BY <1>1, <1>2

\* Every run.
LEMMA AlwaysMatchInv == MatchSpec => []MatchInv
  <1>1. MatchInit => MatchInv
    <2> SUFFICES ASSUME MatchInit PROVE MatchInv
      OBVIOUS
    <2>1. Good(game) /\ game.pending = NoDecision
      BY InitGood DEF MatchInit, InitialState
    <2>2. outcomes = << >> /\ outcomes \in Seq(OutcomeRecord)
      BY DEF MatchInit
    <2>3. stored.due = "none" /\ memory = InMemory(game, "none")
      BY DEF MatchInit
    <2> QED
      BY <2>1, <2>2, <2>3 DEF MatchInv, Story, Holds, Dates, Due, Pending, Once
  <1>2. MatchInv /\ [MatchNext]_match => MatchInv'
    BY StepHolds
  <1> QED
    BY <1>1, <1>2, PTL DEF MatchSpec

------------------------------------------------------------------------------
(* Deaths.  On the torus a worm that decides for itself dies in the engine     *)
(* only on a complete dot: it is never blocked elsewhere, and its table holds  *)
(* no other death.                                                             *)

Decides(w) == Kind[w] \in {"NEW", "AUTO"}

\* The table of such a worm says DIE for the complete dot only.
NoOtherDeath(s) ==
  \A w \in Slot : Decides(w) => \A m \in Mask : s.rules[w][m] = DIE => m = Dir

\* Those who die between s and t lie on complete dots.
DieComplete(s, t) ==
  \A w \in Slot : (Decides(w) /\ s.alive[w] /\ ~t.alive[w]) =>
    TrailMask(t, t.pos[w]) = Dir

\* The engine comes from s to t, and nobody dies elsewhere on the way.
DiesWell(s, t) ==
  /\ Leads(s, t)
  /\ NoOtherDeath(s) => NoOtherDeath(t) /\ DieComplete(s, t)

\* The dead stay where they are, and a complete dot stays complete.
LEMMA DeadDotStays ==
  ASSUME NEW s, NEW t, NothingLost(s, t), NEW w \in Slot, ~s.alive[w],
         TrailMask(s, s.pos[w]) = Dir
  PROVE  TrailMask(t, t.pos[w]) = Dir
  <1>1. t.pos[w] = s.pos[w]
    BY DEF NothingLost
  <1>2. \A p : TrailMask(s, p) \subseteq TrailMask(t, p)
    BY DEF NothingLost, TrailMask
  <1>3. TrailMask(t, t.pos[w]) \subseteq Dir
    BY DEF TrailMask
  <1> QED
    BY <1>1, <1>2, <1>3

\* Dying well is transitive.
LEMMA DiesWellOn ==
  ASSUME NEW r, NEW s, NEW t, DiesWell(r, s), DiesWell(s, t)
  PROVE  DiesWell(r, t)
  <1>1. Leads(r, t) /\ NothingLost(s, t)
    BY LeadsOn DEF DiesWell, Leads
  <1>2. ASSUME NoOtherDeath(r) PROVE NoOtherDeath(t) /\ DieComplete(r, t)
    <2>1. NoOtherDeath(t) /\ DieComplete(r, s) /\ DieComplete(s, t)
      BY <1>2 DEF DiesWell
    <2>2. ASSUME NEW w \in Slot, Decides(w), r.alive[w], ~t.alive[w]
          PROVE  TrailMask(t, t.pos[w]) = Dir
      <3>1. CASE s.alive[w]
        BY <2>1, <2>2, <3>1 DEF DieComplete
      <3>2. CASE ~s.alive[w]
        <4>1. TrailMask(s, s.pos[w]) = Dir
          BY <2>1, <2>2, <3>2 DEF DieComplete
        <4> QED
          BY <1>1, <3>2, <4>1, DeadDotStays
      <3> QED
        BY <3>1, <3>2
    <2> QED
      BY <2>1, <2>2 DEF DieComplete
  <1> QED
    BY <1>1, <1>2 DEF DiesWell

\* So is a step that kills nobody and keeps the tables.
LEMMA NobodyDies ==
  ASSUME NEW s, NEW t, Leads(s, t), t.alive = s.alive, t.rules = s.rules
  PROVE  DiesWell(s, t)
  BY DEF DiesWell, NoOtherDeath, DieComplete

\* Learning writes a direction, and no death, into a table.
LEMMA LearnDiesWell ==
  ASSUME NEW s \in State, Sound(s), NEW w \in Slot, NEW m \in Mask, NEW d \in Dir,
         d \notin m, s.rules[w][m] \notin Dir
  PROVE  DiesWell(s, Learn(s, w, m, d))
  <1> DEFINE rules == [s.rules EXCEPT ![w][m] = d]
             u == [s EXCEPT !.rules[w][m] = d]
             body == [worm |-> w, mask |-> m, action |-> d]
             t == Learn(s, w, m, d)
  <1>1. Leads(s, t) /\ SameCount(s, t)
    BY LearnLeads, LearnKeepsCount
  <1>2. s.rules \in [Slot -> [Mask -> Action]]
    BY DEF State
  <1>3. rules \in [Slot -> [Mask -> Action]]
    BY <1>2 DEF Action
  <1>4. u = [s EXCEPT !.rules = rules]
    OBVIOUS
  <1>5. \A v \in Slot : \A n \in Mask :
           rules[v][n] = IF v = w /\ n = m THEN d ELSE s.rules[v][n]
    BY <1>2
  <1>6. t = Emit(u, "rule_learned", body)
    BY DEF Learn
  <1> HIDE DEF rules, u
  <1>7. u \in State /\ u.rules = rules
    BY <1>3, <1>4 DEF State
  <1>8. t.rules = rules
    <2>1. body \in EventBody
      BY DEF EventBody
    <2>2. SameGame(u, t)
      BY <1>6, <1>7, <2>1, EmitType DEF EventType
    <2> QED
      BY <1>7, <2>2 DEF SameGame
  <1> HIDE DEF t
  <1>9. NoOtherDeath(s) => NoOtherDeath(t)
    <2>1. d # DIE
      BY DEF Dir, DIE
    <2> QED
      BY <1>5, <1>8, <2>1 DEF NoOtherDeath
  <1>10. DieComplete(s, t)
    BY <1>1 DEF SameCount, DieComplete
  <1> QED
    BY <1>1, <1>9, <1>10 DEF DiesWell, t

\* A move kills where it arrives, on a dot that its own trail completes.
LEMMA FollowDiesWell ==
  ASSUME NEW s \in State, Sound(s), NEW w \in Slot, NEW m \in Mask, NEW d \in Dir,
         NEW t \in Follow(s, w, m, d)
  PROVE  DiesWell(s, t)
  <1> DEFINE u == UseRule(s, w, m, d)
  <1>1. u \in State /\ SameGame(s, u)
    BY UseRuleLeads
  <1>2. CanStep(u, w, d) /\ t = Stepped(u, w, d)
    BY StepIsStepped DEF Follow
  <1> HIDE DEF u
  <1>3. Leads(s, t)
    BY FollowLeads
  <1>4. StepDoes(u, w, d, t)
    BY <1>1, <1>2, StepEffect
  <1> DEFINE to == Neighbor(u.pos[w], d)
  <1>5. /\ t.rules = s.rules /\ t.pos = [s.pos EXCEPT ![w] = to]
        /\ t.alive = IF MaskAt(t, to) = Dir THEN [s.alive EXCEPT ![w] = FALSE] ELSE s.alive
    BY <1>1, <1>4 DEF StepDoes, SameGame
  <1>6. to \in Point
    BY <1>1, <1>2, StepEdge
  <1> HIDE DEF to
  <1>7. MaskAt(t, to) = TrailMask(t, to)
    BY <1>3, <1>6 DEF Leads, Sound, Fresh, MaskAt
  <1>8. s.alive \in [Slot -> BOOLEAN] /\ s.pos \in [Slot -> Point]
    BY DEF State
  <1>9. DieComplete(s, t)
    BY <1>5, <1>7, <1>8 DEF DieComplete
  <1> QED
    BY <1>3, <1>5, <1>9 DEF DiesWell, NoOtherDeath

\* Whatever AdvanceRound finds in its table, a worm dies well in its turn: with no
\* legal move its dot is complete, since on the torus every spoke leads somewhere.
LEMMA DispatchDiesWell ==
  ASSUME Classic, NEW s \in State, Sound(s), NEW w \in Slot, s.slot = w, s.alive[w],
         s.pending = NoDecision, NEW t \in Dispatch(s, w)
  PROVE  DiesWell(s, t)
  <1> DEFINE m == MaskAt(s, s.pos[w])
             a == s.rules[w][m]
  <1>1. m \in Mask /\ a \in Action /\ s.pos[w] \in Point
    <2>1. s.pos[w] \in Point /\ s.rules[w] \in [Mask -> Action]
      BY DEF State
    <2>2. m \in Mask
      BY <2>1, MaskType
    <2> QED
      BY <2>1, <2>2
  <1>2. m = TrailMask(s, s.pos[w])
    BY <1>1 DEF Sound, Fresh, MaskAt
  <1>3. ASSUME NEW cause \in {"worm_died", "worm_blocked"}, t = Kill(s, w, cause),
               NoOtherDeath(s) /\ Decides(w) => m = Dir
        PROVE  DiesWell(s, t)
    <2>1. Leads(s, t) /\ t.trails = s.trails /\ t.alive = [s.alive EXCEPT ![w] = FALSE]
      BY <1>3, KillLeads
    <2>2. t.pos = s.pos /\ t.rules = s.rules
      <3>1. SameGame([s EXCEPT !.alive[w] = FALSE], t)
        BY <1>3, KillType
      <3>2. /\ [s EXCEPT !.alive[w] = FALSE].pos = s.pos
            /\ [s EXCEPT !.alive[w] = FALSE].rules = s.rules
        BY DEF State
      <3> QED
        BY <3>1, <3>2 DEF SameGame
    <2>3. TrailMask(t, s.pos[w]) = m
      BY <1>2, <2>1, TrailMaskOfTrails
    <2>4. s.alive \in [Slot -> BOOLEAN]
      BY DEF State
    <2> HIDE DEF m
    <2>5. NoOtherDeath(s) => DieComplete(s, t)
      BY <1>3, <2>1, <2>2, <2>3, <2>4 DEF DieComplete
    <2> QED
      BY <2>1, <2>2, <2>5 DEF DiesWell, NoOtherDeath
  <1>4. CASE LegalMoves(s, w) = {}
    <2>1. t = Kill(s, w, "worm_blocked")
      BY <1>4 DEF Dispatch
    <2>2. \A d \in Dir : InBounds(Neighbor(s.pos[w], d))
      BY <1>1, NeighborType DEF InBounds
    <2>3. \A d \in Dir : d \in m
      BY <1>4, <2>2 DEF LegalMoves
    <2>4. m = Dir
      BY <1>1, <2>3 DEF Mask
    <2> HIDE DEF m
    <2> QED
      BY <1>3, <2>1, <2>4
  <1>5. CASE LegalMoves(s, w) # {} /\ a = GETNEW
    <2>1. t = Ask(s, w, m)
      BY <1>5 DEF Dispatch, GETNEW, DIE, DOAI, Dir
    <2>2. Leads(s, t)
      BY <1>5, <2>1, AskLeads
    <2> HIDE DEF m
    <2>3. SameCount(s, t)
      BY <1>1, <2>1, AskKeepsCount
    <2>4. t.rules = s.rules
      <3>1. \A f, x, y : [[s EXCEPT !.pending = f] EXCEPT !.seq = x, !.events = y].rules = s.rules
        BY DEF State
      <3> QED
        BY <2>1, <3>1 DEF Ask, Emit
    <2> QED
      BY <2>2, <2>3, <2>4, NobodyDies DEF SameCount
  <1>6. CASE LegalMoves(s, w) # {} /\ a = DIE
    <2>1. t = Kill(s, w, "worm_died")
      BY <1>6 DEF Dispatch, GETNEW, DIE, DOAI, Dir
    <2>2. NoOtherDeath(s) /\ Decides(w) => m = Dir
      BY <1>1, <1>6 DEF NoOtherDeath
    <2> HIDE DEF m
    <2> QED
      BY <1>3, <2>1, <2>2
  <1>7. CASE LegalMoves(s, w) # {} /\ a = DOAI
    <2>1. PICK d \in AutoChoices(s, w) :
             t \in Follow(IF Frozen(w) THEN s ELSE Learn(s, w, m, d), w, m, d)
      <3>1. Dispatch(s, w) =
              UNION {Follow(IF Frozen(w) THEN s ELSE Learn(s, w, m, d), w, m, d) :
                       d \in AutoChoices(s, w)}
        BY <1>7 DEF Dispatch, GETNEW, DIE, DOAI, Dir
      <3> QED
        BY <3>1
    <2>2. d \in Dir /\ d \notin m
      BY DEF AutoChoices, LegalMoves
    <2>3. s.rules[w][m] \notin Dir
      BY <1>7 DEF DOAI, Dir
    <2> HIDE DEF m, a
    <2>4. CASE Frozen(w)
      <3>1. t \in Follow(s, w, m, d)
        BY <2>1, <2>4
      <3> QED
        BY <1>1, <2>2, <3>1, FollowDiesWell
    <2>5. CASE ~Frozen(w)
      <3> DEFINE u == Learn(s, w, m, d)
      <3>1. DiesWell(s, u)
        BY <1>1, <2>2, <2>3, LearnDiesWell
      <3>2. t \in Follow(u, w, m, d)
        BY <2>1, <2>5
      <3> HIDE DEF u
      <3>3. u \in State /\ Sound(u)
        BY <3>1 DEF DiesWell, Leads
      <3>4. DiesWell(u, t)
        BY <1>1, <2>2, <3>2, <3>3, FollowDiesWell
      <3> QED
        BY <3>1, <3>4, DiesWellOn
    <2> QED
      BY <2>4, <2>5
  <1>8. CASE LegalMoves(s, w) # {} /\ a \in Dir
    <2>1. t \in Follow(s, w, m, a)
      BY <1>8 DEF Dispatch, GETNEW, DIE, DOAI, Dir
    <2> HIDE DEF m, a
    <2> QED
      BY <1>1, <1>8, <2>1, FollowDiesWell
  <1> QED
    BY <1>1, <1>4, <1>5, <1>6, <1>7, <1>8 DEF Action

\* One iteration of the loop over the slots.
LEMMA VisitDiesWell ==
  ASSUME Classic, NEW s, Good(s), NEW w \in 0 .. 3, NEW first, NEW t \in Visit(s, w, first)
  PROVE  DiesWell(s, t)
  <1> DEFINE u == [s EXCEPT !.slot = w]
  <1>1. s \in State /\ Sound(s)
    BY DEF Good
  <1>2. Leads(s, t)
    BY VisitLeads DEF Runs
  <1>3. CASE w \notin Slot \/ w < first \/ s.pending # NoDecision
    <2>1. t = s
      BY <1>3 DEF Visit
    <2> QED
      BY <1>2, <2>1, NobodyDies
  <1>4. CASE w \in Slot /\ ~(w < first) /\ s.pending = NoDecision
    <2>1. t \in IF ~s.alive[w] THEN {u} ELSE Dispatch(u, w)
      BY <1>4 DEF Visit
    <2>2. Leads(s, u) /\ u.slot = w /\ u.alive = s.alive /\ u.pending = s.pending
      BY <1>1, <1>4, SlotLeads
    <2>3. u.rules = s.rules
      BY <1>1 DEF State
    <2> HIDE DEF u
    <2>4. DiesWell(s, u)
      BY <2>2, <2>3, NobodyDies
    <2>5. CASE ~s.alive[w]
      BY <2>1, <2>4, <2>5
    <2>6. CASE s.alive[w]
      <3>1. u \in State /\ Sound(u)
        BY <2>2 DEF Leads
      <3>2. DiesWell(u, t)
        BY <1>4, <2>1, <2>2, <2>6, <3>1, DispatchDiesWell
      <3> QED
        BY <2>4, <3>2, DiesWellOn
    <2> QED
      BY <2>5, <2>6
  <1> QED
    BY <1>3, <1>4

\* Every state of S is one that the scan from s reaches with no other death.
AllDieWell(s, S) == \A u \in S : Good(u) /\ DiesWell(s, u)

\* The same for every outcome of the iterations before it.
LEMMA VisitAllDieWell ==
  ASSUME Classic, NEW s, NEW S, NEW w \in 0 .. 3, NEW first, AllDieWell(s, S)
  PROVE  AllDieWell(s, VisitAll(S, w, first))
  <1> SUFFICES ASSUME NEW t \in VisitAll(S, w, first)
               PROVE  Good(t) /\ DiesWell(s, t)
    BY DEF AllDieWell
  <1>1. PICK u \in S : t \in Visit(u, w, first)
    BY DEF VisitAll
  <1>2. Good(u) /\ DiesWell(s, u)
    BY DEF AllDieWell
  <1>3. Good(t)
    BY <1>1, <1>2, VisitLeads DEF Good, Runs, Leads
  <1>4. DiesWell(u, t)
    BY <1>1, <1>2, VisitDiesWell
  <1> QED
    BY <1>2, <1>3, <1>4, DiesWellOn

\* The loop over the slots, and the end of the round.
LEMMA ScanDiesWell ==
  ASSUME Classic, NEW s, Good(s), NEW first, NEW u \in Scan(s, first)
  PROVE  Good(u) /\ DiesWell(s, EndRound(u))
  <1> DEFINE S0 == VisitAll({s}, 0, first)
             S1 == VisitAll(S0, 1, first)
             S2 == VisitAll(S1, 2, first)
             S3 == VisitAll(S2, 3, first)
  <1>1. AllDieWell(s, {s})
    <2>1. Leads(s, s)
      BY SameGameLeads DEF Good, SameGame
    <2> QED
      BY <2>1, NobodyDies DEF AllDieWell
  <1>2. AllDieWell(s, S0)
    BY <1>1, VisitAllDieWell
  <1> HIDE DEF S0
  <1>3. AllDieWell(s, S1)
    BY <1>2, VisitAllDieWell
  <1> HIDE DEF S1
  <1>4. AllDieWell(s, S2)
    BY <1>3, VisitAllDieWell
  <1> HIDE DEF S2
  <1>5. AllDieWell(s, S3)
    BY <1>4, VisitAllDieWell
  <1>6. Good(u) /\ DiesWell(s, u)
    BY <1>5 DEF Scan, AllDieWell, S0, S1, S2, S3
  <1>7. u \in State /\ Leads(u, EndRound(u))
    BY <1>6, EndRoundLeads DEF Good, Runs
  <1>8. EndRound(u).alive = u.alive /\ EndRound(u).rules = u.rules
    <2>1. CASE u.pending = NoDecision
      BY <1>7, <2>1, EndRoundEffect
    <2>2. CASE u.pending # NoDecision
      BY <2>2 DEF EndRound
    <2> QED
      BY <2>1, <2>2
  <1>9. DiesWell(u, EndRound(u))
    BY <1>7, <1>8, NobodyDies
  <1> QED
    BY <1>6, <1>9, DiesWellOn

\* Dropping the events of a handler kills nobody.
LEMMA QuietDiesWell ==
  ASSUME NEW s \in State, Sound(s)
  PROVE  DiesWell(s, Quiet(s))
  BY QuietLeads, NobodyDies DEF SameGame

\* AdvanceRound, and the snapshot that is stored after it.
LEMMA AdvanceDiesWell ==
  ASSUME Classic, NEW s, Good(s), CanAdvance(s), NEW t \in AdvanceOutcomes(s)
  PROVE  DiesWell(s, Quiet(t))
  <1> DEFINE q == Quiet(s)
  <1>1. s \in State /\ Sound(s) /\ s.pending = NoDecision
    BY DEF Good, CanAdvance
  <1>2. Leads(s, q) /\ SameGame(s, q) /\ DiesWell(s, q)
    BY <1>1, QuietLeads, QuietDiesWell
  <1>3. PICK first, u : u \in Scan(q, first) /\ t = EndRound(u)
    BY DEF AdvanceOutcomes
  <1> HIDE DEF q
  <1>4. Good(q)
    BY <1>1, <1>2 DEF Good, Leads, SameGame, PendingCurrent
  <1>5. DiesWell(q, t)
    BY <1>3, <1>4, ScanDiesWell
  <1>6. DiesWell(t, Quiet(t))
    BY <1>5, QuietDiesWell DEF DiesWell, Leads
  <1> QED
    BY <1>2, <1>5, <1>6, DiesWellOn

\* Submit, and the snapshot that is stored after it.
LEMMA SubmitDiesWell ==
  ASSUME Classic, NEW s, Good(s), NEW d \in Dir, CanSubmit(s, d),
         NEW t \in SubmitOutcomes(s, d)
  PROVE  DiesWell(s, Quiet(t))
  <1> DEFINE w == s.pending.slot
             m == s.pending.mask
             q == Quiet(s)
             l == Learn(q, w, m, d)
             answered == [l EXCEPT !.pending = NoDecision, !.slot = w + 1]
  <1>1. s \in State /\ Sound(s) /\ PendingCurrent(s) /\ s.pending # NoDecision
    BY DEF Good, CanSubmit
  <1>2. w \in Slot /\ m \in Mask
    <2>1. s.pending \in Decision
      BY <1>1 DEF State
    <2> QED
      BY <1>1, <2>1 DEF Decision
  <1>3. m = MaskAt(s, s.pos[w]) /\ s.rules[w][m] = GETNEW
    BY <1>1 DEF PendingCurrent
  <1>4. d \notin m
    BY <1>3 DEF CanSubmit, LegalMoves
  <1>5. SameGame(s, q) /\ q \in State /\ Sound(q) /\ DiesWell(s, q)
    BY <1>1, QuietLeads, QuietDiesWell DEF Leads
  <1> HIDE DEF q, w, m
  <1>6. q.rules[w][m] \notin Dir
    BY <1>3, <1>5 DEF SameGame, GETNEW, Dir
  <1>7. DiesWell(q, l)
    BY <1>2, <1>4, <1>5, <1>6, LearnDiesWell
  <1> HIDE DEF l
  <1>8. l \in State /\ Sound(l)
    BY <1>7 DEF DiesWell, Leads
  <1>9. /\ answered \in State /\ SameBoard(l, answered)
        /\ answered.pending = NoDecision
        /\ answered.alive = l.alive /\ answered.rules = l.rules
    <2>1. w + 1 \in Slot \cup {None, N} /\ NoDecision \in Decision
      BY <1>2, EngineAssumption DEF Slot, Decision
    <2>2. \A n \in Slot \cup {None, N}, f \in Decision :
             /\ [l EXCEPT !.pending = f, !.slot = n] \in State
             /\ SameBoard(l, [l EXCEPT !.pending = f, !.slot = n])
             /\ [l EXCEPT !.pending = f, !.slot = n].pending = f
             /\ [l EXCEPT !.pending = f, !.slot = n].alive = l.alive
             /\ [l EXCEPT !.pending = f, !.slot = n].rules = l.rules
      BY <1>8 DEF State, SameBoard
    <2> QED
      BY <2>1, <2>2
  <1>10. PICK u, v : /\ u \in Follow(answered, w, m, d)
                     /\ v \in Scan(u, w + 1)
                     /\ t = EndRound(v)
    BY DEF SubmitOutcomes, q, w, m, l
  <1> HIDE DEF answered
  <1>11. Leads(l, answered)
    BY <1>8, <1>9, SameBoardLeads
  <1>12. DiesWell(l, answered) /\ Sound(answered)
    BY <1>9, <1>11, NobodyDies DEF Leads
  <1>13. SameTurn(answered, u) /\ DiesWell(answered, u)
    BY <1>2, <1>9, <1>10, <1>12, FollowLeads, FollowDiesWell
  <1>14. Good(u)
    BY <1>9, <1>13 DEF Good, DiesWell, Leads, SameTurn, PendingCurrent
  <1>15. DiesWell(u, t)
    BY <1>10, <1>14, ScanDiesWell
  <1>16. DiesWell(t, Quiet(t))
    BY <1>15, QuietDiesWell DEF DiesWell, Leads
  <1>17. DiesWell(s, answered)
    BY <1>5, <1>7, <1>12, DiesWellOn
  <1> QED
    BY <1>13, <1>15, <1>16, <1>17, DiesWellOn

------------------------------------------------------------------------------
(* What a step of a match does to the stored game and the outcomes.            *)

\* A round is played and stored.
RoundStored ==
  /\ CanAdvance(game)
  /\ \E t \in AdvanceOutcomes(game) : game' = Quiet(t)
  /\ outcomes' = outcomes

\* An answer is played and stored with its outcome.
AnswerStored ==
  /\ Pending(game)
  /\ \E d \in Dir : /\ CanSubmit(game, d)
                    /\ \E t \in SubmitOutcomes(game, d) : game' = Quiet(t)
  /\ outcomes' = Append(outcomes, Outcome(game, "accepted"))

\* The worm that was asked is taken out, and the reason is stored.
DeathStored ==
  /\ Pending(game)
  /\ game' = Ended(game)
  /\ \E kind \in {"timeout", "disconnect", "resigned"} :
       outcomes' = Append(outcomes, Outcome(game, kind))

\* The game is stopped.
StopStored ==
  /\ game' = [game EXCEPT !.pending = NoDecision, !.over = TRUE]
  /\ outcomes' = outcomes

Stores ==
  \/ UNCHANGED <<game, outcomes>>
  \/ RoundStored \/ AnswerStored \/ DeathStored \/ StopStored

\* However a decision ends, it is stored in one of these ways.
LEMMA JudgeStores ==
  ASSUME MatchInv, Pending(game), NEW due, NEW r, NEW back, Judge(game, due, r, back)
  PROVE  Stores
  <1>1. outcomes \in Seq(OutcomeRecord)
    BY DEF MatchInv, Story
  <1>2. \A o : outcomes \o <<o>> = Append(outcomes, o)
    BY <1>1
  <1>3. ASSUME NEW kind \in {"timeout", "disconnect", "resigned"},
               Terminate(game, kind, back)
        PROVE  Stores
    BY <1>2, <1>3 DEF Terminate, Persist, Stores, DeathStored
  <1>4. CASE due = "passed" \/ r = Fails \/ r = Resign
    <2>1. \E kind \in {"timeout", "disconnect", "resigned"} : Terminate(game, kind, back)
      BY <1>4 DEF Judge
    <2> QED
      BY <1>3, <2>1
  <1>5. CASE due # "passed" /\ r # Fails /\ r # Resign /\ Playable(game, r)
    <2>1. PICK t \in SubmitOutcomes(game, r.dir) :
             Persist(Quiet(t), "none", StatusOf(t), <<Outcome(game, "accepted")>>,
                     InMemory(Quiet(t), "none"), back)
      BY <1>5 DEF Judge, Accept
    <2>2. r.dir \in Dir /\ CanSubmit(game, r.dir)
      BY <1>5 DEF Playable, CanSubmit, LegalMoves
    <2> QED
      BY <1>2, <2>1, <2>2 DEF Persist, Stores, AnswerStored
  <1>6. CASE due # "passed" /\ r # Fails /\ r # Resign /\ ~Playable(game, r)
    BY <1>6 DEF Judge, Stores
  <1> QED
    BY <1>4, <1>5, <1>6

\* Every step of a match stores one of these, or nothing.
LEMMA StepStores ==
  ASSUME MatchInv, [MatchNext]_match
  PROVE  Stores
  <1>1. outcomes \in Seq(OutcomeRecord)
    BY DEF MatchInv, Story
  <1>2. outcomes \o << >> = outcomes
    BY <1>1
  <1>3. memory # Gone => memory.state = game
    BY DEF MatchInv, Holds, Gone, InMemory, Calling, Waiting, HasReply
  <1>4. Idle => memory.state = game
    BY <1>3 DEF Idle, Gone
  <1>5. CASE RunRound
    <2>1. CanAdvance(game)
      BY <1>4, <1>5 DEF RunRound
    <2>2. PICK t \in AdvanceOutcomes(game) :
             LET s   == Quiet(t)
                 due == IF Pending(s) THEN Asked(memory.due) ELSE memory.due
             IN  Persist(s, due, StatusOf(s), << >>,
                         IF Automated(s) THEN Calling(s, due, due) ELSE InMemory(s, due),
                         memory)
      BY <1>4, <1>5 DEF RunRound
    <2> QED
      BY <1>2, <2>1, <2>2 DEF Persist, Stores, RoundStored
  <1>6. CASE Conclude
    <2>1. Pending(game)
      BY <1>6 DEF Conclude, MatchInv, Holds, Gone, InMemory
    <2>2. Judge(game, memory.due, memory.reply, InMemory(game, memory.before))
      BY <1>3, <1>6 DEF Conclude, Gone
    <2> QED
      BY <2>1, <2>2, JudgeStores
  <1>7. CASE SubmitByHand
    <2>1. Pending(game) /\ \E due, r, back : Judge(game, due, r, back)
      BY <1>4, <1>7 DEF SubmitByHand
    <2> QED
      BY <2>1, JudgeStores
  <1>8. CASE ResolveByHand
    <2>1. CASE memory.due = "passed"
      <3>1. Pending(game) /\ \E back : Judge(game, memory.due, Fails, back)
        BY <1>4, <1>8, <2>1 DEF ResolveByHand, Judge
      <3> QED
        BY <3>1, JudgeStores
    <2>2. CASE memory.due # "passed"
      BY <1>8, <2>2 DEF ResolveByHand, Stores
    <2> QED
      BY <2>1, <2>2
  <1>9. CASE Stop
    <2>1. \E back, next, status, due :
             Persist([game EXCEPT !.pending = NoDecision, !.over = TRUE], due, status,
                     << >>, next, back)
      BY <1>4, <1>9 DEF Stop
    <2> QED
      BY <1>2, <2>1 DEF Persist, Stores, StopStored
  <1>10. CASE \/ AskAgain \/ Decide \/ Begin \/ SessionDecides \/ Expire \/ ExpireAtRest
              \/ Crash \/ ResumeMatch \/ Outsider \/ UNCHANGED match
    BY <1>10 DEF AskAgain, Decide, Begin, SessionDecides, Expire, ExpireAtRest, Crash,
                 ResumeMatch, Outsider, match, Stores
  <1> QED
    BY <1>5, <1>6, <1>7, <1>8, <1>9, <1>10 DEF MatchNext, Advance

------------------------------------------------------------------------------
(* Every death has its reason.                                                 *)

\* The worms of K are dead; and on the torus everybody else who decides for itself
\* and is dead lies on a complete dot.
Accounted(s, K) ==
  /\ \A w \in K : ~s.alive[w]
  /\ Classic =>
       /\ NoOtherDeath(s)
       /\ \A w \in Slot : (Decides(w) /\ ~s.alive[w]) =>
            w \in K \/ TrailMask(s, s.pos[w]) = Dir

\* The engine keeps the account.
LEMMA EngineAccounts ==
  ASSUME NEW s, NEW t, NothingLost(s, t), Classic => DiesWell(s, t),
         NEW K \in SUBSET Slot, Accounted(s, K)
  PROVE  Accounted(t, K)
  <1>1. \A w \in K : ~t.alive[w]
    BY DEF Accounted, NothingLost
  <1>2. ASSUME Classic, NEW w \in Slot, Decides(w), ~t.alive[w], w \notin K
        PROVE  TrailMask(t, t.pos[w]) = Dir
    <2>1. CASE s.alive[w]
      BY <1>2, <2>1 DEF Accounted, DiesWell, DieComplete
    <2>2. CASE ~s.alive[w]
      <3>1. TrailMask(s, s.pos[w]) = Dir
        BY <1>2, <2>2 DEF Accounted
      <3> QED
        BY <2>2, <3>1, DeadDotStays
    <2> QED
      BY <2>1, <2>2
  <1>3. Classic => NoOtherDeath(t)
    BY DEF Accounted, DiesWell
  <1> QED
    BY <1>1, <1>2, <1>3 DEF Accounted

\* The account of the initial state: nobody who decides for itself is dead, and its
\* table holds the sentinels of InstallForced only.
LEMMA InitAccounted == Accounted(InitialState, {})
  <1>1. ASSUME NEW w \in Slot, Decides(w), NEW m \in Mask,
               InitialState.rules[w][m] = DIE
        PROVE  m = Dir
    <2>1. ConfiguredRules(w)[m] = DIE
      BY <1>1 DEF InitialState
    <2>2. \A d \in Dir : ConfiguredRules(w)[Dir \ {d}] = d /\ d # DIE
      <3>1. \A d \in Dir : d # DIE
        BY DEF Dir, DIE
      <3>2. \A d \in Dir : ConfiguredRules(w)[Dir \ {d}] = d
        BY EngineAssumption DEF ValidRules
      <3> QED
        BY <3>1, <3>2
    <2>3. ~\E d \in Dir : m = Dir \ {d}
      BY <2>1, <2>2
    <2>4. \E x \in {GETNEW, DOAI} : ConfiguredRules(w) = InstallForced([n \in Mask |-> x])
      BY <1>1 DEF Decides, ConfiguredRules
    <2>5. PICK x \in {GETNEW, DOAI} : ConfiguredRules(w) = InstallForced([n \in Mask |-> x])
      BY <2>4
    <2>6. m # Dir => ConfiguredRules(w)[m] = x
      BY <2>3, <2>5 DEF InstallForced
    <2> QED
      BY <2>1, <2>6 DEF GETNEW, DOAI, DIE
  <1>2. \A w \in Slot : Decides(w) => InitialState.alive[w]
    BY DEF InitialState, Decides
  <1> QED
    BY <1>1, <1>2 DEF Accounted, NoOtherDeath

\* An accepted answer adds nobody to those who were taken out.
LEMMA KilledGrows ==
  ASSUME outcomes \in Seq(OutcomeRecord), NEW o \in OutcomeRecord,
         outcomes' = Append(outcomes, o)
  PROVE  Killed' = IF o.kind = "accepted" THEN Killed ELSE Killed \cup {o.slot}
  <1>1. PICK n : n = Len(outcomes) + 1
    OBVIOUS
  <1>2. PICK outs : outs = outcomes'
    OBVIOUS
  <1>3. /\ DOMAIN outs = DOMAIN outcomes \cup {n}
        /\ \A i \in DOMAIN outcomes : outs[i] = outcomes[i]
        /\ outs[n] = o /\ n \notin DOMAIN outcomes
    BY <1>1, <1>2
  <1>4. \A x : x \in Killed' <=>
          \E i \in DOMAIN outs : outs[i].kind # "accepted" /\ x = outs[i].slot
    BY <1>2 DEF Killed
  <1>5. \A x : x \in Killed <=>
          \E i \in DOMAIN outcomes : outcomes[i].kind # "accepted" /\ x = outcomes[i].slot
    BY DEF Killed
  <1>6. \A x : x \in Killed' <=> x \in Killed \/ (o.kind # "accepted" /\ x = o.slot)
    <2> SUFFICES ASSUME NEW x
                 PROVE  x \in Killed' <=> x \in Killed \/ (o.kind # "accepted" /\ x = o.slot)
      OBVIOUS
    <2>1. (\E i \in DOMAIN outs : outs[i].kind # "accepted" /\ x = outs[i].slot)
            <=> \/ \E i \in DOMAIN outcomes : /\ outcomes[i].kind # "accepted"
                                               /\ x = outcomes[i].slot
                \/ o.kind # "accepted" /\ x = o.slot
      BY <1>3
    <2> QED
      BY <1>4, <1>5, <2>1
  <1>7. CASE o.kind = "accepted"
    BY <1>6, <1>7
  <1>8. CASE o.kind # "accepted"
    BY <1>6, <1>8
  <1> QED
    BY <1>7, <1>8

\* Every step of a match keeps the account.
LEMMA StepAccounts ==
  ASSUME MatchInv, Accounted(game, Killed), [MatchNext]_match
  PROVE  Accounted(game, Killed)'
  <1>1. Good(game) /\ game \in State /\ Sound(game) /\ outcomes \in Seq(OutcomeRecord)
        /\ (game.over => ~Pending(game))
    BY DEF MatchInv, Story, Good
  <1>2. Killed \in SUBSET Slot
    <2>1. \A i \in DOMAIN outcomes : outcomes[i] \in OutcomeRecord
      BY <1>1
    <2> QED
      BY <2>1 DEF Killed, OutcomeRecord
  <1>3. ASSUME Pending(game), NEW kind \in {"accepted", "timeout", "disconnect", "resigned"}
        PROVE  /\ Outcome(game, kind) \in OutcomeRecord
               /\ Outcome(game, kind).kind = kind
               /\ Outcome(game, kind).slot = game.pending.slot
    <2>1. game.pending \in Decision /\ game.pending # NoDecision
      BY <1>1, <1>3 DEF State, Pending
    <2> QED
      BY <2>1 DEF Outcome, OutcomeRecord, Decision
  <1>4. CASE UNCHANGED <<game, outcomes>>
    BY <1>4 DEF Accounted, Killed, NoOtherDeath, TrailMask
  <1>5. CASE RoundStored
    <2>1. PICK t \in AdvanceOutcomes(game) : game' = Quiet(t)
      BY <1>5 DEF RoundStored
    <2>2. CanAdvance(game) /\ Killed' = Killed
      BY <1>5 DEF RoundStored, Killed
    <2>3. Leads(game, t) /\ t \in State /\ Sound(t)
      BY <1>1, <2>1, <2>2, AdvanceLeads DEF Runs, Leads
    <2>4. Leads(game, game')
      BY <2>1, <2>3, QuietLeads, LeadsOn
    <2>5. Classic => DiesWell(game, game')
      BY <1>1, <2>1, <2>2, AdvanceDiesWell
    <2> QED
      BY <1>2, <2>2, <2>4, <2>5, EngineAccounts DEF Leads
  <1>6. CASE AnswerStored
    <2>1. PICK d \in Dir : /\ CanSubmit(game, d)
                           /\ \E t \in SubmitOutcomes(game, d) : game' = Quiet(t)
      BY <1>6 DEF AnswerStored
    <2>2. PICK t \in SubmitOutcomes(game, d) : game' = Quiet(t)
      BY <2>1
    <2>3. Killed' = Killed
      BY <1>1, <1>3, <1>6, KilledGrows DEF AnswerStored
    <2>4. ~game.over
      BY <1>1, <1>6 DEF AnswerStored
    <2>5. Leads(game, t) /\ t \in State /\ Sound(t)
      BY <1>1, <2>1, <2>2, <2>4, SubmitLeads DEF Runs, Leads
    <2>6. Leads(game, game')
      BY <2>2, <2>5, QuietLeads, LeadsOn
    <2>7. Classic => DiesWell(game, game')
      BY <1>1, <2>1, <2>2, SubmitDiesWell
    <2> QED
      BY <1>2, <2>3, <2>6, <2>7, EngineAccounts DEF Leads
  <1>7. CASE DeathStored
    <2>1. PICK kind \in {"timeout", "disconnect", "resigned"} :
             outcomes' = Append(outcomes, Outcome(game, kind))
      BY <1>7 DEF DeathStored
    <2>2. Pending(game) /\ game' = Ended(game)
      BY <1>7 DEF DeathStored
    <2>3. PICK w : w = game.pending.slot
      OBVIOUS
    <2>4. Killed' = Killed \cup {w}
      BY <1>1, <1>3, <2>1, <2>2, <2>3, KilledGrows
    <2>5. /\ SameBoard(game, game') /\ w \in Slot
          /\ game'.alive = [game.alive EXCEPT ![w] = FALSE]
      BY <1>1, <2>2, <2>3, EndedEffect
    <2>6. game.alive \in [Slot -> BOOLEAN]
      BY <1>1 DEF State
    <2>7. \A v \in Slot : game'.alive[v] = IF v = w THEN FALSE ELSE game.alive[v]
      BY <2>5, <2>6
    <2>8. \A v \in Killed' : ~game'.alive[v]
      BY <1>2, <2>4, <2>5, <2>7 DEF Accounted
    <2>9. NoOtherDeath(game) => NoOtherDeath(game')
      BY <2>5 DEF SameBoard, NoOtherDeath
    <2>10. \A v \in Slot : TrailMask(game', game'.pos[v]) = TrailMask(game, game.pos[v])
      BY <2>5 DEF SameBoard, TrailMask
    <2> QED
      BY <2>4, <2>7, <2>8, <2>9, <2>10 DEF Accounted
  <1>8. CASE StopStored
    <2>1. Killed' = Killed
      BY <1>8 DEF StopStored, Killed
    <2>2. game'.alive = game.alive /\ game'.rules = game.rules
          /\ game'.pos = game.pos /\ game'.trails = game.trails
      BY <1>1, <1>8 DEF StopStored, State
    <2> QED
      BY <2>1, <2>2 DEF Accounted, NoOtherDeath, TrailMask
  <1> QED
    BY <1>4, <1>5, <1>6, <1>7, <1>8, StepStores DEF Stores

------------------------------------------------------------------------------
(* The theorems.                                                               *)

\* Whatever fails half-way - a write that is refused, a controller that errs, a
\* crash - the match in memory is the stored one, with the deadline that is stored.
THEOREM MemoryIsAlwaysStored == MatchSpec => []MemoryIsStored
  <1>1. MatchInv => MemoryIsStored
    BY DEF MatchInv, Holds, MemoryIsStored, Gone, InMemory, Calling, Waiting, HasReply, Dates
  <1> QED
    BY <1>1, AlwaysMatchInv, PTL

\* However often a decision is asked, answered, retried or resumed, it has at most
\* one outcome on record.
THEOREM OneOutcomeEver == MatchSpec => []OneOutcomePerDecision
  <1>1. MatchInv => OneOutcomePerDecision
    BY DEF MatchInv, Story, Once, OneOutcomePerDecision
  <1> QED
    BY <1>1, AlwaysMatchInv, PTL

\* Nothing is accepted for a decision whose stored deadline has passed, however often
\* the process was restarted since.
THEOREM DeadlineAlwaysKept == MatchSpec => DeadlineIsKept
  <1>1. MatchInv /\ [MatchNext]_match => [TooLate]_match
    BY StepHolds
  <1> QED
    BY <1>1, AlwaysMatchInv, PTL DEF MatchSpec, DeadlineIsKept, TooLate

\* On every torus, in every match: who is dead and decided for itself was killed by
\* the engine on a complete dot, or has its timeout, disconnection or resignation on
\* record; and who has one on record is dead.  (On a bounded board a worm can be
\* blocked on a dot that is not complete, so the claim is about the classic rules.)
THEOREM DeathsAlwaysAccounted == MatchSpec => [](Classic => DeathsAreAccounted)
  <1>1. MatchInit => Accounted(game, Killed)
    <2> SUFFICES ASSUME MatchInit PROVE Accounted(game, Killed)
      OBVIOUS
    <2>1. game = InitialState /\ Killed = {}
      BY DEF MatchInit, Killed
    <2> QED
      BY <2>1, InitAccounted
  <1>2. MatchInv /\ Accounted(game, Killed) /\ [MatchNext]_match => Accounted(game, Killed)'
    BY StepAccounts
  <1>3. Accounted(game, Killed) => (Classic => DeathsAreAccounted)
    BY DEF Accounted, DeathsAreAccounted, Decides
  <1> QED
    BY <1>1, <1>2, <1>3, AlwaysMatchInv, PTL DEF MatchSpec

=============================================================================
