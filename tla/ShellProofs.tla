------------------------------ MODULE ShellProofs ------------------------------
(***************************************************************************)
(* The safety of the client's request control, for every number of         *)
(* goroutines and of games.                                                *)
(***************************************************************************)
EXTENDS ShellActions, TLAPS

Place == Owning \cup {"idle", "command", "opening", "recheck", "retake"}

\* What the atomic flags hold.
FlagsOK ==
  /\ inFlight \in BOOLEAN /\ pauseRequest \in BOOLEAN /\ abortRequest \in BOOLEAN
  /\ pauseTarget \in BOOLEAN
  /\ event \in {"idle", "pause stored", "raised"}
  /\ pc \in [Worker -> Place]

------------------------------------------------------------------------------
(* One owner.                                                                  *)

\* Whoever leaves the flag and its own place alone keeps the owner.
LEMMA UnchangedOwner ==
  ASSUME OneOwner, UNCHANGED <<inFlight, pc>>
  PROVE  OneOwner'
  BY DEF OneOwner

\* A goroutine that owns the flag goes on owning it, one that does not goes on without.
LEMMA GoesOn ==
  ASSUME FlagsOK, OneOwner, NEW w \in Worker, NEW place \in Place,
         pc[w] \in Owning <=> place \in Owning,
         Goto(w, place), UNCHANGED inFlight
  PROVE  OneOwner' /\ pc' \in [Worker -> Place]
  BY DEF FlagsOK, OneOwner, Goto

\* A goroutine that wins the compare-and-swap becomes the owner.
LEMMA Takes ==
  ASSUME FlagsOK, OneOwner, NEW w \in Worker, NEW place \in Owning,
         ~inFlight, inFlight' = TRUE, Goto(w, place)
  PROVE  OneOwner' /\ pc' \in [Worker -> Place]
  BY DEF FlagsOK, OneOwner, Goto, Place

\* The owner that clears the flag leaves nobody owning.
LEMMA LetsGo ==
  ASSUME FlagsOK, OneOwner, NEW w \in Worker, NEW place \in Place \ Owning,
         pc[w] \in Owning, inFlight' = FALSE, Goto(w, place)
  PROVE  OneOwner' /\ pc' \in [Worker -> Place]
  BY DEF FlagsOK, OneOwner, Goto

\* One owner through the handlers of the event thread.
LEMMA HeldByEvents ==
  ASSUME FlagsOK, OneOwner, PressPause \/ PressAbort \/ Handle
  PROVE  FlagsOK' /\ OneOwner'
  <1>1. CASE PressPause \/ PressAbort \/ RaisePause
    <2>1. FlagsOK'
      BY <1>1 DEF FlagsOK, PressPause, PressAbort, RaisePause
    <2> QED BY <1>1, <2>1, UnchangedOwner DEF PressPause, PressAbort, RaisePause
  <1>2. CASE Kick /\ inFlight
    <2>1. FlagsOK'
      BY <1>2 DEF FlagsOK, Kick
    <2> QED BY <1>2, <2>1, UnchangedOwner DEF Kick
  <1>3. CASE Kick /\ ~inFlight
    <2>1. PICK w \in Worker : Goto(w, "abort?")
      BY <1>3 DEF Kick
    <2>2. OneOwner' /\ pc' \in [Worker -> Place]
      BY <1>3, <2>1, Takes DEF Kick, Owning
    <2> QED BY <1>3, <2>2 DEF Kick, FlagsOK
  <1> QED BY <1>1, <1>2, <1>3 DEF Handle

\* One owner through the commands that a goroutine runs.
LEMMA HeldByCommands ==
  ASSUME FlagsOK, OneOwner, NEW w \in Worker,
         Launch(w) \/ Begin(w) \/ Answer(w) \/ Open(w)
  PROVE  FlagsOK' /\ OneOwner'
  <1>1. CASE Launch(w)
    <2>1. PICK place \in {"command", "opening"} : Goto(w, place)
      BY <1>1 DEF Launch
    <2>2. OneOwner' /\ pc' \in [Worker -> Place]
      BY <1>1, <2>1, GoesOn DEF Launch, Owning, Place
    <2> QED BY <1>1, <2>2 DEF Launch, FlagsOK
  <1>2. CASE Begin(w) /\ inFlight
    <2>1. OneOwner' /\ pc' \in [Worker -> Place]
      BY <1>2, GoesOn DEF Begin, Owning, Place
    <2> QED BY <1>2, <2>1 DEF Begin, FlagsOK
  <1>3. CASE Begin(w) /\ ~inFlight
    <2>1. PICK place \in Owning : Goto(w, place)
      BY <1>3 DEF Begin, Owning
    <2>2. OneOwner' /\ pc' \in [Worker -> Place]
      BY <1>3, <2>1, Takes DEF Begin
    <2> QED BY <1>3, <2>2 DEF Begin, FlagsOK
  <1>4. CASE Answer(w)
    <2>1. OneOwner' /\ pc' \in [Worker -> Place]
      BY <1>4, GoesOn DEF Answer, Return, Owning, Place
    <2> QED BY <1>4, <2>1 DEF Answer, FlagsOK
  <1>5. CASE Open(w)
    <2>1. OneOwner' /\ pc' \in [Worker -> Place]
      BY <1>5, GoesOn DEF Open, Return, Owning, Place
    <2> QED BY <1>5, <2>1 DEF Open, FlagsOK
  <1> QED BY <1>1, <1>2, <1>3, <1>4, <1>5

\* One owner through finishAction, which lets go and looks back.
LEMMA HeldByFinishAction ==
  ASSUME FlagsOK, OneOwner, NEW w \in Worker, FinishAction(w)
  PROVE  FlagsOK' /\ OneOwner'
  <1>1. CASE TakeAbort(w) \/ DropPause(w) \/ TakePause(w) \/ LoadTarget(w)
    <2>1. PICK place \in {"drop", "pause?", "abort", "target", "release", "pause"} :
            Goto(w, place)
      BY <1>1 DEF TakeAbort, DropPause, TakePause, LoadTarget
    <2>2. OneOwner' /\ pc' \in [Worker -> Place]
      BY <1>1, <2>1, GoesOn DEF TakeAbort, DropPause, TakePause, LoadTarget, Owning, Place
    <2> QED BY <1>1, <2>2 DEF TakeAbort, DropPause, TakePause, LoadTarget, FlagsOK
  <1>2. CASE SendAbort(w) \/ Aborted(w) \/ SendPause(w) \/ Paused(w)
    <2>1. PICK place \in {"abort?", "aborting", "pausing"} : Goto(w, place)
      BY <1>2 DEF SendAbort, Aborted, SendPause, Paused, Return
    <2>2. OneOwner' /\ pc' \in [Worker -> Place]
      BY <1>2, <2>1, GoesOn DEF SendAbort, Aborted, SendPause, Paused, Owning, Place
    <2> QED BY <1>2, <2>2 DEF SendAbort, Aborted, SendPause, Paused, FlagsOK
  <1>3. CASE Release(w)
    <2>1. OneOwner' /\ pc' \in [Worker -> Place]
      BY <1>3, LetsGo DEF Release, Owning, Place
    <2> QED BY <1>3, <2>1 DEF Release, FlagsOK
  <1>4. CASE Recheck(w)
    <2>1. PICK place \in {"retake", "idle"} : Goto(w, place)
      BY <1>4 DEF Recheck
    <2>2. OneOwner' /\ pc' \in [Worker -> Place]
      BY <1>4, <2>1, GoesOn DEF Recheck, Owning, Place
    <2> QED BY <1>4, <2>2 DEF Recheck, FlagsOK
  <1>5. CASE Retake(w) /\ inFlight
    <2>1. OneOwner' /\ pc' \in [Worker -> Place]
      BY <1>5, GoesOn DEF Retake, Owning, Place, FlagsOK
    <2> QED BY <1>5, <2>1 DEF Retake, FlagsOK
  <1>6. CASE Retake(w) /\ ~inFlight
    <2>1. OneOwner' /\ pc' \in [Worker -> Place]
      BY <1>6, Takes DEF Retake, Owning
    <2> QED BY <1>6, <2>1 DEF Retake, FlagsOK
  <1> QED BY <1>1, <1>2, <1>3, <1>4, <1>5, <1>6 DEF FinishAction

\* One owner through every step.
LEMMA HeldByAll ==
  ASSUME FlagsOK, OneOwner, [ShellNext]_shell
  PROVE  FlagsOK' /\ OneOwner'
  <1>1. CASE UNCHANGED shell
    <2>1. FlagsOK'
      BY <1>1 DEF FlagsOK, shell
    <2> QED BY <1>1, <2>1, UnchangedOwner DEF shell
  <1>2. CASE ShellNext
    BY <1>2, HeldByEvents, HeldByCommands, HeldByFinishAction DEF ShellNext, Work
  <1> QED BY <1>1, <1>2

\* The invariant that the other proofs rest on.
LEMMA FlagsHeld == ShellSpec => [](FlagsOK /\ OneOwner)
  <1>1. ShellInit => FlagsOK /\ OneOwner
    BY DEF ShellInit, FlagsOK, OneOwner, Owning, Place
  <1>2. FlagsOK /\ OneOwner /\ [ShellNext]_shell => (FlagsOK /\ OneOwner)'
    BY HeldByAll
  <1> QED BY <1>1, <1>2, PTL DEF ShellSpec

\* Between taking actionInFlight and releasing it there is one goroutine, however many
\* are running: no two requests are out at the same head.
THEOREM OneOwnerAlways == ShellSpec => []OneOwner
  BY FlagsHeld, PTL

------------------------------------------------------------------------------
(* No intent is stranded.                                                      *)

\* A goroutine that has let go and will look back, or is about to take the flag again.
LooksBack(w) == pc[w] \in {"recheck", "retake"}

\* An intent that is raised has somebody who will see it: the owner of the flag, the
\* event thread that is about to look for one, or a goroutine that looks back.
Attended ==
  (abortRequest \/ pauseRequest) =>
    inFlight \/ event = "raised" \/ \E w \in Worker : LooksBack(w)

\* Every intent stays attended through the handlers of the event thread.
LEMMA AttendedByEvents ==
  ASSUME FlagsOK, Attended, PressPause \/ PressAbort \/ Handle
  PROVE  Attended'
  <1>1. CASE PressPause
    BY <1>1 DEF Attended, LooksBack, PressPause
  <1>2. CASE PressAbort \/ RaisePause
    BY <1>2 DEF Attended, PressAbort, RaisePause
  <1>3. CASE Kick
    BY <1>3 DEF Attended, Kick, FlagsOK
  <1> QED BY <1>1, <1>2, <1>3 DEF Handle

\* A goroutine that neither raises an intent, nor lets go, nor stops looking back.
LEMMA StaysAttended ==
  ASSUME FlagsOK, Attended, NEW w \in Worker, ~LooksBack(w),
         NEW place, Goto(w, place), UNCHANGED event,
         inFlight => inFlight',
         (abortRequest' \/ pauseRequest') => abortRequest \/ pauseRequest
  PROVE  Attended'
  BY DEF FlagsOK, Attended, LooksBack, Goto

\* Every intent stays attended through the commands.
LEMMA AttendedByCommands ==
  ASSUME FlagsOK, Attended, NEW w \in Worker,
         Launch(w) \/ Begin(w) \/ Answer(w) \/ Open(w)
  PROVE  Attended'
  <1>1. CASE Launch(w)
    <2>1. PICK place : Goto(w, place)
      BY <1>1 DEF Launch
    <2> QED BY <1>1, <2>1, StaysAttended DEF Launch, LooksBack
  <1>2. CASE Begin(w)
    <2>1. PICK place : Goto(w, place)
      BY <1>2 DEF Begin
    <2> QED BY <1>2, <2>1, StaysAttended DEF Begin, LooksBack
  <1>3. CASE Answer(w) \/ Open(w)
    <2>1. PICK place : Goto(w, place)
      BY <1>3 DEF Answer, Open, Return
    <2> QED BY <1>3, <2>1, StaysAttended DEF Answer, Open, LooksBack
  <1> QED BY <1>1, <1>2, <1>3

\* Every intent stays attended through finishAction.
LEMMA AttendedByFinishAction ==
  ASSUME FlagsOK, Attended, NEW w \in Worker, FinishAction(w)
  PROVE  Attended'
  <1>1. CASE TakeAbort(w) \/ DropPause(w) \/ TakePause(w) \/ LoadTarget(w)
    <2>1. PICK place : Goto(w, place)
      BY <1>1 DEF TakeAbort, DropPause, TakePause, LoadTarget
    <2> QED BY <1>1, <2>1, StaysAttended
            DEF TakeAbort, DropPause, TakePause, LoadTarget, LooksBack
  <1>2. CASE SendAbort(w) \/ Aborted(w) \/ SendPause(w) \/ Paused(w)
    <2>1. PICK place : Goto(w, place)
      BY <1>2 DEF SendAbort, Aborted, SendPause, Paused, Return
    <2> QED BY <1>2, <2>1, StaysAttended
            DEF SendAbort, Aborted, SendPause, Paused, LooksBack
  <1>3. CASE Release(w)
    <2>1. LooksBack(w)'
      BY <1>3 DEF Release, Goto, LooksBack, FlagsOK
    <2> QED BY <2>1 DEF Attended
  <1>4. CASE Recheck(w) /\ (abortRequest \/ pauseRequest)
    <2>1. LooksBack(w)'
      BY <1>4 DEF Recheck, Goto, LooksBack, FlagsOK
    <2> QED BY <2>1 DEF Attended
  <1>5. CASE Recheck(w) /\ ~(abortRequest \/ pauseRequest)
    BY <1>5 DEF Recheck, Attended
  <1>6. CASE Retake(w)
    BY <1>6 DEF Retake, Attended
  <1> QED BY <1>1, <1>2, <1>3, <1>4, <1>5, <1>6 DEF FinishAction

\* Every intent stays attended through every step.
LEMMA AttendedByAll ==
  ASSUME FlagsOK, Attended, [ShellNext]_shell
  PROVE  Attended'
  <1>1. CASE UNCHANGED shell
    BY <1>1 DEF Attended, LooksBack, shell
  <1>2. CASE ShellNext
    BY <1>2, AttendedByEvents, AttendedByCommands, AttendedByFinishAction DEF ShellNext, Work
  <1> QED BY <1>1, <1>2

\* finishAction looks back after it has released the flag, so an intent raised between
\* its last swap and the release is still served: when nothing runs, none is left.
THEOREM NothingStrandedEver == ShellSpec => []NothingStranded
  <1>1. ShellInit => Attended
    BY DEF ShellInit, Attended
  <1>2. FlagsOK /\ Attended /\ [ShellNext]_shell => Attended'
    BY AttendedByAll
  <1>3. FlagsOK /\ OneOwner /\ Attended => NothingStranded
    BY DEF OneOwner, Attended, NothingStranded, Quiet, LooksBack, Owning, FlagsOK
  <1> QED BY <1>1, <1>2, <1>3, FlagsHeld, PTL DEF ShellSpec

------------------------------------------------------------------------------
(* The last pause wins.                                                        *)

View  == [game : Game \cup {NoGame}, paused : BOOLEAN]
Local == [game : Game \cup {NoGame}, target : BOOLEAN]

ViewsOK == view \in View /\ local \in [Worker -> Local]

\* The pause asked for last is still on its way, or it was sent last.
OnItsWay ==
  wanted # Nothing =>
    /\ wanted = {pauseTarget}
    /\ \/ event = "pause stored"
       \/ pauseRequest
       \/ \E w \in Worker : pc[w] = "target"
       \/ \E w \in Worker : pc[w] = "pause" /\ wanted = {local[w].target}
       \/ sent = wanted /\ \A w \in Worker : pc[w] # "pause"

\* A step of a goroutine changes what that goroutine works with and nothing else.
LEMMA OneLocal ==
  ASSUME FlagsOK, ViewsOK, NEW w \in Worker, Launch(w) \/ Work(w)
  PROVE  \E x \in Local : local' = [local EXCEPT ![w] = x]
  <1>1. Blank \in Local /\ local[w] \in Local /\ view.game \in Game \cup {NoGame}
    BY DEF ViewsOK, View, Local, Blank
  <1>2. local = [local EXCEPT ![w] = local[w]]
    BY DEF ViewsOK
  <1>3. \A g \in Game \cup {NoGame} :
          /\ [local[w] EXCEPT !.game = g] \in Local
          /\ [local EXCEPT ![w].game = g] = [local EXCEPT ![w] = [local[w] EXCEPT !.game = g]]
    BY <1>1 DEF Local
  <1>4. CASE UNCHANGED local
    BY <1>1, <1>2, <1>4
  <1>5. CASE local' = [local EXCEPT ![w] = Blank]
    BY <1>1, <1>5
  <1>6. CASE \E g \in Game \cup {NoGame} : local' = [local EXCEPT ![w].game = g]
    BY <1>3, <1>6
  <1>7. CASE Launch(w) \/ Begin(w) \/ Answer(w) \/ Open(w)
    <2>1. CASE Launch(w)
      BY <1>4, <1>6, <2>1 DEF Launch
    <2>2. CASE Begin(w)
      BY <1>1, <1>4, <1>6, <2>2 DEF Begin
    <2>3. CASE Answer(w) \/ Open(w)
      BY <1>5, <2>3 DEF Answer, Open, Return
    <2> QED BY <1>7, <2>1, <2>2, <2>3
  <1>8. CASE TakeAbort(w) \/ DropPause(w) \/ TakePause(w) \/ Release(w) \/ Recheck(w)
             \/ Retake(w)
    BY <1>4, <1>8 DEF TakeAbort, DropPause, TakePause, Release, Recheck, Retake
  <1>9. CASE LoadTarget(w)
    <2>1. local' = [local EXCEPT ![w] = [local[w] EXCEPT !.target = pauseTarget]]
      BY <1>9 DEF LoadTarget
    <2>2. [local[w] EXCEPT !.target = pauseTarget] \in Local
      BY <1>1 DEF Local, FlagsOK
    <2> QED BY <2>1, <2>2
  <1>10. CASE SendAbort(w) \/ SendPause(w)
    <2>1. \/ local' = [local EXCEPT ![w] = Blank]
          \/ local' = [local EXCEPT ![w].game = view.game]
      BY <1>10 DEF SendAbort, SendPause, Return
    <2> QED BY <1>1, <1>5, <1>6, <2>1
  <1>11. CASE Aborted(w) \/ Paused(w)
    BY <1>5, <1>11 DEF Aborted, Paused, Return
  <1> QED BY <1>7, <1>8, <1>9, <1>10, <1>11 DEF Work, FinishAction

\* Only one goroutine's step changes the view.
LEMMA OneView ==
  ASSUME ViewsOK, NEW w \in Worker, Launch(w) \/ Work(w)
  PROVE  view' \in View
  <1>1. local[w] \in Local
    BY DEF ViewsOK
  <1>2. CASE UNCHANGED view
    BY <1>2 DEF ViewsOK
  <1>3. CASE \E g \in Game \cup {NoGame}, p \in BOOLEAN : view' = [game |-> g, paused |-> p]
    BY <1>3 DEF View
  <1>4. CASE Answer(w) \/ Open(w)
    <2>1. \/ UNCHANGED view
          \/ view' = [game |-> local[w].game, paused |-> (status[local[w].game] = "paused")]
      BY <1>4 DEF Answer, Open
    <2>2. (status[local[w].game] = "paused") \in BOOLEAN /\ local[w].game \in Game \cup {NoGame}
      BY <1>1 DEF Local
    <2> QED BY <1>2, <1>3, <2>1, <2>2
  <1>5. CASE Aborted(w) \/ Paused(w)
    <2>1. \/ UNCHANGED view
          \/ view' = [game |-> NoGame, paused |-> FALSE]
          \/ view' = [game |-> local[w].game, paused |-> local[w].target]
      BY <1>5 DEF Aborted, Paused
    <2> QED BY <1>1, <1>2, <1>3, <2>1 DEF Local
  <1>6. CASE Launch(w) \/ Begin(w) \/ TakeAbort(w) \/ DropPause(w) \/ SendAbort(w)
             \/ TakePause(w) \/ LoadTarget(w) \/ SendPause(w) \/ Release(w)
             \/ Recheck(w) \/ Retake(w)
    BY <1>2, <1>6 DEF Launch, Begin, TakeAbort, DropPause, SendAbort, TakePause, LoadTarget,
                      SendPause, Release, Recheck, Retake
  <1> QED BY <1>4, <1>5, <1>6 DEF Work, FinishAction

\* The view and what a goroutine remembers keep their types.
LEMMA ViewsKept ==
  ASSUME FlagsOK, ViewsOK, [ShellNext]_shell
  PROVE  ViewsOK'
  <1>1. CASE UNCHANGED shell
    BY <1>1 DEF ViewsOK, shell
  <1>2. CASE PressPause \/ PressAbort \/ Handle
    BY <1>2 DEF ViewsOK, PressPause, PressAbort, Handle, RaisePause, Kick
  <1>3. ASSUME NEW w \in Worker, Launch(w) \/ Work(w)
        PROVE  ViewsOK'
    <2>1. PICK x \in Local : local' = [local EXCEPT ![w] = x]
      BY <1>3, OneLocal
    <2>2. local' \in [Worker -> Local]
      BY <2>1 DEF ViewsOK
    <2> QED BY <1>3, <2>2, OneView DEF ViewsOK
  <1> QED BY <1>1, <1>2, <1>3 DEF ShellNext

\* What other goroutines work with stays what it was.
LEMMA OthersKeep ==
  ASSUME FlagsOK, ViewsOK, NEW w \in Worker, Launch(w) \/ Work(w)
  PROVE  \A v \in Worker \ {w} : local'[v] = local[v]
  <1>1. PICK x \in Local : local' = [local EXCEPT ![w] = x]
    BY OneLocal
  <1> QED BY <1>1 DEF ViewsOK

\* The last press stays on its way through the event thread.
LEMMA OnItsWayByEvents ==
  ASSUME FlagsOK, OneOwner, OnItsWay, PressPause \/ PressAbort \/ Handle
  PROVE  OnItsWay'
  <1>1. CASE PressPause
    BY <1>1 DEF OnItsWay, PressPause
  <1>2. CASE RaisePause
    BY <1>2 DEF OnItsWay, RaisePause
  <1>3. CASE PressAbort
    BY <1>3 DEF OnItsWay, PressAbort
  <1>4. CASE Kick /\ inFlight
    BY <1>4 DEF OnItsWay, Kick
  <1>5. CASE Kick /\ ~inFlight
    <2>1. PICK w \in Worker : pc[w] = "idle" /\ Goto(w, "abort?")
      BY <1>5 DEF Kick
    <2>2. UNCHANGED <<pauseRequest, pauseTarget, local, wanted, sent>> /\ event = "raised"
      BY <1>5 DEF Kick
    <2> QED BY <2>1, <2>2 DEF OnItsWay, Goto, FlagsOK
  <1> QED BY <1>1, <1>2, <1>3, <1>4, <1>5 DEF Handle

\* A goroutine that has no target in its hands, neither before nor after.
LEMMA StaysOnItsWay ==
  ASSUME FlagsOK, OnItsWay, NEW w \in Worker, NEW place,
         pc[w] \notin {"target", "pause"}, place \notin {"target", "pause"},
         Goto(w, place), \A v \in Worker \ {w} : local'[v] = local[v],
         UNCHANGED <<event, pauseRequest, pauseTarget, wanted, sent>>
  PROVE  OnItsWay'
  BY DEF FlagsOK, OnItsWay, Goto

\* The last press stays on its way through the other commands.
LEMMA OnItsWayByCommands ==
  ASSUME FlagsOK, OnItsWay, ViewsOK, NEW w \in Worker,
         Launch(w) \/ Begin(w) \/ Answer(w) \/ Open(w)
  PROVE  OnItsWay'
  <1>1. \A v \in Worker \ {w} : local'[v] = local[v]
    BY OthersKeep DEF Work
  <1>2. CASE Launch(w)
    <2>1. PICK place \in {"command", "opening"} : Goto(w, place)
      BY <1>2 DEF Launch
    <2> QED BY <1>1, <1>2, <2>1, StaysOnItsWay DEF Launch
  <1>3. CASE Begin(w)
    <2>1. PICK place \in {"idle", "abort?", "asking"} : Goto(w, place)
      BY <1>3 DEF Begin
    <2> QED BY <1>1, <1>3, <2>1, StaysOnItsWay DEF Begin
  <1>4. CASE Answer(w)
    BY <1>1, <1>4, StaysOnItsWay DEF Answer, Return
  <1>5. CASE Open(w)
    BY <1>1, <1>5, StaysOnItsWay DEF Open, Return
  <1> QED BY <1>2, <1>3, <1>4, <1>5

\* The last press stays on its way through the pause itself.
LEMMA OnItsWayByPause ==
  ASSUME FlagsOK, OneOwner, OnItsWay, ViewsOK, NEW w \in Worker,
         TakePause(w) \/ LoadTarget(w) \/ SendPause(w)
  PROVE  OnItsWay'
  <1>1. CASE TakePause(w) /\ pauseRequest
    <2>1. pc'[w] = "target" /\ UNCHANGED <<wanted, pauseTarget>>
      BY <1>1 DEF TakePause, Goto, FlagsOK
    <2> QED BY <2>1 DEF OnItsWay
  <1>2. CASE TakePause(w) /\ ~pauseRequest
    <2>1. ~pauseRequest' /\ Goto(w, "release") /\ pc[w] = "pause?"
          /\ UNCHANGED <<event, pauseTarget, local, wanted, sent>>
      BY <1>2 DEF TakePause
    <2> QED BY <1>2, <2>1 DEF OnItsWay, Goto, FlagsOK
  <1>3. CASE LoadTarget(w)
    <2>1. pc'[w] = "pause" /\ local'[w].target = pauseTarget
          /\ UNCHANGED <<pauseTarget, wanted>>
      BY <1>3 DEF LoadTarget, Goto, FlagsOK, ViewsOK, Local
    <2> QED BY <2>1 DEF OnItsWay
  <1>4. CASE SendPause(w) /\ view.game = NoGame
    BY <1>4 DEF SendPause, OnItsWay
  <1>5. CASE SendPause(w) /\ view.game # NoGame
    <2>1. pc[w] = "pause" /\ sent' = {local[w].target} /\ Goto(w, "pausing")
          /\ UNCHANGED <<event, pauseRequest, pauseTarget, wanted>>
      BY <1>5 DEF SendPause
    <2>2. \A v \in Worker : pc[v] \in {"target", "pause"} => v = w
      BY <2>1 DEF OneOwner, Owning
    <2>3. \A v \in Worker \ {w} : local'[v] = local[v]
      BY OthersKeep, <1>5 DEF Work, FinishAction
    <2> QED BY <2>1, <2>2, <2>3 DEF OnItsWay, Goto, FlagsOK
  <1> QED BY <1>1, <1>2, <1>3, <1>4, <1>5

\* The last press stays on its way through finishAction.
LEMMA OnItsWayByFinishAction ==
  ASSUME FlagsOK, OneOwner, OnItsWay, ViewsOK, NEW w \in Worker,
         FinishAction(w)
  PROVE  OnItsWay'
  <1>1. CASE TakePause(w) \/ LoadTarget(w) \/ SendPause(w)
    BY <1>1, OnItsWayByPause
  <1>2. CASE DropPause(w)
    BY <1>2 DEF DropPause, OnItsWay
  <1>3. CASE TakeAbort(w) \/ Release(w) \/ Recheck(w) \/ Retake(w)
    <2>1. PICK place \in {"drop", "pause?", "recheck", "retake", "idle", "abort?"} :
            Goto(w, place)
      BY <1>3 DEF TakeAbort, Release, Recheck, Retake
    <2> QED BY <1>3, <2>1, StaysOnItsWay DEF TakeAbort, Release, Recheck, Retake
  <1>4. CASE SendAbort(w) \/ Aborted(w) \/ Paused(w)
    <2>1. PICK place \in {"abort?", "aborting"} : Goto(w, place)
      BY <1>4 DEF SendAbort, Aborted, Paused, Return
    <2>2. \A v \in Worker \ {w} : local'[v] = local[v]
      BY OthersKeep DEF Work
    <2> QED BY <1>4, <2>1, <2>2, StaysOnItsWay DEF SendAbort, Aborted, Paused
  <1> QED BY <1>1, <1>2, <1>3, <1>4 DEF FinishAction

\* The last press stays on its way through every step.
LEMMA OnItsWayByAll ==
  ASSUME FlagsOK, OneOwner, ViewsOK, OnItsWay, [ShellNext]_shell
  PROVE  OnItsWay'
  <1>1. CASE UNCHANGED shell
    BY <1>1 DEF OnItsWay, shell
  <1>2. CASE ShellNext
    BY <1>2, OnItsWayByEvents, OnItsWayByCommands, OnItsWayByFinishAction DEF ShellNext, Work
  <1> QED BY <1>1, <1>2

\* The target is stored before the intent is raised and loaded after it was taken, so
\* what is sent last is what was asked for last, however the presses fall.
THEOREM LastPauseWinsAlways == ShellSpec => []LastPauseWins
  <1>1. ShellInit => ViewsOK
    <2>1. ShellInit => local \in [Worker -> Local]
      BY DEF ShellInit, Local, Blank
    <2>2. {FALSE} \subseteq BOOLEAN
      OBVIOUS
    <2>3. [game : Game \cup {NoGame}, paused : {FALSE}] \subseteq View
      BY <2>2 DEF View
    <2>4. ShellInit => view \in View
      BY <2>3 DEF ShellInit
    <2> QED BY <2>1, <2>4 DEF ViewsOK
  <1>2. ShellInit => OnItsWay
    <2>1. ShellInit => wanted = Nothing
      BY DEF ShellInit
    <2> QED BY <2>1 DEF OnItsWay
  <1>3. FlagsOK /\ OneOwner /\ ViewsOK /\ OnItsWay /\ [ShellNext]_shell => (ViewsOK /\ OnItsWay)'
    BY ViewsKept, OnItsWayByAll
  <1>4. FlagsOK /\ OneOwner /\ OnItsWay /\ NothingStranded => LastPauseWins
    BY DEF LastPauseWins, OnItsWay, NothingStranded, Quiet, FlagsOK
  <1> QED BY <1>1, <1>2, <1>3, <1>4, FlagsHeld, NothingStrandedEver, PTL DEF ShellSpec

=============================================================================
