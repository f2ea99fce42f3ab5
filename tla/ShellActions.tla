----------------------------- MODULE ShellActions -----------------------------
(***************************************************************************)
(* The client's control of its requests: internal/ui/ui.go.                *)
(*                                                                         *)
(* A move, a planned answer or an autonomous tick holds the flag           *)
(* actionInFlight while its request is out.  Pause and abort may be asked  *)
(* for at any time: they leave an intent in an atomic flag, and whoever    *)
(* holds actionInFlight commits the intents before letting go              *)
(* (finishAction).  Opening a game takes no flag at all.                   *)
(*                                                                         *)
(* The event thread and the goroutines interleave at every atomic          *)
(* operation.  A request is answered, refused, or carried out with its     *)
(* answer lost; every request has a deadline of its own, so it does end.   *)
(***************************************************************************)
EXTENDS Naturals, FiniteSets

CONSTANTS Worker,   \* goroutines; bound on how many are running
          Game,     \* games on the server
          NoGame    \* the view of a client that has none open

ASSUME ShellAssumption == NoGame \notin Game

VARIABLES
  inFlight,      \* Shell.actionInFlight
  pauseRequest,  \* Shell.pauseRequested
  pauseTarget,   \* Shell.pauseTarget
  abortRequest,  \* Shell.abortRequested
  view,          \* the game in Model.view and HUD.Paused
  status,        \* the status of each game on the server
  event,         \* how far the event thread is in requestPause or requestAbort
  pc,            \* where each goroutine is
  local,         \* the game and the pause target it works with
  wanted,        \* the pause the player asked for last, until an abort or the
                 \* absence of a game makes it moot
  sent           \* the pause target sent last

shell == <<inFlight, pauseRequest, pauseTarget, abortRequest, view, status,
           event, pc, local, wanted, sent>>

Nothing == {}

Blank == [game |-> NoGame, target |-> FALSE]

\* Where a goroutine owns actionInFlight.
Owning == {"asking", "abort?", "drop", "abort", "aborting", "pause?", "target",
           "pause", "pausing", "release"}

ShellInit ==
  /\ inFlight = FALSE /\ pauseRequest = FALSE /\ pauseTarget = FALSE
  /\ abortRequest = FALSE
  /\ view \in [game : Game \cup {NoGame}, paused : {FALSE}]
  /\ status = [g \in Game |-> "active"]
  /\ event = "idle"
  /\ pc = [w \in Worker |-> "idle"]
  /\ local = [w \in Worker |-> Blank]
  /\ wanted = Nothing /\ sent = Nothing

Goto(w, place) == pc' = [pc EXCEPT ![w] = place]

\* A function returns: what it has read is gone.
Return(w, place) == Goto(w, place) /\ local' = [local EXCEPT ![w] = Blank]

------------------------------------------------------------------------------
(* The event thread.                                                           *)

\* requestPause stores the target before it raises the flag.
PressPause ==
  /\ event = "idle"
  /\ pauseTarget' = ~view.paused
  /\ wanted' = {~view.paused}
  /\ event' = "pause stored"
  /\ UNCHANGED <<inFlight, pauseRequest, abortRequest, view, status, pc, local, sent>>

RaisePause ==
  /\ event = "pause stored"
  /\ pauseRequest' = TRUE
  /\ event' = "raised"
  /\ UNCHANGED <<inFlight, pauseTarget, abortRequest, view, status, pc, local, wanted, sent>>

\* requestAbort.
PressAbort ==
  /\ event = "idle"
  /\ abortRequest' = TRUE
  /\ event' = "raised"
  /\ UNCHANGED <<inFlight, pauseRequest, pauseTarget, view, status, pc, local, wanted, sent>>

\* Both end alike: nobody owns the flag, so a goroutine is started to drain.
Kick ==
  /\ event = "raised"
  /\ event' = "idle"
  /\ IF inFlight THEN UNCHANGED <<inFlight, pc>>
     ELSE /\ inFlight' = TRUE
          /\ \E w \in Worker : pc[w] = "idle" /\ Goto(w, "abort?")
  /\ UNCHANGED <<pauseRequest, pauseTarget, abortRequest, view, status, local, wanted, sent>>

\* A key, a button or the scheduler starts a command; a click opens a game.
Launch(w) ==
  /\ event = "idle"
  /\ pc[w] = "idle"
  /\ \/ Goto(w, "command") /\ UNCHANGED local
     \/ \E g \in Game : /\ Goto(w, "opening")
                        /\ local' = [local EXCEPT ![w].game = g]
  /\ UNCHANGED <<inFlight, pauseRequest, pauseTarget, abortRequest, view, status,
                 event, wanted, sent>>

------------------------------------------------------------------------------
(* Commands: submitDirection, planPending, submitAutonomous.                   *)

\* CompareAndSwap: one command at a time, a second one is dropped.
Begin(w) ==
  /\ pc[w] = "command"
  /\ IF inFlight
     THEN Goto(w, "idle") /\ UNCHANGED <<inFlight, local>>
     ELSE /\ inFlight' = TRUE
          /\ local' = [local EXCEPT ![w].game = view.game]
          /\ Goto(w, IF view.game = NoGame \/ view.paused THEN "abort?" ELSE "asking")
  /\ UNCHANGED <<pauseRequest, pauseTarget, abortRequest, view, status, event, wanted, sent>>

\* The answer brings the game's row along; without one the view stays.
Answer(w) ==
  LET g == local[w].game IN
  /\ pc[w] = "asking"
  /\ \/ UNCHANGED view
     \/ status[g] # "cancelled" /\ view' = [game |-> g, paused |-> status[g] = "paused"]
  /\ Return(w, "abort?")
  /\ UNCHANGED <<inFlight, pauseRequest, pauseTarget, abortRequest, status, event, wanted, sent>>

\* resumeGame and startGame, beside everything else.
Open(w) ==
  LET g == local[w].game IN
  /\ pc[w] = "opening"
  /\ \/ UNCHANGED view
     \/ view' = [game |-> g, paused |-> status[g] = "paused"]
  /\ Return(w, "idle")
  /\ UNCHANGED <<inFlight, pauseRequest, pauseTarget, abortRequest, status, event, wanted, sent>>

------------------------------------------------------------------------------
(* finishAction, one step for each atomic operation and each request.          *)

TakeAbort(w) ==
  /\ pc[w] = "abort?"
  /\ abortRequest' = FALSE
  /\ Goto(w, IF abortRequest THEN "drop" ELSE "pause?")
  /\ UNCHANGED <<inFlight, pauseRequest, pauseTarget, view, status, event, local,
                 wanted, sent>>

\* An abort takes a pause that is still waiting with it.
DropPause(w) ==
  /\ pc[w] = "drop"
  /\ pauseRequest' = FALSE
  /\ wanted' = Nothing
  /\ Goto(w, "abort")
  /\ UNCHANGED <<inFlight, pauseTarget, abortRequest, view, status, event, local, sent>>

\* commitAbort: nothing is sent when no game is open.
SendAbort(w) ==
  /\ pc[w] = "abort"
  /\ IF view.game = NoGame THEN Return(w, "abort?")
     ELSE Goto(w, "aborting") /\ local' = [local EXCEPT ![w].game = view.game]
  /\ UNCHANGED <<inFlight, pauseRequest, pauseTarget, abortRequest, view, status,
                 event, wanted, sent>>

\* UpdateGame refuses a game that is cancelled already.
Aborted(w) ==
  LET g == local[w].game IN
  /\ pc[w] = "aborting"
  /\ \/ UNCHANGED <<status, view>>
     \/ /\ status[g] # "cancelled"
        /\ status' = [status EXCEPT ![g] = "cancelled"]
        /\ \/ view' = [game |-> NoGame, paused |-> FALSE]
           \/ UNCHANGED view
  /\ Return(w, "abort?")
  /\ UNCHANGED <<inFlight, pauseRequest, pauseTarget, abortRequest, event, wanted, sent>>

\* Fault: the flag is cleared only when the pause has been sent.
SendThenClear(w) ==
  /\ pc[w] = "pause"
  /\ pauseRequest' = FALSE
  /\ IF view.game = NoGame
     THEN Return(w, "abort?") /\ wanted' = Nothing /\ UNCHANGED sent
     ELSE /\ Goto(w, "pausing") /\ sent' = {local[w].target} /\ UNCHANGED wanted
          /\ local' = [local EXCEPT ![w].game = view.game]
  /\ UNCHANGED <<inFlight, pauseTarget, abortRequest, view, status, event>>

TakePause(w) ==
  /\ pc[w] = "pause?"
  /\ pauseRequest' = FALSE
  /\ Goto(w, IF pauseRequest THEN "target" ELSE "release")
  /\ UNCHANGED <<inFlight, pauseTarget, abortRequest, view, status, event, local,
                 wanted, sent>>

LoadTarget(w) ==
  /\ pc[w] = "target"
  /\ local' = [local EXCEPT ![w].target = pauseTarget]
  /\ Goto(w, "pause")
  /\ UNCHANGED <<inFlight, pauseRequest, pauseTarget, abortRequest, view, status,
                 event, wanted, sent>>

\* commitPaused: nothing is sent when no game is open.
SendPause(w) ==
  /\ pc[w] = "pause"
  /\ IF view.game = NoGame
     THEN Return(w, "abort?") /\ wanted' = Nothing /\ UNCHANGED sent
     ELSE /\ Goto(w, "pausing") /\ sent' = {local[w].target} /\ UNCHANGED wanted
          /\ local' = [local EXCEPT ![w].game = view.game]
  /\ UNCHANGED <<inFlight, pauseRequest, pauseTarget, abortRequest, view, status,
                 event>>

\* The server stores the status unless the game is cancelled; a lost answer leaves
\* the view as it was.
Paused(w) ==
  LET g == local[w].game IN
  /\ pc[w] = "pausing"
  /\ \/ UNCHANGED <<status, view>>
     \/ /\ status[g] # "cancelled"
        /\ status' = [status EXCEPT ![g] = IF local[w].target THEN "paused" ELSE "active"]
        /\ \/ view' = [game |-> g, paused |-> local[w].target]
           \/ UNCHANGED view
  /\ Return(w, "abort?")
  /\ UNCHANGED <<inFlight, pauseRequest, pauseTarget, abortRequest, event, wanted, sent>>

\* Fault: whoever lets go does not look back.
ReleaseForGood(w) ==
  /\ pc[w] = "release"
  /\ inFlight' = FALSE
  /\ Goto(w, "idle")
  /\ UNCHANGED <<pauseRequest, pauseTarget, abortRequest, view, status, event, local,
                 wanted, sent>>

Release(w) ==
  /\ pc[w] = "release"
  /\ inFlight' = FALSE
  /\ Goto(w, "recheck")
  /\ UNCHANGED <<pauseRequest, pauseTarget, abortRequest, view, status, event, local,
                 wanted, sent>>

\* A request that arrived after the last swap found the flag taken.
Recheck(w) ==
  /\ pc[w] = "recheck"
  /\ Goto(w, IF abortRequest \/ pauseRequest THEN "retake" ELSE "idle")
  /\ UNCHANGED <<inFlight, pauseRequest, pauseTarget, abortRequest, view, status,
                 event, local, wanted, sent>>

\* Fault: the flag is stored, not compared and swapped.
RetakeAnyway(w) ==
  /\ pc[w] = "retake"
  /\ inFlight' = TRUE
  /\ Goto(w, "abort?")
  /\ UNCHANGED <<pauseRequest, pauseTarget, abortRequest, view, status, event, local,
                 wanted, sent>>

Retake(w) ==
  /\ pc[w] = "retake"
  /\ inFlight' = TRUE
  /\ Goto(w, IF inFlight THEN "idle" ELSE "abort?")
  /\ UNCHANGED <<pauseRequest, pauseTarget, abortRequest, view, status, event, local,
                 wanted, sent>>

FinishAction(w) ==
  \/ TakeAbort(w) \/ DropPause(w) \/ SendAbort(w) \/ Aborted(w)
  \/ TakePause(w) \/ LoadTarget(w) \/ SendPause(w) \/ Paused(w)
  \/ Release(w) \/ Recheck(w) \/ Retake(w)

Work(w) == Begin(w) \/ Answer(w) \/ Open(w) \/ FinishAction(w)

Handle == RaisePause \/ Kick

ShellNext == PressPause \/ PressAbort \/ Handle \/ \E w \in Worker : Launch(w) \/ Work(w)

\* The event thread leaves its handlers, and a goroutine that can run does run: its
\* requests end at the latest with their deadline.  The player need not do anything.
ShellSpec ==
  /\ ShellInit /\ [][ShellNext]_shell
  /\ WF_shell(Handle)
  /\ \A w \in Worker : WF_shell(Work(w))

------------------------------------------------------------------------------
(* Properties.                                                                 *)

\* finishAction retains exclusive ownership: never two goroutines between taking
\* and releasing actionInFlight, so never two requests at the same head.
OneOwner ==
  /\ \A v, w \in Worker : pc[v] \in Owning /\ pc[w] \in Owning => v = w
  /\ inFlight <=> \E w \in Worker : pc[w] \in Owning

Quiet == event = "idle" /\ \A w \in Worker : pc[w] = "idle"

\* When nothing is running any more, no intent is left behind: an intent raised in
\* the gap between the last swap and the release is not stranded.
NothingStranded == Quiet => ~abortRequest /\ ~pauseRequest

\* The last pause or continue the player asked for is the last one sent, however
\* the presses fall among the operations of the goroutine that drains them.
LastPauseWins ==
  Quiet /\ wanted # Nothing => sent = wanted

\* Every intent is taken up eventually, whatever else is going on.
IntentsAreServed == /\ abortRequest ~> ~abortRequest
                    /\ pauseRequest ~> ~pauseRequest

=============================================================================
