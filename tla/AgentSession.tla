----------------------------- MODULE AgentSession -----------------------------
(***************************************************************************)
(* One session of the SessionManager of internal/agent/session.go: the     *)
(* mailbox through which a policy, or somebody outside, decides for a worm *)
(* of one game.                                                            *)
(*                                                                         *)
(* Every method holds the manager's mutex, so a method is an operator on   *)
(* the session: what it returns and what it leaves behind.  Credentials    *)
(* always match here, and a response is well formed except for its action. *)
(***************************************************************************)
EXTENDS Naturals, FiniteSets

NoRequest == [id |-> 0]

\* What a decision is resolved with, and what an answer is told besides.
Resolution == {"accepted", "resigned", "timeout", "disconnect"}
Told       == Resolution \cup {"duplicate", "stale", "illegal"}

Resign    == [kind |-> "resign"]
Move(d)   == [kind |-> "move", dir |-> d]
NoAction  == [kind |-> "none"]

\* Start: a session nobody has asked anything yet.
NewSession == [closed |-> FALSE, pending |-> NoRequest, resolved |-> [i \in {} |-> NoAction]]

\* Begin refuses a closed session, a second request before the first is resolved,
\* and a request whose deadline is over.  It does not ask whether the request has
\* been resolved before.
CanBegin(s, late) == ~s.closed /\ s.pending = NoRequest /\ ~late

Begun(s, id, legal) == [s EXCEPT !.pending = [id |-> id, legal |-> legal, late |-> FALSE]]

\* resolveLocked overwrites whatever the decision was resolved with before.
Resolve(s, outcome, action) ==
  LET id == s.pending.id IN
  [s EXCEPT !.pending  = NoRequest,
            !.resolved = [i \in DOMAIN @ \cup {id} |->
                            IF i = id THEN [outcome |-> outcome, action |-> action]
                            ELSE @[i]]]

\* The checks of Submit, in their order.
Verdict(s, id, action) ==
  CASE id \in DOMAIN s.resolved -> "duplicate"
    [] id \notin DOMAIN s.resolved /\ s.pending = NoRequest -> "stale"
    [] id \notin DOMAIN s.resolved /\ s.pending # NoRequest ->
         IF s.pending.late THEN "timeout"
         ELSE IF id # s.pending.id THEN "stale"
         ELSE IF action \notin s.pending.legal THEN "illegal"
         ELSE IF action = Resign THEN "resigned" ELSE "accepted"

\* Only a resolution consumes the pending decision.
AfterSubmit(s, id, action) ==
  LET v == Verdict(s, id, action) IN
  IF v \notin Resolution THEN s
  ELSE Resolve(s, v, IF v = "timeout" THEN NoAction ELSE action)

\* Fault: a duplicate is told its own action.
ToldOwnAction(s, id, action) ==
  IF Verdict(s, id, action) \in {"accepted", "resigned", "duplicate"} THEN action
  ELSE NoAction

\* The action in the answer to Submit: a duplicate repeats the one resolved before.
ToldAction(s, id, action) ==
  LET v == Verdict(s, id, action) IN
  IF v \in {"accepted", "resigned"} THEN action
  ELSE IF v = "duplicate" THEN s.resolved[id].action ELSE NoAction

\* Disconnect resolves whatever is pending, whoever reports it.
Disconnected(s) ==
  IF s.closed \/ s.pending = NoRequest THEN s ELSE Resolve(s, "disconnect", NoAction)

CanTimeOut(s) == ~s.closed /\ s.pending # NoRequest /\ s.pending.late

Closed(s) == [Disconnected(s) EXCEPT !.closed = TRUE]

\* Time passes for the pending decision.
Overdue(s) == IF s.pending = NoRequest THEN s ELSE [s EXCEPT !.pending.late = TRUE]
=============================================================================
