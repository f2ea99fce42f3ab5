----------------------------- MODULE Diagnostics -----------------------------
(***************************************************************************)
(* Diagnostic documents of internal/debug/debug.go, taken from the file    *)
(* the game service is writing to.                                         *)
(*                                                                         *)
(* `wormsctl diagnostic export` has a read-only connection of its own and  *)
(* no transaction: the row, the events and the snapshot are three queries, *)
(* and any of them may fall between two requests of the service.  The      *)
(* document is then validated, restored into an empty database and         *)
(* replayed there, while the original goes on.                             *)
(*                                                                         *)
(* One reader at a time, GET .../resume or an export: neither writes, so   *)
(* neither can see the other.  The database that is restored into is empty *)
(* (any other is refused before a row is written).                         *)
(***************************************************************************)
EXTENDS GameService

Debugger == "wormsctl"

NoSnapshot == [sequence |-> 0]

\* Reader.Game.  `asOf` remembers the state of that moment, for the property.
ExportGame ==
  /\ reader = NotReading
  /\ reader' = [at |-> "game", by |-> Debugger, asOf |-> game,
                game |-> [head |-> HeadOf(db), status |-> db.status]]
  /\ UNCHANGED <<game, db, handler, attempt, applied, answer, known>>

\* Reader.Events: all of them, each with the hash that its place in the chain gives.
ExportEvents ==
  /\ reader.at = "game"
  /\ reader' = [at |-> "events", by |-> Debugger, asOf |-> reader.asOf,
                game |-> reader.game, events |-> db.chain]
  /\ UNCHANGED <<game, db, handler, attempt, applied, answer, known>>

\* Reader.Snapshot: the newest one; a game without a snapshot is exported without.
NewestSnapshot ==
  IF db.snapshot = 0 THEN NoSnapshot ELSE [sequence |-> db.snapshot, state |-> game]

\* Redact rewrites every payload and chains the events anew; the row gets the hash
\* of the last event exported, and keeps its own sequence.
Redacted(g, events) == [g EXCEPT !.head.hash = events]

\* The document holds what the three queries have returned.
Document(redact) ==
  [game |-> IF redact THEN Redacted(reader.game, reader.events) ELSE reader.game,
   events |-> reader.events, snapshot |-> NewestSnapshot]

\* Fault: the last event is not compared with the head that the row names.
VerifyEventsOnly(g, events) == TRUE

\* The events are numbered and chained from the genesis (so their hashes are those of
\* the chain they form), and they end at the head that the row names.
VerifyEvents(g, events) == ChainMatches(g.head, events)

\* ValidateDiagnostic has nothing to say about the sequence of the snapshot.
ValidateDiagnostic(d) == VerifyEvents(d.game, d.events)

\* What Replay makes of a restored game: a snapshot that the events reach must decode,
\* and one from beyond them is ignored.  The state it leads to is not kept: the result
\* is the trace of the events.
Replay(copy) ==
  IF /\ copy.snapshot # NoSnapshot
     /\ copy.snapshot.sequence <= Len(copy.events)
     /\ ~Validate(copy.snapshot.state)
  THEN "unreadable" ELSE "replayed"

\* RestoreDiagnostic writes the rows of the document, all or none, and Replay reads them.
RestoreDiagnostic(d) == IF ValidateDiagnostic(d) THEN Replay(d) ELSE "refused"

\* The last query makes the document.  What is done with it afterwards reads nothing of
\* the original and belongs to the same step: it is validated, restored and replayed.
Export ==
  /\ reader.at = "events"
  /\ \E redact \in BOOLEAN :
       LET d == Document(redact) IN
         reader' = [at |-> RestoreDiagnostic(d), by |-> Debugger, asOf |-> reader.asOf,
                    game |-> d.game, events |-> d.events]
  /\ UNCHANGED <<game, db, handler, attempt, applied, answer, known>>

Discard ==
  /\ reader.at \in {"refused", "replayed", "unreadable"}
  /\ reader' = NotReading
  /\ UNCHANGED <<game, db, handler, attempt, applied, answer, known>>

Diagnose == ExportGame \/ ExportEvents \/ Export \/ Discard

DiagnosticsNext == ServiceNext \/ Diagnose

DiagnosticsSpec == ServiceInit /\ [][DiagnosticsNext]_service

------------------------------------------------------------------------------
(* Property.                                                                   *)

\* An export that is taken beside the writers is either refused by ValidateDiagnostic,
\* and then only because the game has moved on since its row was read, or it is a piece
\* of the game's history: its events are what the game had when its row was read and
\* still begin the chain, and a closed game is whole.  A copy that is accepted fails to
\* replay only when the state that belongs to its last event does not load: a snapshot
\* that the writers have stored since never spoils it.
CopyIsHistory ==
  /\ reader.at = "refused" => Len(db.chain) > reader.game.head.sequence
  /\ reader.at \in {"replayed", "unreadable"} =>
       /\ reader.events = SubSeq(db.chain, 1, reader.game.head.sequence)
       /\ reader.game.status \in Terminal => reader.events = db.chain
  /\ reader.at = "unreadable" => ~Validate(reader.asOf)

=============================================================================
