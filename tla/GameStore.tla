------------------------------ MODULE GameStore ------------------------------
(***************************************************************************)
(* The rows of one game in internal/store/store.go: its status, its chain  *)
(* of events, the head snapshot and the relational summary.                *)
(*                                                                         *)
(* The store runs on one SQLite connection, so a transaction is atomic.    *)
(* As in WormsEngine the rows are a value and a transaction is an operator *)
(* on it, with a predicate that says when it commits; one that does not    *)
(* commit leaves the rows alone.                                           *)
(*                                                                         *)
(* An event's hash covers its predecessor's hash, so the hash of the head  *)
(* identifies the whole chain (SHA-256 is taken to be collision-free): it  *)
(* is represented by the chain itself.                                     *)
(***************************************************************************)
EXTENDS Naturals, Sequences

\* The statuses that UpdateGame, AppendGameEvents and CompleteGame refuse.
Terminal == {"completed", "cancelled"}

\* What a writer must name: the sequence and the hash of the head it has seen.
HeadOf(db) == [sequence |-> Len(db.chain), hash |-> db.chain]

CreatedGame(status) ==
  [status |-> status, chain |-> << >>, snapshot |-> 0, scored |-> FALSE]

\* Fault: a terminal game is still written to.
CanWriteAnyStatus(db, head) == head = HeadOf(db)

\* Fault: the head is not compared.
CanWriteAnyHead(db, head) == db.status \notin Terminal

CanWrite(db, head) == db.status \notin Terminal /\ head = HeadOf(db)

\* AppendGameEventsWithSnapshot: the events, the head and the snapshot of the
\* resulting state are one transaction.
AppendedWithSnapshot(db, events) ==
  [db EXCEPT !.chain = @ \o events, !.snapshot = Len(db.chain \o events)]

\* UpdateGame changes the status and nothing else, not even the head.
WithStatus(db, status) == [db EXCEPT !.status = status]

\* CompleteGame: the final status and the authoritative scores.
Completed(db, status) == [db EXCEPT !.status = status, !.scored = TRUE]

\* VerifyEventChain compares a head it has read with a chain it lists afterwards.
ChainMatches(head, chain) == head.sequence = Len(chain) /\ head.hash = chain

=============================================================================
