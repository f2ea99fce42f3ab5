------------------------------- MODULE GameLog -------------------------------
(***************************************************************************)
(* What a stored game promises to everyone who reads it: a list of events  *)
(* that only grows, each event belonging to one accepted request, until    *)
(* the game is closed; after that it never changes.                        *)
(***************************************************************************)
EXTENDS Naturals, Sequences

CONSTANT EventKind

VARIABLES log, closed

LogInit == log = << >> /\ closed \in BOOLEAN

Append1 == /\ ~closed
           /\ \E e \in EventKind : log' = Append(log, e)
           /\ UNCHANGED closed

Close == ~closed /\ closed' = TRUE /\ UNCHANGED log

LogSpec == LogInit /\ [][Append1 \/ Close]_<<log, closed>>

=============================================================================
