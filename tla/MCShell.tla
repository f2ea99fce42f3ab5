------------------------------- MODULE MCShell -------------------------------
(* An instance of the client's request control for TLC.                      *)
EXTENDS ShellActions
=============================================================================
