------------------------------- MODULE MCShell -------------------------------
(* One chat with its shell. *)
EXTENDS ShellSession

OneKey == [c \in Callers |-> "chat"]

=============================================================================
