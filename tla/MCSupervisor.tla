---------------------------- MODULE MCSupervisor ----------------------------
(* Small instances of Supervisor for TLC. *)
EXTENDS Supervisor

CONSTANTS alpha, beta, alphaSock, betaSock

OwnSockets == [c \in Chats |-> IF c = alpha THEN alphaSock ELSE betaSock]

=============================================================================
