---------------------------- MODULE MCAgentMemory ----------------------------
(* One chat: its AgentMemory process and the prompt thread of its AgentWork. *)
EXTENDS AgentMemory

CONSTANTS memory, work

(* The second file loses its section when it is changed.                   *)
Hollows == {<<2, 2>>}

OneChat == [a \in {work} |-> memory]

=============================================================================
