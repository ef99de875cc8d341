------------------------------ MODULE MCBroker ------------------------------
(* A small instance of Broker for TLC.  Two encounters:  a prompt crosses a  *)
(* publish that spawns and writes to every agent;  two prompts of which      *)
(* either may be late.  A request of an unknown type comes alone.            *)
EXTENDS Broker

CONSTANTS work, dummy, prompt, rival, publish, stray

Kinds ==
    [r \in Requests |-> CASE r = publish -> "topic" [] r = stray -> "other" [] OTHER -> "action"]

Targets == [r \in Requests |-> IF r \in {prompt, rival} THEN work ELSE NoAgent]

(* What the order of events is about is one agent with two.                 *)
EventsOf == [a \in Agents |-> IF a = work THEN 2 ELSE 1]

Encounters == {{prompt, publish}, {prompt, rival}, {stray}}

=============================================================================
