------------------------------- MODULE Broker -------------------------------
(***************************************************************************)
(* The per-chat broker process (tools/agent_core/runtime/broker.py).       *)
(*                                                                         *)
(* Every client connection is served by a thread of its own                *)
(* (_UnixBrokerServer is a ThreadingMixIn server); every agent is a        *)
(* subprocess with one reader thread in the broker.  A handler thread      *)
(* registers the request in the agent's _pending table, writes it to the   *)
(* agent's stdin and waits, with a timeout, for the reader thread to put   *)
(* the answer with the same message_id into its one-place queue.           *)
(*                                                                         *)
(* A request stands for its own message_id: clients draw it from uuid4.    *)
(* I/O errors of the trace file are not modelled.  A line the reader       *)
(* cannot parse changes nothing in the broker (broker.py:177-182), so it   *)
(* is a stuttering step and has no action.                                 *)
(***************************************************************************)
EXTENDS Naturals, Sequences, FiniteSets

CONSTANTS
    Agents,        \* agent types the broker can spawn
    Silent,        \* agents spawned without an outbound callback (AgentDummy)
    Requests,      \* one per client connection
    Kind,          \* the type field of each request
    Meetings,      \* bound: the requests that may be there in one behaviour
    Target,        \* the agent type its to_agent resolves to, or NoAgent
    NoAgent,
    NoRequest,
    PipeCapacity,  \* lines an agent's stdin pipe holds before a write blocks
    MaxEvents      \* bound: event lines of each agent

ASSUME BrokerAssumption ==
    /\ NoAgent \notin Agents
    /\ NoRequest \notin Requests
    /\ Silent \subseteq Agents
    /\ Kind \in [Requests -> {"topic", "service", "action", "other"}]
    /\ Target \in [Requests -> Agents \cup {NoAgent}]
    /\ Meetings \subseteq SUBSET Requests
    /\ PipeCapacity \in Nat \ {0}
    /\ MaxEvents \in [Agents -> Nat]

VARIABLES
    proc,      \* "absent" (not in _agents), "alive" or "dead"
    inbox,     \* the agent's stdin: request lines, oldest first
    outbox,    \* the agent's stdout: lines the reader has not taken
    emitted,   \* how many event lines the agent has written
    pending,   \* the keys of the agent's _pending table
    held,      \* the request whose queue the reader fetched from _pending
    slot,      \* whether the request's one-place queue is full
    pc,        \* where the handler thread of the request is
    todo,      \* agents a topic fan-out has still to write to
    answer,    \* what the client was answered
    trace,     \* the rows of the trace file
    servedAt   \* history: emitted[a] at each time the target answered the request

agentVars   == <<proc, inbox, outbox, emitted, servedAt>>
handlerVars == <<pending, pc, todo, answer>>
readerVars  == <<held, slot>>
vars == <<agentVars, handlerVars, readerVars, trace>>

EventLine(n)  == [type |-> "event", id |-> n]
AnswerLine(r) == [type |-> "response", id |-> r]

Line == [type : {"event"}, id : Nat] \cup [type : {"response"}, id : Requests]

EventRow(a, n) == [type |-> "event", of |-> a, n |-> n]
RequestRow(r)  == [type |-> "request", of |-> r, n |-> 0]
ResponseRow(r) == [type |-> "response", of |-> r, n |-> 0]

Row ==
    [type : {"event"}, of : Agents, n : Nat] \cup
    [type : {"request", "response"}, of : Requests, n : {0}]

Codes == {"none", "agent", "delivered", "agent_unavailable", "runtime_timeout",
          "unknown_type", "connection_lost"}

Locations == {"idle", "ensure", "check", "write", "wait", "pop_answer", "pop_timeout",
              "trace_answer", "spawn", "fanout", "done"}

TypeOK ==
    /\ proc \in [Agents -> {"absent", "alive", "dead"}]
    /\ inbox \in [Agents -> Seq(Requests)]
    /\ outbox \in [Agents -> Seq(Line)]
    /\ emitted \in [Agents -> Nat]
    /\ pending \in [Agents -> SUBSET Requests]
    /\ held \in [Agents -> Requests \cup {NoRequest}]
    /\ slot \in [Requests -> BOOLEAN]
    /\ pc \in [Requests -> Locations]
    /\ todo \in [Requests -> SUBSET Agents]
    /\ answer \in [Requests -> Codes]
    /\ trace \in Seq(Row)
    /\ servedAt \in [Requests -> Seq(Nat)]

Init ==
    /\ proc = [a \in Agents |-> "absent"]
    /\ inbox = [a \in Agents |-> <<>>]
    /\ outbox = [a \in Agents |-> <<>>]
    /\ emitted = [a \in Agents |-> 0]
    /\ pending = [a \in Agents |-> {}]
    /\ held = [a \in Agents |-> NoRequest]
    /\ slot = [r \in Requests |-> FALSE]
    /\ pc = [r \in Requests |-> "idle"]
    /\ todo = [r \in Requests |-> {}]
    /\ answer = [r \in Requests |-> "none"]
    /\ trace = <<>>
    /\ servedAt = [r \in Requests |-> <<>>]

-----------------------------------------------------------------------------
(* Handler threads: AgentBroker.handle_request and _AgentProcess.request.   *)

Goto(r, l) == pc' = [pc EXCEPT ![r] = l]

Finish(r, code) ==
    /\ Goto(r, "done")
    /\ answer' = [answer EXCEPT ![r] = code]

(* The request is traced first, then routed by its type. *)
Receive(r) ==
    /\ pc[r] = "idle"
    /\ \E meeting \in Meetings : {r} \cup {q \in Requests : pc[q] # "idle"} \subseteq meeting
    /\ trace' = Append(trace, RequestRow(r))
    /\ \/ /\ Kind[r] = "topic"
          /\ Goto(r, "spawn")
          /\ UNCHANGED answer
       \/ /\ Kind[r] \in {"service", "action"}
          /\ Target[r] # NoAgent
          /\ Goto(r, "ensure")
          /\ UNCHANGED answer
       \/ /\ Kind[r] \in {"service", "action"}
          /\ Target[r] = NoAgent
          /\ Finish(r, "agent_unavailable")
       \/ /\ Kind[r] = "other"
          /\ Finish(r, "unknown_type")
    /\ UNCHANGED <<agentVars, readerVars, pending, todo>>

Spawned(a) == IF proc[a] = "absent" THEN "alive" ELSE proc[a]

(* An agent that is in _agents is never spawned again, dead or not. *)
Ensure(r) ==
    /\ pc[r] = "ensure"
    /\ proc' = [proc EXCEPT ![Target[r]] = Spawned(Target[r])]
    /\ Goto(r, "check")
    /\ UNCHANGED <<inbox, outbox, emitted, servedAt, readerVars, pending, todo, answer, trace>>

(* is_alive, then the request enters the agent's _pending table. *)
Register(r) ==
    /\ pc[r] = "check"
    /\ proc[Target[r]] = "alive"
    /\ pending' = [pending EXCEPT ![Target[r]] = @ \cup {r}]
    /\ Goto(r, "write")
    /\ UNCHANGED <<agentVars, readerVars, todo, answer, trace>>

(* The unavailable answer is returned, and not traced. *)
Unavailable(r) ==
    /\ pc[r] = "check"
    /\ proc[Target[r]] # "alive"
    /\ Finish(r, "agent_unavailable")
    /\ UNCHANGED <<agentVars, readerVars, pending, todo, trace>>

HasRoom(a) == Len(inbox[a]) < PipeCapacity

(* stdin.write and flush: they block while the pipe of a live agent is full. *)
Write(r) ==
    /\ pc[r] = "write"
    /\ proc[Target[r]] = "alive"
    /\ HasRoom(Target[r])
    /\ inbox' = [inbox EXCEPT ![Target[r]] = Append(@, r)]
    /\ Goto(r, "wait")
    /\ UNCHANGED <<proc, outbox, emitted, servedAt, readerVars, pending, todo, answer, trace>>

(* The write raises BrokenPipeError outside the try block: the thread dies,  *)
(* the connection closes without an answer, the _pending entry stays.        *)
WriteFails(r) ==
    /\ pc[r] = "write"
    /\ proc[Target[r]] = "dead"
    /\ Finish(r, "connection_lost")
    /\ UNCHANGED <<agentVars, readerVars, pending, todo, trace>>

Wakeup(r) ==
    /\ pc[r] = "wait"
    /\ slot[r]
    /\ Goto(r, "pop_answer")
    /\ UNCHANGED <<agentVars, readerVars, pending, todo, answer, trace>>

(* Mutant: only a live agent is given up on. *)
Timeout_LiveOnly(r) ==
    /\ pc[r] = "wait"
    /\ ~slot[r]
    /\ proc[Target[r]] = "alive"
    /\ Goto(r, "pop_timeout")
    /\ UNCHANGED <<agentVars, readerVars, pending, todo, answer, trace>>

(* Mutant: a timeout sends the request once more. *)
Timeout_Resend(r) ==
    /\ pc[r] = "wait"
    /\ ~slot[r]
    /\ \E l \in {"write", "pop_timeout"} : Goto(r, l)
    /\ UNCHANGED <<agentVars, readerVars, pending, todo, answer, trace>>

Timeout(r) ==
    /\ pc[r] = "wait"
    /\ ~slot[r]
    /\ Goto(r, "pop_timeout")
    /\ UNCHANGED <<agentVars, readerVars, pending, todo, answer, trace>>

(* Mutant: the entry is removed only when the answer came. *)
Pop_AnswerOnly(r) ==
    /\ \/ /\ pc[r] = "pop_answer"
          /\ pending' = [pending EXCEPT ![Target[r]] = @ \ {r}]
          /\ Goto(r, "trace_answer")
          /\ UNCHANGED answer
       \/ /\ pc[r] = "pop_timeout"
          /\ Finish(r, "runtime_timeout")
          /\ UNCHANGED pending
    /\ UNCHANGED <<agentVars, readerVars, todo, trace>>

(* The finally clause of request; then the timeout answer, not traced. *)
Pop(r) ==
    /\ pc[r] \in {"pop_answer", "pop_timeout"}
    /\ pending' = [pending EXCEPT ![Target[r]] = @ \ {r}]
    /\ \/ /\ pc[r] = "pop_answer"
          /\ Goto(r, "trace_answer")
          /\ UNCHANGED answer
       \/ /\ pc[r] = "pop_timeout"
          /\ Finish(r, "runtime_timeout")
    /\ UNCHANGED <<agentVars, readerVars, todo, trace>>

(* Mutant: the answer leaves without its row, as the error answers do. *)
TraceAnswer_Skipped(r) ==
    /\ pc[r] = "trace_answer"
    /\ Finish(r, "agent")
    /\ UNCHANGED <<agentVars, readerVars, pending, todo, trace>>

TraceAnswer(r) ==
    /\ pc[r] = "trace_answer"
    /\ trace' = Append(trace, ResponseRow(r))
    /\ Finish(r, "agent")
    /\ UNCHANGED <<agentVars, readerVars, pending, todo>>

(* topic.publish: spawn every agent, then write to each one in turn.        *)
(* The dict's order is left open.                                           *)
SpawnAll(r) ==
    /\ pc[r] = "spawn"
    /\ proc' = [a \in Agents |-> Spawned(a)]
    /\ todo' = [todo EXCEPT ![r] = Agents]
    /\ Goto(r, "fanout")
    /\ UNCHANGED <<inbox, outbox, emitted, servedAt, readerVars, pending, answer, trace>>

SendOneway(r, a) ==
    /\ pc[r] = "fanout"
    /\ a \in todo[r]
    /\ \/ /\ proc[a] = "alive"
          /\ HasRoom(a)
          /\ inbox' = [inbox EXCEPT ![a] = Append(@, r)]
       \/ /\ proc[a] = "dead"
          /\ UNCHANGED inbox
    /\ todo' = [todo EXCEPT ![r] = @ \ {a}]
    /\ UNCHANGED <<proc, outbox, emitted, servedAt, readerVars, pending, pc, answer, trace>>

Delivered(r) ==
    /\ pc[r] = "fanout"
    /\ todo[r] = {}
    /\ trace' = Append(trace, ResponseRow(r))
    /\ Finish(r, "delivered")
    /\ UNCHANGED <<agentVars, readerVars, pending, todo>>

-----------------------------------------------------------------------------
(* Reader threads: _AgentProcess._read_loop.                                *)

(* Mutant: an event may be put aside and traced after the lines behind it. *)
ReadEvent_PutAside(a) ==
    /\ held[a] = NoRequest
    /\ outbox[a] # <<>>
    /\ Head(outbox[a]).type = "event"
    /\ \/ /\ Len(outbox[a]) > 1
          /\ outbox' = [outbox EXCEPT ![a] = Append(Tail(@), Head(@))]
          /\ UNCHANGED trace
       \/ /\ outbox' = [outbox EXCEPT ![a] = Tail(@)]
          /\ trace' = IF a \in Silent THEN trace
                      ELSE Append(trace, EventRow(a, Head(outbox[a]).id))
    /\ UNCHANGED <<proc, inbox, emitted, servedAt, readerVars, handlerVars>>

(* A line without "ok" is an event: traced before the next line is read. *)
ReadEvent(a) ==
    /\ held[a] = NoRequest
    /\ outbox[a] # <<>>
    /\ Head(outbox[a]).type = "event"
    /\ outbox' = [outbox EXCEPT ![a] = Tail(@)]
    /\ trace' = IF a \in Silent THEN trace
                ELSE Append(trace, EventRow(a, Head(outbox[a]).id))
    /\ UNCHANGED <<proc, inbox, emitted, servedAt, readerVars, handlerVars>>

(* The queue is looked up under the lock; an answer nobody waits for is     *)
(* dropped.                                                                 *)
ReadAnswer(a) ==
    /\ held[a] = NoRequest
    /\ outbox[a] # <<>>
    /\ Head(outbox[a]).type = "response"
    /\ outbox' = [outbox EXCEPT ![a] = Tail(@)]
    /\ held' = [held EXCEPT ![a] = IF Head(outbox[a]).id \in pending[a]
                                   THEN Head(outbox[a]).id ELSE NoRequest]
    /\ UNCHANGED <<proc, inbox, emitted, servedAt, slot, handlerVars, trace>>

(* Mutant: the answer goes to any request that waits for this agent. *)
PutAnswer_AnyWaiter(a) ==
    /\ held[a] # NoRequest
    /\ \E q \in pending[a] \cup {held[a]} : slot' = [slot EXCEPT ![q] = TRUE]
    /\ held' = [held EXCEPT ![a] = NoRequest]
    /\ UNCHANGED <<agentVars, handlerVars, trace>>

(* put_nowait, after the lock is released; a full queue is left as it is. *)
PutAnswer(a) ==
    /\ held[a] # NoRequest
    /\ slot' = [slot EXCEPT ![held[a]] = TRUE]
    /\ held' = [held EXCEPT ![a] = NoRequest]
    /\ UNCHANGED <<agentVars, handlerVars, trace>>

-----------------------------------------------------------------------------
(* Agent subprocesses: the stdin loop of their main, seen from the broker.  *)

(* One answer per request line, with the message_id of the request. *)
AgentAnswer(a) ==
    LET r == Head(inbox[a]) IN
    /\ proc[a] = "alive"
    /\ inbox[a] # <<>>
    /\ inbox' = [inbox EXCEPT ![a] = Tail(@)]
    /\ outbox' = [outbox EXCEPT ![a] = Append(@, AnswerLine(r))]
    /\ servedAt' = [servedAt EXCEPT ![r] = IF Target[r] = a THEN Append(@, emitted[a]) ELSE @]
    /\ UNCHANGED <<proc, emitted, readerVars, handlerVars, trace>>

AgentEmit(a) ==
    /\ proc[a] = "alive"
    /\ emitted[a] < MaxEvents[a]
    /\ emitted' = [emitted EXCEPT ![a] = @ + 1]
    /\ outbox' = [outbox EXCEPT ![a] = Append(@, EventLine(emitted[a] + 1))]
    /\ UNCHANGED <<proc, inbox, servedAt, readerVars, handlerVars, trace>>

(* What it wrote stays readable; what it had not read is gone. *)
AgentDies(a) ==
    /\ proc[a] = "alive"
    /\ proc' = [proc EXCEPT ![a] = "dead"]
    /\ inbox' = [inbox EXCEPT ![a] = <<>>]
    /\ UNCHANGED <<outbox, emitted, servedAt, readerVars, handlerVars, trace>>

-----------------------------------------------------------------------------
Handler(r) ==
    \/ Ensure(r) \/ Register(r) \/ Unavailable(r)
    \/ Write(r) \/ WriteFails(r)
    \/ Wakeup(r) \/ Timeout(r) \/ Pop(r) \/ TraceAnswer(r)
    \/ SpawnAll(r) \/ (\E a \in Agents : SendOneway(r, a)) \/ Delivered(r)

Reader(a) == ReadEvent(a) \/ ReadAnswer(a) \/ PutAnswer(a)

Agent(a) == AgentAnswer(a) \/ AgentEmit(a) \/ AgentDies(a)

Next ==
    \/ \E r \in Requests : Receive(r) \/ Handler(r)
    \/ \E a \in Agents : Reader(a) \/ Agent(a)

Spec == Init /\ [][Next]_vars

(* The broker's threads run; a hung agent gets no fairness. *)
BrokerFairness ==
    /\ \A r \in Requests : WF_vars(Handler(r))
    /\ \A a \in Agents : WF_vars(Reader(a))

(* Agents answer what they read, or die. *)
FairSpec == Spec /\ BrokerFairness /\ \A a \in Agents : WF_vars(AgentAnswer(a))

-----------------------------------------------------------------------------
(* Properties.                                                              *)

(* rows x and y: every y in the trace file comes after an x *)
Precedes(x, y) ==
    \A j \in DOMAIN trace : trace[j] = y => \E i \in 1..(j - 1) : trace[i] = x

Traced(x) == \E i \in DOMAIN trace : trace[i] = x

(* A client gets an agent's answer only if its own agent has answered its    *)
(* own request: no answer of another request, late or not, is taken for it   *)
(* (_pending keyed by message_id, broker.py:152-162 and 218-224).            *)
AnswersAreOwn ==
    \A r \in Requests : answer[r] = "agent" => servedAt[r] # <<>>

(* The _pending table holds only requests whose thread is still inside       *)
(* request(), except for those whose thread died in the write                *)
(* (broker.py:152-162: the write stands before the try).                     *)
PendingOnlyInFlight ==
    \A a \in Agents : \A r \in pending[a] :
        /\ Target[r] = a
        /\ \/ pc[r] \in {"write", "wait", "pop_answer", "pop_timeout"}
           \/ answer[r] = "connection_lost"

(* An answer an agent gave, and the answer to a publish, is in the trace     *)
(* file exactly once, after its request, before the client sees it           *)
(* (broker.py:341, 361, 389, 419).                                           *)
AnswersAreDurable ==
    \A r \in Requests : answer[r] \in {"agent", "delivered"} =>
        /\ Precedes(RequestRow(r), ResponseRow(r))
        /\ \E i \in DOMAIN trace : \A j \in DOMAIN trace :
               trace[j] = ResponseRow(r) <=> j = i

(* The events of one agent are traced in the order it emitted them, and what *)
(* it emitted before it answered stands before the answer, whatever handler  *)
(* threads append in between (one reader thread, broker.py:169-224, and      *)
(* 331-334): action.started is seen before the acceptance, and the Desktop's *)
(* graph deltas come in order.                                               *)
EventsAreOrdered ==
    /\ \A i, j \in DOMAIN trace :
        /\ trace[i].type = "event"
        /\ trace[j].type = "event"
        /\ trace[i].of = trace[j].of
        /\ i < j
        => trace[i].n < trace[j].n
    /\ \A r \in Requests :
        Target[r] \in Agents \ Silent /\ servedAt[r] # <<>> =>
            \A n \in 1..Head(servedAt[r]) : Precedes(EventRow(Target[r], n), ResponseRow(r))

(* Every request a thread has taken ends, in an answer or a closed           *)
(* connection, even if its agent dies while it waits (broker.py:156-162).    *)
EveryRequestEnds == \A r \in Requests : pc[r] # "idle" ~> pc[r] = "done"

(* What the broker promises its clients. *)
PromisedStatus ==
    [r \in Requests |-> IF pc[r] = "idle" THEN "idle"
                        ELSE IF pc[r] # "done" THEN "open"
                        ELSE IF answer[r] = "agent" THEN "replied" ELSE "closed"]

Executions == [r \in Requests |-> Len(servedAt[r])]

Promise == INSTANCE RequestReply WITH status <- PromisedStatus, served <- Executions

(* Each request is opened once, executed by its agent at most once - never   *)
(* again after a timeout - and closed once, as replied only if executed.     *)
KeepsPromise == Promise!Spec

=============================================================================
