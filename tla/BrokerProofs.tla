---------------------------- MODULE BrokerProofs ----------------------------
(***************************************************************************)
(* Proofs about the broker, for any agents, requests, pipe capacity and    *)
(* number of events.                                                       *)
(***************************************************************************)
EXTENDS Broker, SequenceTheorems, TLAPS

(* A line and a row built by the model's constructors have their types. *)
LEMMA Constructors ==
    /\ \A r \in Requests : AnswerLine(r) \in Line /\ RequestRow(r) \in Row /\ ResponseRow(r) \in Row
    /\ \A n \in Nat : EventLine(n) \in Line
    /\ \A a \in Agents, n \in Nat : EventRow(a, n) \in Row
BY DEF AnswerLine, RequestRow, ResponseRow, EventLine, EventRow, Line, Row

(* The head of a queue of lines is a line: an event's number is a number, an *)
(* answer's id is a request.                                                 *)
LEMMA HeadOfLines ==
    ASSUME NEW s \in Seq(Line), s # <<>>
    PROVE  /\ Tail(s) \in Seq(Line)
           /\ Head(s) \in Line
           /\ Head(s).type = "event" => Head(s).id \in Nat
           /\ Head(s).type = "response" => Head(s).id \in Requests
<1>1. Tail(s) \in Seq(Line) /\ Head(s) \in Line
  BY HeadTailProperties
<1> QED BY <1>1 DEF Line

(* Each step of a handler thread keeps every variable in its type. *)
LEMMA HandlerKeepsTypes ==
    ASSUME TypeOK, NEW r \in Requests, Receive(r) \/ Handler(r)
    PROVE  TypeOK'
<1> USE DEF TypeOK, Codes, Locations, agentVars, handlerVars, readerVars
<1>0. Append(trace, RequestRow(r)) \in Seq(Row) /\ Append(trace, ResponseRow(r)) \in Seq(Row)
  BY Constructors
<1>1. CASE Receive(r)
  <2>1. pc' \in [Requests -> Locations]
    <3>1. PICK l \in Locations : pc' = [pc EXCEPT ![r] = l]
      BY <1>1 DEF Receive, Goto, Finish
    <3> QED BY <3>1
  <2>2. answer' \in [Requests -> Codes]
    BY <1>1 DEF Receive, Goto, Finish
  <2> QED BY <1>0, <1>1, <2>1, <2>2 DEF Receive
<1>2. CASE Ensure(r)
  BY <1>2 DEF Ensure, Goto, Spawned
<1>3. CASE Register(r)
  BY <1>3 DEF Register, Goto
<1>4. CASE Unavailable(r)
  BY <1>4 DEF Unavailable, Goto, Finish
<1>5. CASE Write(r)
  BY <1>5, AppendProperties, ZenonT(30) DEF Write, Goto
<1>6. CASE WriteFails(r)
  BY <1>6 DEF WriteFails, Goto, Finish
<1>7. CASE Wakeup(r)
  BY <1>7 DEF Wakeup, Goto
<1>8. CASE Timeout(r)
  BY <1>8 DEF Timeout, Goto
<1>9. CASE Pop(r)
  <2>1. pc' \in [Requests -> Locations]
    <3>1. PICK l \in Locations : pc' = [pc EXCEPT ![r] = l]
      BY <1>9 DEF Pop, Goto, Finish
    <3> QED BY <3>1
  <2>2. answer' \in [Requests -> Codes]
    BY <1>9 DEF Pop, Goto, Finish
  <2>3. pending' \in [Agents -> SUBSET Requests]
    BY <1>9 DEF Pop
  <2> QED BY <1>9, <2>1, <2>2, <2>3 DEF Pop
<1>10. CASE TraceAnswer(r)
  BY <1>0, <1>10 DEF TraceAnswer, Goto, Finish
<1>11. CASE SpawnAll(r)
  BY <1>11 DEF SpawnAll, Goto, Spawned
<1>12. ASSUME NEW a \in Agents, SendOneway(r, a)
       PROVE  TypeOK'
  <2>1. inbox' \in [Agents -> Seq(Requests)]
    <3>1. Append(inbox[a], r) \in Seq(Requests)
      BY AppendProperties
    <3> QED BY <1>12, <3>1 DEF SendOneway
  <2>2. todo' \in [Requests -> SUBSET Agents]
    BY <1>12 DEF SendOneway
  <2> QED BY <1>12, <2>1, <2>2 DEF SendOneway
<1>13. CASE Delivered(r)
  BY <1>0, <1>13 DEF Delivered, Goto, Finish
<1> QED
  BY <1>1, <1>2, <1>3, <1>4, <1>5, <1>6, <1>7, <1>8, <1>9, <1>10, <1>11, <1>12, <1>13 DEF Handler

(* Each step of a reader thread or of an agent keeps every variable in its  *)
(* type.                                                                    *)
LEMMA AgentSideKeepsTypes ==
    ASSUME TypeOK, NEW a \in Agents, Reader(a) \/ Agent(a)
    PROVE  TypeOK'
<1> USE DEF TypeOK, agentVars, handlerVars, readerVars
<1>1. CASE ReadEvent(a)
  <2>1. /\ Tail(outbox[a]) \in Seq(Line)
        /\ Head(outbox[a]).id \in Nat
    BY <1>1, HeadOfLines DEF ReadEvent
  <2>2. Append(trace, EventRow(a, Head(outbox[a]).id)) \in Seq(Row)
    BY <2>1, Constructors
  <2> QED BY <1>1, <2>1, <2>2 DEF ReadEvent
<1>2. CASE ReadAnswer(a)
  <2>1. /\ Tail(outbox[a]) \in Seq(Line)
        /\ Head(outbox[a]).id \in Requests
    BY <1>2, HeadOfLines DEF ReadAnswer
  <2> QED BY <1>2, <2>1 DEF ReadAnswer
<1>3. CASE PutAnswer(a)
  BY <1>3 DEF PutAnswer
<1>4. CASE AgentAnswer(a)
  <2>1. /\ Head(inbox[a]) \in Requests
        /\ Tail(inbox[a]) \in Seq(Requests)
    BY <1>4, HeadTailProperties DEF AgentAnswer
  <2>2. Append(outbox[a], AnswerLine(Head(inbox[a]))) \in Seq(Line)
    BY <2>1, Constructors, AppendProperties
  <2>3. servedAt' \in [Requests -> Seq(Nat)]
    BY <1>4, <2>1, AppendProperties DEF AgentAnswer
  <2> QED BY <1>4, <2>1, <2>2, <2>3 DEF AgentAnswer
<1>5. CASE AgentEmit(a)
  <2>1. emitted[a] + 1 \in Nat
    OBVIOUS
  <2>2. EventLine(emitted[a] + 1) \in Line
    BY <2>1, Constructors
  <2>3. Append(outbox[a], EventLine(emitted[a] + 1)) \in Seq(Line)
    BY <2>2, AppendProperties
  <2> QED BY <1>5, <2>1, <2>3 DEF AgentEmit
<1>6. CASE AgentDies(a)
  BY <1>6 DEF AgentDies
<1> QED
  BY <1>1, <1>2, <1>3, <1>4, <1>5, <1>6 DEF Reader, Agent

(* Type correctness of the broker's state: every code a client is answered  *)
(* with is one of the codes of handle_request (broker.py:336-426).          *)
THEOREM TypeCorrect == Spec => []TypeOK
<1>1. Init => TypeOK
  BY DEF Init, TypeOK, Codes, Locations
<1>2. TypeOK /\ [Next]_vars => TypeOK'
  <2> SUFFICES ASSUME TypeOK, [Next]_vars
               PROVE  TypeOK'
    OBVIOUS
  <2>1. CASE Next
    BY <2>1, HandlerKeepsTypes, AgentSideKeepsTypes DEF Next
  <2>2. CASE UNCHANGED vars
    BY <2>2 DEF vars, agentVars, handlerVars, readerVars, TypeOK
  <2> QED BY <2>1, <2>2
<1> QED BY <1>1, <1>2, PTL DEF Spec

-----------------------------------------------------------------------------
(* Answers and executions.  AnswersAreOwn is not inductive: the answer a     *)
(* thread takes has travelled from the agent through its stdout, the hand of *)
(* the reader and the request's queue, so the invariant follows it there.    *)

Executed(r) == servedAt[r] # <<>>

LinesAreExecuted ==
    \A a \in Agents : \A i \in 1..Len(outbox[a]) :
        /\ outbox[a][i].type = "response"
        /\ Target[outbox[a][i].id] = a
        => Executed(outbox[a][i].id)

HeldAreExecuted == \A a \in Agents : held[a] # NoRequest => Executed(held[a])

SlotsAreExecuted == \A r \in Requests : slot[r] => Executed(r)

TakenAreExecuted ==
    \A r \in Requests : pc[r] \in {"pop_answer", "trace_answer"} => Executed(r)

PendingAreTargeted == \A a \in Agents : \A r \in pending[a] : Target[r] = a

AnswerInv ==
    /\ TypeOK
    /\ LinesAreExecuted
    /\ HeldAreExecuted
    /\ SlotsAreExecuted
    /\ TakenAreExecuted
    /\ PendingAreTargeted
    /\ AnswersAreOwn

(* A handler thread moves only its own program counter. *)
LEMMA HandlerMoves ==
    ASSUME TypeOK, NEW r \in Requests, Receive(r) \/ Handler(r)
    PROVE  \E l \in Locations : pc' = [pc EXCEPT ![r] = l]
<1> USE DEF TypeOK, Locations, Goto, Finish
<1>1. CASE Receive(r)
  <2>1. PICK l \in {"spawn", "ensure", "done"} : Goto(r, l)
    BY <1>1 DEF Receive
  <2> QED BY <2>1
<1>2. CASE Pop(r)
  <2>1. PICK l \in {"trace_answer", "done"} : Goto(r, l)
    BY <1>2 DEF Pop
  <2> QED BY <2>1
<1>3. CASE \E a \in Agents : SendOneway(r, a)
  <2>1. pc' = [pc EXCEPT ![r] = pc[r]]
    BY <1>3 DEF SendOneway
  <2> QED BY <2>1
<1>4. CASE \/ Ensure(r) \/ Register(r) \/ Unavailable(r) \/ Write(r) \/ WriteFails(r)
           \/ Wakeup(r) \/ Timeout(r) \/ TraceAnswer(r) \/ SpawnAll(r) \/ Delivered(r)
  <2>1. PICK l \in {"check", "write", "wait", "done", "pop_answer", "pop_timeout", "fanout"} :
          Goto(r, l)
    BY <1>4 DEF Ensure, Register, Unavailable, Write, WriteFails, Wakeup, Timeout,
       TraceAnswer, SpawnAll, Delivered
  <2> QED BY <2>1
<1> QED BY <1>1, <1>2, <1>3, <1>4 DEF Handler

(* What has been executed stays executed. *)
LEMMA ExecutedIsStable ==
    ASSUME TypeOK, [Next]_vars, NEW r \in Requests, Executed(r)
    PROVE  Executed(r)'
<1> USE DEF TypeOK, Executed, agentVars
<1>1. CASE \E q \in Requests : Receive(q) \/ Handler(q)
  BY <1>1 DEF Receive, Handler, Ensure, Register, Unavailable, Write, WriteFails, Wakeup,
     Timeout, Pop, TraceAnswer, SpawnAll, SendOneway, Delivered
<1>2. ASSUME NEW a \in Agents, AgentAnswer(a)
      PROVE  Executed(r)'
  <2>1. servedAt[r] \in Seq(Nat) /\ emitted[a] \in Nat
    OBVIOUS
  <2>2. Append(servedAt[r], emitted[a]) # <<>>
    BY ONLY <2>1, AppendProperties
  <2>3. servedAt'[r] \in {servedAt[r], Append(servedAt[r], emitted[a])}
    BY <1>2 DEF AgentAnswer
  <2> QED BY <2>2, <2>3
<1>3. ASSUME NEW a \in Agents, Reader(a) \/ AgentEmit(a) \/ AgentDies(a)
      PROVE  Executed(r)'
  BY <1>3 DEF Reader, ReadEvent, ReadAnswer, PutAnswer, AgentEmit, AgentDies
<1>4. CASE UNCHANGED vars
  BY <1>4 DEF vars
<1> QED BY <1>1, <1>2, <1>3, <1>4 DEF Next, Agent

(* Handler threads keep the invariant: they do not touch the agents' stdout, *)
(* and take an answer only from a full queue.                                *)
LEMMA HandlerKeepsAnswers ==
    ASSUME AnswerInv, NEW r \in Requests, Receive(r) \/ Handler(r)
    PROVE  AnswerInv'
<1> USE DEF AnswerInv
<1>1. TypeOK'
  BY HandlerKeepsTypes
<1>2. UNCHANGED <<outbox, held, slot, servedAt>>
  BY DEF Receive, Handler, Ensure, Register, Unavailable, Write, WriteFails, Wakeup,
     Timeout, Pop, TraceAnswer, SpawnAll, SendOneway, Delivered, agentVars, readerVars
<1>3. LinesAreExecuted' /\ HeldAreExecuted' /\ SlotsAreExecuted'
  BY <1>2 DEF LinesAreExecuted, HeldAreExecuted, SlotsAreExecuted, Executed
<1>4. PendingAreTargeted'
  <2>1. CASE Register(r)
    BY <2>1 DEF PendingAreTargeted, TypeOK, Register
  <2>2. CASE Pop(r)
    BY <2>2 DEF PendingAreTargeted, TypeOK, Pop
  <2>3. CASE UNCHANGED pending
    BY <2>3 DEF PendingAreTargeted
  <2>4. Register(r) \/ Pop(r) \/ UNCHANGED pending
    BY DEF Receive, Handler, Ensure, Unavailable, Write, WriteFails, Wakeup, Timeout,
       TraceAnswer, SpawnAll, SendOneway, Delivered
  <2> QED BY <2>1, <2>2, <2>3, <2>4
<1>5. TakenAreExecuted'
  <2>0. PICK l \in Locations : pc' = [pc EXCEPT ![r] = l]
    BY HandlerMoves
  <2>1. \A q \in Requests \ {r} : pc'[q] = pc[q]
    BY <2>0 DEF TypeOK
  <2>2. pc'[r] \in {"pop_answer", "trace_answer"} => slot[r] \/ pc[r] = "pop_answer"
    <3>1. CASE Wakeup(r) \/ Pop(r)
      BY <3>1 DEF Wakeup, Pop, Goto, Finish, TypeOK
    <3>2. CASE \E a \in Agents : SendOneway(r, a)
      <4>1. PICK a \in Agents : SendOneway(r, a)
        BY <3>2
      <4>2. pc'[r] = "fanout"
        BY <4>1 DEF SendOneway
      <4> QED BY <4>2
    <3>3. CASE Receive(r)
      BY <3>3 DEF Receive, Goto, Finish, TypeOK
    <3>4. CASE \/ Ensure(r) \/ Register(r) \/ Unavailable(r) \/ Write(r) \/ WriteFails(r)
               \/ Timeout(r) \/ TraceAnswer(r) \/ SpawnAll(r) \/ Delivered(r)
      BY <3>4 DEF TypeOK, Goto, Finish, Ensure, Register, Unavailable, Write, WriteFails,
         Timeout, TraceAnswer, SpawnAll, Delivered
    <3> QED BY <3>1, <3>2, <3>3, <3>4 DEF Handler
  <2> QED BY <1>2, <2>1, <2>2 DEF TakenAreExecuted, SlotsAreExecuted, Executed
<1>6. AnswersAreOwn'
  BY <1>2, SMTT(30) DEF AnswersAreOwn, TakenAreExecuted, Executed, TypeOK, Goto, Finish, Receive,
     Handler, Ensure, Register, Unavailable, Write, WriteFails, Wakeup, Timeout, Pop,
     TraceAnswer, SpawnAll, SendOneway, Delivered
<1> QED BY <1>1, <1>3, <1>4, <1>5, <1>6

(* A reader thread hands on answers of executed requests only: the id of a   *)
(* line is looked up in the table of the agent that wrote it.                *)
LEMMA ReaderKeepsAnswers ==
    ASSUME AnswerInv, NEW a \in Agents, Reader(a)
    PROVE  AnswerInv'
<1> USE DEF AnswerInv
<1>1. TypeOK'
  BY AgentSideKeepsTypes
<1>2. UNCHANGED <<servedAt, pending, pc, answer>>
  BY DEF Reader, ReadEvent, ReadAnswer, PutAnswer, agentVars, handlerVars
<1>3. TakenAreExecuted' /\ PendingAreTargeted' /\ AnswersAreOwn'
  BY <1>2 DEF TakenAreExecuted, PendingAreTargeted, AnswersAreOwn, Executed
<1>4. LinesAreExecuted'
  <2>1. CASE ReadEvent(a) \/ ReadAnswer(a)
    <3>1. outbox[a] \in Seq(Line) /\ outbox[a] # <<>>
      BY <2>1 DEF ReadEvent, ReadAnswer, TypeOK
    <3>2. /\ Len(Tail(outbox[a])) = Len(outbox[a]) - 1
          /\ \A i \in 1..Len(Tail(outbox[a])) :
                /\ Tail(outbox[a])[i] = outbox[a][i + 1]
                /\ i + 1 \in 1..Len(outbox[a])
      BY <3>1
    <3>3. outbox' = [outbox EXCEPT ![a] = Tail(outbox[a])]
      BY <2>1 DEF ReadEvent, ReadAnswer
    <3> QED BY <1>2, <3>2, <3>3 DEF LinesAreExecuted, Executed, TypeOK
  <2>2. CASE PutAnswer(a)
    BY <2>2 DEF PutAnswer, agentVars, LinesAreExecuted, Executed
  <2> QED BY <2>1, <2>2 DEF Reader
<1>5. HeldAreExecuted'
  <2>1. CASE ReadEvent(a) \/ PutAnswer(a)
    BY <1>2, <2>1 DEF ReadEvent, PutAnswer, readerVars, HeldAreExecuted, Executed, TypeOK
  <2>2. CASE ReadAnswer(a) /\ Head(outbox[a]).id \in pending[a]
    <3> DEFINE r == Head(outbox[a]).id
    <3>1. outbox[a] \in Seq(Line) /\ outbox[a] # <<>>
      BY <2>2 DEF ReadAnswer, TypeOK
    <3>2. Head(outbox[a]) = outbox[a][1] /\ 1 \in 1..Len(outbox[a])
      BY <3>1
    <3>3. Executed(r)
      BY <2>2, <3>2 DEF ReadAnswer, LinesAreExecuted, PendingAreTargeted
    <3>4. held' = [held EXCEPT ![a] = r]
      BY <2>2 DEF ReadAnswer
    <3> QED BY <1>2, <3>3, <3>4 DEF HeldAreExecuted, Executed, TypeOK
  <2>3. CASE ReadAnswer(a) /\ Head(outbox[a]).id \notin pending[a]
    BY <1>2, <2>3 DEF ReadAnswer, HeldAreExecuted, Executed, TypeOK
  <2> QED BY <2>1, <2>2, <2>3 DEF Reader
<1>6. SlotsAreExecuted'
  <2>1. CASE ReadEvent(a) \/ ReadAnswer(a)
    BY <1>2, <2>1 DEF ReadEvent, ReadAnswer, readerVars, SlotsAreExecuted, Executed
  <2>2. CASE PutAnswer(a)
    BY <1>2, <2>2 DEF PutAnswer, SlotsAreExecuted, HeldAreExecuted, Executed, TypeOK
  <2> QED BY <2>1, <2>2 DEF Reader
<1> QED BY <1>1, <1>3, <1>4, <1>5, <1>6

(* An agent writes an answer line in the step that executes the request. *)
LEMMA AgentKeepsAnswers ==
    ASSUME AnswerInv, NEW a \in Agents, Agent(a)
    PROVE  AnswerInv'
<1> USE DEF AnswerInv
<1>1. TypeOK'
  BY AgentSideKeepsTypes
<1>2. UNCHANGED <<held, slot, pending, pc, answer>>
  BY DEF Agent, AgentAnswer, AgentEmit, AgentDies, handlerVars, readerVars
<1>3. \A r \in Requests : Executed(r) => Executed(r)'
  BY ExecutedIsStable DEF Next
<1>4. TakenAreExecuted' /\ PendingAreTargeted' /\ AnswersAreOwn' /\ SlotsAreExecuted'
  BY <1>2, <1>3 DEF TakenAreExecuted, PendingAreTargeted, AnswersAreOwn, SlotsAreExecuted, Executed
<1>5. HeldAreExecuted'
  BY <1>2, <1>3 DEF HeldAreExecuted, TypeOK
<1>6. LinesAreExecuted'
  <2>1. ASSUME NEW l \in Line, outbox' = [outbox EXCEPT ![a] = Append(outbox[a], l)],
               l.type = "response" /\ Target[l.id] = a => Executed(l.id)'
        PROVE  LinesAreExecuted'
    <3>1. \A i \in 1..Len(Append(outbox[a], l)) :
            \/ Append(outbox[a], l)[i] = l
            \/ i \in 1..Len(outbox[a]) /\ Append(outbox[a], l)[i] = outbox[a][i]
      <4>1. outbox[a] \in Seq(Line)
        BY DEF TypeOK
      <4> QED BY ONLY <4>1, l \in Line, AppendProperties
    <3>3. \A b \in Agents \ {a} : outbox'[b] = outbox[b]
      BY <2>1
    <3>4. \A b \in Agents : \A i \in 1..Len(outbox[b]) : outbox[b][i] \in Line
      BY DEF TypeOK
    <3>5. outbox'[a] = Append(outbox[a], l)
      BY <2>1 DEF TypeOK
    <3>6. \A k \in Line : k.type = "response" => k.id \in Requests
      BY DEF Line
    <3> QED BY <1>3, <2>1, <3>1, <3>3, <3>4, <3>5, <3>6 DEF LinesAreExecuted
  <2>2. CASE AgentAnswer(a)
    <3>1. PICK r \in Requests : r = Head(inbox[a])
      BY <2>2, HeadTailProperties DEF AgentAnswer, TypeOK
    <3>2. AnswerLine(r) \in Line /\ AnswerLine(r).id = r
      BY Constructors DEF AnswerLine
    <3>3. Append(servedAt[r], emitted[a]) # <<>>
      <4>1. servedAt[r] \in Seq(Nat) /\ emitted[a] \in Nat
        BY DEF TypeOK
      <4> QED BY ONLY <4>1, AppendProperties
    <3>4. Target[r] = a => servedAt'[r] = Append(servedAt[r], emitted[a])
      BY <2>2, <3>1 DEF AgentAnswer, TypeOK
    <3>5. Target[r] = a => Executed(r)'
      BY <3>3, <3>4 DEF Executed
    <3>6. outbox' = [outbox EXCEPT ![a] = Append(outbox[a], AnswerLine(r))]
      BY <2>2, <3>1 DEF AgentAnswer
    <3> QED BY <2>1, <3>2, <3>5, <3>6
  <2>3. CASE AgentEmit(a)
    <3>1. /\ EventLine(emitted[a] + 1) \in Line
          /\ EventLine(emitted[a] + 1).type # "response"
      BY Constructors DEF EventLine, TypeOK
    <3>2. outbox' = [outbox EXCEPT ![a] = Append(outbox[a], EventLine(emitted[a] + 1))]
      BY <2>3 DEF AgentEmit
    <3> QED BY <2>1, <3>1, <3>2
  <2>4. CASE AgentDies(a)
    BY <2>4 DEF AgentDies, LinesAreExecuted, Executed
  <2> QED BY <2>2, <2>3, <2>4 DEF Agent
<1> QED BY <1>1, <1>4, <1>5, <1>6

LEMMA AnswerInvHolds == Spec => []AnswerInv
<1>1. Init => AnswerInv
  BY DEF Init, AnswerInv, TypeOK, Codes, Locations, LinesAreExecuted, HeldAreExecuted,
     SlotsAreExecuted, TakenAreExecuted, PendingAreTargeted, AnswersAreOwn
<1>2. AnswerInv /\ [Next]_vars => AnswerInv'
  <2> SUFFICES ASSUME AnswerInv, [Next]_vars
               PROVE  AnswerInv'
    OBVIOUS
  <2>1. CASE Next
    BY <2>1, HandlerKeepsAnswers, ReaderKeepsAnswers, AgentKeepsAnswers DEF Next
  <2>2. CASE UNCHANGED vars
    BY <2>2 DEF vars, agentVars, handlerVars, readerVars, AnswerInv, TypeOK, Executed,
       LinesAreExecuted, HeldAreExecuted, SlotsAreExecuted, TakenAreExecuted,
       PendingAreTargeted, AnswersAreOwn
  <2> QED BY <2>1, <2>2
<1> QED BY <1>1, <1>2, PTL DEF Spec

(* A client is answered by an agent only if its own agent executed its own   *)
(* request: no answer of another request, late or not, is taken for it       *)
(* (broker.py:148-162 and 169-224).                                          *)
THEOREM AnswerCorrelation == Spec => []AnswersAreOwn
<1>1. AnswerInv => AnswersAreOwn
  BY DEF AnswerInv
<1> QED BY <1>1, AnswerInvHolds, PTL

-----------------------------------------------------------------------------
(* The table of waiting requests.                                            *)

LostIsOver == \A r \in Requests : answer[r] = "connection_lost" => pc[r] = "done"

PendingInv == TypeOK /\ LostIsOver /\ PendingOnlyInFlight

(* The table holds only requests whose thread is still inside request(), or  *)
(* died in the write (broker.py:148-162).                                    *)
THEOREM TableIsInFlight == Spec => []PendingOnlyInFlight
<1>1. Init => PendingInv
  BY DEF Init, PendingInv, TypeOK, Codes, Locations, LostIsOver, PendingOnlyInFlight
<1>2. PendingInv /\ [Next]_vars => PendingInv'
  <2> SUFFICES ASSUME PendingInv, [Next]_vars  PROVE PendingInv'
    OBVIOUS
  <2> USE DEF PendingInv, LostIsOver, PendingOnlyInFlight
  <2>1. ASSUME NEW r \in Requests, Receive(r) \/ Handler(r)
        PROVE  PendingInv'
    <3>1. TypeOK'
      BY <2>1, HandlerKeepsTypes
    <3>2. \A a \in Agents : pending[a] \subseteq Requests
      BY DEF TypeOK
    <3>3. CASE Pop(r)
      <4>1. \A a \in Agents : pending'[a] \subseteq pending[a] /\ r \notin pending'[a]
        BY <3>3 DEF Pop, TypeOK
      <4>2. \A q \in Requests \ {r} : pc'[q] = pc[q] /\ answer'[q] = answer[q]
        BY <3>3 DEF Pop, Goto, Finish, TypeOK
      <4>3. answer'[r] # "connection_lost"
        BY <3>3 DEF Pop, Goto, Finish, TypeOK
      <4> QED BY <3>1, <3>2, <4>1, <4>2, <4>3
    <3>4. CASE Register(r)
      <4>1. \A a \in Agents : \A q \in pending'[a] : q \in pending[a] \/ (q = r /\ a = Target[r])
        BY <3>4 DEF Register, TypeOK
      <4>2. pc'[r] = "write" /\ pc[r] = "check" /\ UNCHANGED answer
        BY <3>4 DEF Register, Goto, TypeOK
      <4>3. \A q \in Requests \ {r} : pc'[q] = pc[q]
        BY <3>4 DEF Register, Goto, TypeOK
      <4> QED BY <3>1, <3>2, <4>1, <4>2, <4>3
    <3>5. CASE Receive(r)
      <4>1. pc[r] = "idle" /\ UNCHANGED pending
        BY <3>5 DEF Receive
      <4>2. \A q \in Requests \ {r} : pc'[q] = pc[q] /\ answer'[q] = answer[q]
        BY <3>5 DEF Receive, Goto, Finish, TypeOK
      <4>3. answer'[r] # "connection_lost"
        BY <3>5 DEF Receive, Goto, Finish, TypeOK
      <4> QED BY <3>1, <3>2, <4>1, <4>2, <4>3
    <3>6. CASE \E a \in Agents : SendOneway(r, a)
      BY <3>1, <3>6 DEF SendOneway
    <3>7. CASE \/ Ensure(r) \/ Unavailable(r) \/ Write(r) \/ WriteFails(r) \/ Wakeup(r)
               \/ Timeout(r) \/ TraceAnswer(r) \/ SpawnAll(r) \/ Delivered(r)
      <4>1. UNCHANGED pending /\ pc[r] \in {"ensure", "check", "write", "wait", "trace_answer", "spawn", "fanout"}
        BY <3>7 DEF Ensure, Unavailable, Write, WriteFails, Wakeup, Timeout, TraceAnswer, SpawnAll, Delivered
      <4>2. \A q \in Requests \ {r} : pc'[q] = pc[q] /\ answer'[q] = answer[q]
        BY <3>7 DEF TypeOK, Goto, Finish, Ensure, Unavailable, Write, WriteFails, Wakeup,
           Timeout, TraceAnswer, SpawnAll, Delivered
      <4>3. pc[r] \in {"write", "wait"} =>
                pc'[r] \in {"wait", "pop_answer", "pop_timeout"} \/ answer'[r] = "connection_lost"
        BY <3>7 DEF TypeOK, Goto, Finish, Ensure, Unavailable, Write, WriteFails, Wakeup,
           Timeout, TraceAnswer, SpawnAll, Delivered
      <4>4. answer'[r] = "connection_lost" => pc'[r] = "done"
        BY <3>7 DEF TypeOK, Goto, Finish, Ensure, Unavailable, Write, WriteFails, Wakeup,
           Timeout, TraceAnswer, SpawnAll, Delivered
      <4> QED BY <3>1, <3>2, <4>1, <4>2, <4>3, <4>4
    <3> QED BY <2>1, <3>3, <3>4, <3>5, <3>6, <3>7 DEF Handler
  <2>2. ASSUME NEW a \in Agents, Reader(a) \/ Agent(a)
        PROVE  PendingInv'
    <3>1. UNCHANGED <<pending, pc, answer>>
      BY <2>2 DEF Reader, ReadEvent, ReadAnswer, PutAnswer, Agent, AgentAnswer, AgentEmit, AgentDies,
         handlerVars
    <3> QED BY <2>2, <3>1, AgentSideKeepsTypes
  <2>3. CASE UNCHANGED vars
    BY <2>3 DEF vars, agentVars, handlerVars, readerVars, TypeOK
  <2> QED BY <2>1, <2>2, <2>3 DEF Next
<1>3. PendingInv => PendingOnlyInFlight
  BY DEF PendingInv
<1> QED BY <1>1, <1>2, <1>3, PTL DEF Spec
-----------------------------------------------------------------------------
(* The broker implements RequestReply.  A line is written to an agent once,  *)
(* so that the agent answers it once.                                        *)

Queued(r, a) == \E i \in 1..Len(inbox[a]) : inbox[a][i] = r

Unsent(r, a) ==
    \/ pc[r] \in {"idle", "ensure", "check", "write", "spawn"}
    \/ pc[r] = "fanout" /\ a \in todo[r]

QueuedOnce(a) ==
    \A i, j \in 1..Len(inbox[a]) : inbox[a][i] = inbox[a][j] => i = j

OnceInv ==
    /\ AnswerInv
    /\ \A a \in Agents : QueuedOnce(a)
    /\ \A r \in Requests, a \in Agents : Unsent(r, a) => ~Queued(r, a)
    /\ \A r \in Requests : Target[r] \in Agents =>
           (Unsent(r, Target[r]) \/ Queued(r, Target[r]) => Len(servedAt[r]) = 0)
    /\ \A r \in Requests : Len(servedAt[r]) \in {0, 1}

(* A line more at the end of an inbox. *)
LEMMA LineMore ==
    ASSUME TypeOK, NEW a \in Agents, NEW r \in Requests, ~Queued(r, a), QueuedOnce(a),
           inbox' = [inbox EXCEPT ![a] = Append(inbox[a], r)]
    PROVE  /\ QueuedOnce(a)'
           /\ \A q \in Requests : Queued(q, a)' => Queued(q, a) \/ q = r
           /\ \A b \in Agents \ {a} : inbox'[b] = inbox[b]
<1>1. inbox[a] \in Seq(Requests) /\ inbox'[a] = Append(inbox[a], r)
  BY DEF TypeOK
<1>2. /\ Len(inbox'[a]) = Len(inbox[a]) + 1 /\ Len(inbox[a]) \in Nat
      /\ \A i \in 1..Len(inbox[a]) : inbox'[a][i] = inbox[a][i]
      /\ inbox'[a][Len(inbox[a]) + 1] = r
  BY <1>1
<1>3. QueuedOnce(a)'
  BY <1>2 DEF QueuedOnce, Queued
<1>4. \A q \in Requests : Queued(q, a)' => Queued(q, a) \/ q = r
  BY <1>2 DEF Queued
<1> QED BY <1>3, <1>4 DEF TypeOK

(* A line less at its front. *)
LEMMA LineLess ==
    ASSUME TypeOK, NEW a \in Agents, inbox[a] # <<>>, QueuedOnce(a),
           inbox' = [inbox EXCEPT ![a] = Tail(inbox[a])]
    PROVE  /\ QueuedOnce(a)'
           /\ \A q \in Requests : Queued(q, a)' => Queued(q, a) /\ q # Head(inbox[a])
           /\ \A b \in Agents \ {a} : inbox'[b] = inbox[b]
           /\ Head(inbox[a]) \in Requests /\ Queued(Head(inbox[a]), a)
<1>1. inbox[a] \in Seq(Requests) /\ inbox'[a] = Tail(inbox[a])
  BY DEF TypeOK
<1>2. /\ Len(inbox'[a]) = Len(inbox[a]) - 1 /\ Len(inbox[a]) \in Nat \ {0}
      /\ \A i \in 1..(Len(inbox[a]) - 1) : inbox'[a][i] = inbox[a][i + 1]
      /\ Head(inbox[a]) = inbox[a][1] /\ Head(inbox[a]) \in Requests
  <2>1. inbox[a] \in Seq(Requests) /\ inbox[a] # <<>>
    BY <1>1
  <2>2. /\ Len(Tail(inbox[a])) = Len(inbox[a]) - 1 /\ Len(inbox[a]) \in Nat \ {0}
        /\ \A i \in 1..(Len(inbox[a]) - 1) : Tail(inbox[a])[i] = inbox[a][i + 1]
    BY ONLY <2>1
  <2>3. Head(inbox[a]) = inbox[a][1] /\ Head(inbox[a]) \in Requests
    BY ONLY <2>1
  <2> QED BY <1>1, <2>2, <2>3
<1>3. QueuedOnce(a)'
  BY <1>2 DEF QueuedOnce
<1>4. \A q \in Requests : Queued(q, a)' => Queued(q, a) /\ q # Head(inbox[a])
  BY <1>2 DEF Queued, QueuedOnce
<1> QED BY <1>2, <1>3, <1>4 DEF TypeOK, Queued

LEMMA HandlerSendsOnce ==
    ASSUME OnceInv, NEW r \in Requests, Receive(r) \/ Handler(r)
    PROVE  OnceInv'
<1> USE DEF OnceInv
<1>1. AnswerInv' /\ TypeOK
  BY HandlerKeepsAnswers DEF AnswerInv
<1>2. UNCHANGED servedAt
  BY DEF Receive, Handler, Ensure, Register, Unavailable, Write, WriteFails, Wakeup,
     Timeout, Pop, TraceAnswer, SpawnAll, SendOneway, Delivered, agentVars
<1>3. ASSUME UNCHANGED inbox, \A q \in Requests, a \in Agents : Unsent(q, a)' => Unsent(q, a)
      PROVE  OnceInv'
  BY <1>1, <1>2, <1>3 DEF QueuedOnce, Queued
<1>4. ASSUME NEW a \in Agents, inbox' = [inbox EXCEPT ![a] = Append(inbox[a], r)],
             Unsent(r, a), ~Unsent(r, a)',
             \A q \in Requests, b \in Agents : Unsent(q, b)' => Unsent(q, b)
      PROVE  OnceInv'
  <2>1. /\ QueuedOnce(a)'
        /\ \A q \in Requests : Queued(q, a)' => Queued(q, a) \/ q = r
        /\ \A b \in Agents \ {a} : inbox'[b] = inbox[b]
    BY <1>1, <1>4, LineMore
  <2>2. \A b \in Agents \ {a} : QueuedOnce(b)' /\ \A q \in Requests : Queued(q, b)' => Queued(q, b)
    BY <2>1 DEF QueuedOnce, Queued
  <2>3. \A q \in Requests : Target[q] \in Agents =>
            (Unsent(q, Target[q])' \/ Queued(q, Target[q])' => Unsent(q, Target[q]) \/ Queued(q, Target[q]))
    BY <1>4, <2>1, <2>2
  <2> QED BY <1>1, <1>2, <1>4, <2>1, <2>2, <2>3
<1>5. CASE Write(r)
  <2>1. \A q \in Requests, b \in Agents : Unsent(q, b)' => Unsent(q, b)
    BY <1>1, <1>5 DEF Write, Goto, Unsent, TypeOK
  <2>2. CASE Target[r] \in Agents
    <3>1. Unsent(r, Target[r]) /\ ~Unsent(r, Target[r])'
      BY <1>1, <1>5 DEF Write, Goto, Unsent, TypeOK
    <3> QED BY <1>4, <1>5, <2>1, <2>2, <3>1 DEF Write
  <2>3. CASE Target[r] \notin Agents
    <3>1. UNCHANGED inbox
      BY <1>1, <1>5, <2>3 DEF Write, TypeOK
    <3> QED BY <1>3, <2>1, <3>1
  <2> QED BY <2>2, <2>3
<1>6. ASSUME NEW a \in Agents, SendOneway(r, a)
      PROVE  OnceInv'
  <2>1. \A q \in Requests, b \in Agents : Unsent(q, b)' => Unsent(q, b)
    BY <1>1, <1>6 DEF SendOneway, Unsent, TypeOK
  <2>2. Unsent(r, a) /\ ~Unsent(r, a)'
    BY <1>1, <1>6 DEF SendOneway, Unsent, TypeOK
  <2>3. inbox' = [inbox EXCEPT ![a] = Append(inbox[a], r)] \/ UNCHANGED inbox
    BY <1>6 DEF SendOneway
  <2> QED BY <1>3, <1>4, <2>1, <2>2, <2>3
<1>7. CASE \/ Receive(r) \/ Ensure(r) \/ Register(r) \/ Unavailable(r) \/ WriteFails(r) \/ Wakeup(r)
           \/ Timeout(r) \/ Pop(r) \/ TraceAnswer(r) \/ SpawnAll(r) \/ Delivered(r)
  <2>1. UNCHANGED inbox
    BY <1>7 DEF Receive, Ensure, Register, Unavailable, WriteFails, Wakeup, Timeout, Pop, TraceAnswer,
       SpawnAll, Delivered, agentVars
  <2>2. ASSUME NEW q \in Requests, NEW b \in Agents, Unsent(q, b)'
        PROVE  Unsent(q, b)
    <3>1. CASE SpawnAll(r)
      BY <1>1, <2>2, <3>1 DEF SpawnAll, Goto, Unsent, TypeOK
    <3>2. CASE Receive(r) \/ Pop(r)
      BY <1>1, <2>2, <3>2 DEF Receive, Pop, Goto, Finish, Unsent, TypeOK
    <3>3. CASE \/ Ensure(r) \/ Register(r) \/ Unavailable(r) \/ WriteFails(r) \/ Wakeup(r)
               \/ Timeout(r) \/ TraceAnswer(r) \/ Delivered(r)
      BY <1>1, <2>2, <3>3 DEF Ensure, Register, Unavailable, WriteFails, Wakeup, Timeout, TraceAnswer,
         Delivered, Goto, Finish, Unsent, TypeOK
    <3> QED BY <1>7, <3>1, <3>2, <3>3
  <2> QED BY <1>3, <2>1, <2>2
<1> QED BY <1>5, <1>6, <1>7 DEF Handler

LEMMA AgentSideSendsOnce ==
    ASSUME OnceInv, NEW a \in Agents, Reader(a) \/ Agent(a)
    PROVE  OnceInv'
<1> USE DEF OnceInv
<1>1. AnswerInv' /\ TypeOK
  BY ReaderKeepsAnswers, AgentKeepsAnswers DEF AnswerInv
<1>2. \A r \in Requests, b \in Agents : Unsent(r, b)' <=> Unsent(r, b)
  BY DEF Unsent, Reader, ReadEvent, ReadAnswer, PutAnswer, Agent, AgentAnswer, AgentEmit, AgentDies,
     handlerVars
<1>3. CASE Reader(a) \/ AgentEmit(a)
  <2>1. UNCHANGED <<inbox, servedAt>>
    BY <1>3 DEF Reader, ReadEvent, ReadAnswer, PutAnswer, AgentEmit, agentVars
  <2> QED BY <1>1, <1>2, <2>1 DEF QueuedOnce, Queued
<1>4. CASE AgentDies(a)
  <2>1. /\ inbox'[a] = <<>> /\ UNCHANGED servedAt
        /\ \A b \in Agents \ {a} : inbox'[b] = inbox[b]
    BY <1>1, <1>4 DEF AgentDies, TypeOK
  <2>2. \A b \in Agents : QueuedOnce(b)' /\ \A r \in Requests : Queued(r, b)' => Queued(r, b)
    BY <2>1 DEF QueuedOnce, Queued
  <2>3. \A r \in Requests, b \in Agents : Unsent(r, b)' => ~Queued(r, b)'
    BY <1>2, <2>2
  <2>4. \A r \in Requests : Target[r] \in Agents =>
            (Unsent(r, Target[r])' \/ Queued(r, Target[r])' => Len(servedAt'[r]) = 0)
    BY <1>2, <2>1, <2>2
  <2> QED BY <1>1, <2>1, <2>2, <2>3, <2>4
<1>5. CASE AgentAnswer(a)
  <2>1. PICK r \in Requests :
          /\ r = Head(inbox[a]) /\ Queued(r, a) /\ QueuedOnce(a)'
          /\ \A q \in Requests : Queued(q, a)' => Queued(q, a) /\ q # r
          /\ \A b \in Agents \ {a} : inbox'[b] = inbox[b]
    BY <1>1, <1>5, LineLess DEF AgentAnswer
  <2>2. \A b \in Agents : QueuedOnce(b)' /\ \A q \in Requests : Queued(q, b)' => Queued(q, b)
    BY <2>1 DEF QueuedOnce, Queued
  <2>3. \A q \in Requests : q # r \/ Target[r] # a => servedAt'[q] = servedAt[q]
    BY <1>1, <1>5, <2>1 DEF AgentAnswer, TypeOK
  <2>4. Target[r] = a => servedAt'[r] = Append(servedAt[r], emitted[a])
    BY <1>1, <1>5, <2>1 DEF AgentAnswer, TypeOK
  <2>5. ASSUME Target[r] = a
        PROVE  Len(servedAt'[r]) = 1
    <3>1. Len(Append(servedAt[r], emitted[a])) = Len(servedAt[r]) + 1
      BY <1>1 DEF TypeOK
    <3>2. Len(servedAt[r]) = 0
      BY <2>1, <2>5
    <3>3. Len(Append(servedAt[r], emitted[a])) = 1
      BY <3>1, <3>2
    <3> QED BY <2>4, <2>5, <3>3
  <2>6. Queued(r, a) /\ ~Unsent(r, a)
    BY <2>1
  <2>7. ~Unsent(r, a)' /\ ~Queued(r, a)'
    BY <1>2, <2>1, <2>6
  <2>8. \A q \in Requests : Len(servedAt'[q]) \in {0, 1}
    BY <2>3, <2>5
  <2>9. \A q \in Requests : Target[q] \in Agents =>
            (Unsent(q, Target[q])' \/ Queued(q, Target[q])' => Len(servedAt'[q]) = 0)
    BY <1>2, <2>2, <2>3, <2>7
  <2>10. \A q \in Requests, b \in Agents : Unsent(q, b)' => ~Queued(q, b)'
    BY <1>2, <2>2
  <2> QED BY <1>1, <2>2, <2>8, <2>9, <2>10
<1> QED BY <1>3, <1>4, <1>5 DEF Agent

LEMMA OnceInvHolds == Spec => []OnceInv
<1>1. Init => OnceInv
  BY DEF Init, OnceInv, AnswerInv, TypeOK, Codes, Locations, LinesAreExecuted, HeldAreExecuted,
     SlotsAreExecuted, TakenAreExecuted, PendingAreTargeted, AnswersAreOwn, QueuedOnce, Queued
<1>2. OnceInv /\ [Next]_vars => OnceInv'
  <2>1. OnceInv /\ Next => OnceInv'
    BY HandlerSendsOnce, AgentSideSendsOnce DEF Next
  <2>2. OnceInv /\ UNCHANGED vars => OnceInv'
    BY DEF vars, agentVars, handlerVars, readerVars, OnceInv, AnswerInv, TypeOK, Executed,
       LinesAreExecuted, HeldAreExecuted, SlotsAreExecuted, TakenAreExecuted,
       PendingAreTargeted, AnswersAreOwn, QueuedOnce, Queued, Unsent
  <2> QED BY <2>1, <2>2
<1> QED BY <1>1, <1>2, PTL DEF Spec

(* A handler's step opens or closes its request, or is not seen.             *)
LEMMA HandlerKeepsPromise ==
    ASSUME OnceInv, NEW r \in Requests, Receive(r) \/ Handler(r)
    PROVE  Promise!Next \/ UNCHANGED <<PromisedStatus, Executions>>
<1> USE DEF PromisedStatus
<1>1. TypeOK /\ UNCHANGED Executions
  BY DEF OnceInv, AnswerInv, Executions, Receive, Handler, Ensure, Register, Unavailable, Write,
     WriteFails, Wakeup, Timeout, Pop, TraceAnswer, SpawnAll, SendOneway, Delivered, agentVars
<1>2. CASE Receive(r)
  <2>1. PromisedStatus[r] = "idle"
    BY <1>2 DEF Receive
  <2>2. PromisedStatus' \in {[PromisedStatus EXCEPT ![r] = s] : s \in {"open", "closed"}}
    <3>1. CASE Goto(r, "spawn") \/ Goto(r, "ensure")
      <4>1. PromisedStatus' = [PromisedStatus EXCEPT ![r] = "open"]
        BY <1>1, <1>2, <3>1, ZenonT(30) DEF Receive, Goto, Finish, TypeOK
      <4> QED BY <4>1
    <3>2. CASE Finish(r, "agent_unavailable") \/ Finish(r, "unknown_type")
      <4>1. PromisedStatus' = [PromisedStatus EXCEPT ![r] = "closed"]
        BY <1>1, <3>2 DEF Goto, Finish, TypeOK
      <4> QED BY <4>1
    <3> QED BY <1>2, <3>1, <3>2 DEF Receive
  <2> QED BY <1>1, <2>1, <2>2 DEF Promise!Next, Promise!Open
<1>3. ASSUME PromisedStatus[r] = "open", PromisedStatus' = [PromisedStatus EXCEPT ![r] = "closed"]
      PROVE  Promise!Next
  BY <1>1, <1>3 DEF Promise!Next, Promise!Close
<1>4. CASE Unavailable(r) \/ WriteFails(r) \/ Delivered(r)
  <2>1. PromisedStatus[r] = "open"
    BY <1>4 DEF Unavailable, WriteFails, Delivered
  <2>2. PromisedStatus' = [PromisedStatus EXCEPT ![r] = "closed"]
    BY <1>1, <1>4, ZenonT(30) DEF Unavailable, WriteFails, Delivered, Goto, Finish, TypeOK
  <2> QED BY <1>3, <2>1, <2>2
<1>5. CASE Pop(r)
  <2>1. PromisedStatus[r] = "open"
    BY <1>5 DEF Pop
  <2>2. \/ PromisedStatus' = [PromisedStatus EXCEPT ![r] = "closed"]
        \/ UNCHANGED PromisedStatus
    <3>1. pc = [q \in Requests |-> pc[q]] /\ answer = [q \in Requests |-> answer[q]]
      BY <1>1 DEF TypeOK
    <3>2. CASE pc[r] = "pop_answer" /\ Goto(r, "trace_answer") /\ UNCHANGED answer
      BY <3>1, <3>2 DEF Goto
    <3>3. CASE pc[r] = "pop_timeout" /\ Finish(r, "runtime_timeout")
      BY <3>1, <3>3 DEF Goto, Finish
    <3> QED BY <1>5, <3>2, <3>3 DEF Pop
  <2> QED BY <1>1, <1>3, <2>1, <2>2
<1>6. CASE TraceAnswer(r)
  <2>1. PromisedStatus[r] = "open" /\ Executions[r] = 1
    BY <1>6 DEF TraceAnswer, OnceInv, AnswerInv, TakenAreExecuted, Executed, Executions, TypeOK
  <2>2. PromisedStatus' = [PromisedStatus EXCEPT ![r] = "replied"]
    BY <1>1, <1>6 DEF TraceAnswer, Goto, Finish, TypeOK
  <2> QED BY <1>1, <2>1, <2>2 DEF Promise!Next, Promise!Reply
<1>7. CASE \/ Ensure(r) \/ Register(r) \/ Write(r) \/ Wakeup(r) \/ Timeout(r) \/ SpawnAll(r)
           \/ \E a \in Agents : SendOneway(r, a)
  <2>1. UNCHANGED PromisedStatus
    BY <1>1, <1>7 DEF Ensure, Register, Write, Wakeup, Timeout, SpawnAll, SendOneway, Goto, TypeOK
  <2> QED BY <1>1, <2>1
<1> QED BY <1>2, <1>4, <1>5, <1>6, <1>7 DEF Handler

(* An agent's answer executes its request, unless it is not the target.      *)
LEMMA AgentSideKeepsPromise ==
    ASSUME OnceInv, NEW a \in Agents, Reader(a) \/ Agent(a)
    PROVE  Promise!Next \/ UNCHANGED <<PromisedStatus, Executions>>
<1>1. TypeOK /\ UNCHANGED PromisedStatus
  BY DEF OnceInv, AnswerInv, PromisedStatus, Reader, ReadEvent, ReadAnswer, PutAnswer, Agent, AgentAnswer,
     AgentEmit, AgentDies, handlerVars
<1>2. CASE Reader(a) \/ AgentEmit(a) \/ AgentDies(a)
  BY <1>1, <1>2 DEF Executions, Reader, ReadEvent, ReadAnswer, PutAnswer, AgentEmit, AgentDies, agentVars
<1>3. CASE AgentAnswer(a)
  <2>1. PICK r \in Requests : r = Head(inbox[a]) /\ Queued(r, a)
    BY <1>1, <1>3, LineLess DEF AgentAnswer, OnceInv
  <2>2. CASE Target[r] # a
    BY <1>1, <1>3, <2>1, <2>2 DEF AgentAnswer, Executions, TypeOK
  <2>3. CASE Target[r] = a
    <3>1. Len(servedAt[r]) = 0 /\ ~Unsent(r, a)
      BY <2>1, <2>3 DEF OnceInv
    <3>2. servedAt' = [servedAt EXCEPT ![r] = Append(servedAt[r], emitted[a])]
      BY <1>3, <2>1, <2>3 DEF AgentAnswer
    <3>3. Len(Append(servedAt[r], emitted[a])) = 1
      BY <1>1, <3>1, AppendProperties DEF TypeOK
    <3>4. Executions[r] = 0 /\ Executions' = [Executions EXCEPT ![r] = 1]
      BY <1>1, <3>1, <3>2, <3>3 DEF Executions, TypeOK
    <3>5. PromisedStatus[r] # "idle"
      BY <3>1 DEF Unsent, PromisedStatus
    <3> QED BY <1>1, <3>4, <3>5 DEF Promise!Next, Promise!Serve
  <2> QED BY <2>2, <2>3
<1> QED BY <1>2, <1>3 DEF Agent

(* The broker implements RequestReply: whatever times out, dies or comes     *)
(* late, a request is opened once, executed by its agent at most once, and   *)
(* closed once, as replied only if it was executed.                          *)
THEOREM Implements == Spec => KeepsPromise
<1>1. Init => Promise!Init
  BY DEF Init, Promise!Init, PromisedStatus, Executions
<1>2. OnceInv /\ [Next]_vars => [Promise!Next]_<<PromisedStatus, Executions>>
  <2>1. OnceInv /\ Next => [Promise!Next]_<<PromisedStatus, Executions>>
    BY HandlerKeepsPromise, AgentSideKeepsPromise DEF Next
  <2>2. UNCHANGED vars => UNCHANGED <<PromisedStatus, Executions>>
    BY DEF vars, agentVars, handlerVars, PromisedStatus, Executions
  <2> QED BY <2>1, <2>2
<1> QED BY <1>1, <1>2, OnceInvHolds, PTL DEF Spec, KeepsPromise, Promise!Spec

-----------------------------------------------------------------------------
(* The rows of the trace file.                                               *)

DurableInv ==
    /\ TypeOK
    /\ \A r \in Requests : pc[r] # "idle" => Traced(RequestRow(r))
    /\ \A r \in Requests : pc[r] # "done" => ~Traced(ResponseRow(r)) /\ answer[r] = "none"
    /\ AnswersAreDurable

(* A row more at the end of the trace. *)
LEMMA RowMore ==
    ASSUME TypeOK, NEW x \in Row, trace' = Append(trace, x)
    PROVE  /\ Len(trace) \in Nat /\ DOMAIN trace = 1..Len(trace)
           /\ DOMAIN trace' = 1..(Len(trace) + 1)
           /\ \A i \in 1..Len(trace) : trace'[i] = trace[i]
           /\ trace'[Len(trace) + 1] = x
           /\ \A y : Traced(y)' <=> (Traced(y) \/ y = x)
<1>1. /\ Len(trace) \in Nat /\ DOMAIN trace = 1..Len(trace)
      /\ DOMAIN trace' = 1..(Len(trace) + 1)
      /\ \A i \in 1..Len(trace) : trace'[i] = trace[i]
      /\ trace'[Len(trace) + 1] = x
  BY DEF TypeOK
<1> QED BY <1>1 DEF Traced

LEMMA RowsDiffer ==
    \A r :
        /\ \A q : RequestRow(q) # ResponseRow(r) /\ (ResponseRow(q) = ResponseRow(r) => q = r)
        /\ \A a, n : EventRow(a, n) # ResponseRow(r)
BY DEF RequestRow, ResponseRow, EventRow

(* What was answered durably stays so, while other rows are appended. *)
LEMMA AnswersStayDurable ==
    ASSUME TypeOK, NEW x \in Row, trace' = Append(trace, x), NEW r \in Requests, x # ResponseRow(r),
           Precedes(RequestRow(r), ResponseRow(r)),
           \E i \in DOMAIN trace : \A j \in DOMAIN trace : trace[j] = ResponseRow(r) <=> j = i
    PROVE  /\ Precedes(RequestRow(r), ResponseRow(r))'
           /\ \E i \in DOMAIN trace' : \A j \in DOMAIN trace' : trace'[j] = ResponseRow(r) <=> j = i
<1>1. Precedes(RequestRow(r), ResponseRow(r))'
  <2> SUFFICES ASSUME NEW j \in DOMAIN trace', trace'[j] = ResponseRow(r)
               PROVE  \E i \in 1..(j - 1) : trace'[i] = RequestRow(r)
    BY DEF Precedes
  <2>1. j \in DOMAIN trace /\ trace[j] = ResponseRow(r)
    BY RowMore
  <2>2. PICK i \in 1..(j - 1) : trace[i] = RequestRow(r)
    BY <2>1 DEF Precedes
  <2> QED BY <2>1, <2>2, RowMore
<1>2. PICK i \in DOMAIN trace : \A j \in DOMAIN trace : trace[j] = ResponseRow(r) <=> j = i
  OBVIOUS
<1>3. i \in DOMAIN trace' /\ \A j \in DOMAIN trace' : trace'[j] = ResponseRow(r) <=> j = i
  BY <1>2, RowMore
<1> QED BY <1>1, <1>3

(* The row that answers a request makes it durable, if it is the first.     *)
LEMMA AnswerIsMadeDurable ==
    ASSUME TypeOK, NEW r \in Requests, trace' = Append(trace, ResponseRow(r)),
           Traced(RequestRow(r)), ~Traced(ResponseRow(r))
    PROVE  /\ Precedes(RequestRow(r), ResponseRow(r))'
           /\ \E i \in DOMAIN trace' : \A j \in DOMAIN trace' : trace'[j] = ResponseRow(r) <=> j = i
<1>1. /\ Len(trace) \in Nat /\ DOMAIN trace = 1..Len(trace)
      /\ DOMAIN trace' = 1..(Len(trace) + 1)
      /\ \A i \in 1..Len(trace) : trace'[i] = trace[i]
      /\ trace'[Len(trace) + 1] = ResponseRow(r)
  BY RowMore, Constructors
<1>2. \A j \in DOMAIN trace' : trace'[j] = ResponseRow(r) <=> j = Len(trace) + 1
  BY <1>1 DEF Traced
<1>3. PICK i \in DOMAIN trace : trace[i] = RequestRow(r)
  BY DEF Traced
<1>4. Precedes(RequestRow(r), ResponseRow(r))'
  BY <1>1, <1>2, <1>3 DEF Precedes
<1> QED BY <1>1, <1>2, <1>4, SMTT(30)

(* An answer an agent gave, and the answer to a publish, is in the trace     *)
(* file exactly once, after its request, before the client sees it, however  *)
(* many threads append (broker.py:341, 361, 389, 419).                       *)
THEOREM AnswersAreInTrace == Spec => []AnswersAreDurable
<1>1. Init => DurableInv
  BY DEF Init, DurableInv, TypeOK, Codes, Locations, AnswersAreDurable, Traced
<1>2. DurableInv /\ [Next]_vars => DurableInv'
  <2> SUFFICES ASSUME DurableInv, [Next]_vars  PROVE DurableInv'
    OBVIOUS
  <2> USE DEF DurableInv, AnswersAreDurable
  <2>1. TypeOK'
    BY HandlerKeepsTypes, AgentSideKeepsTypes DEF Next, vars, agentVars, handlerVars, readerVars, TypeOK
  <2>2. ASSUME UNCHANGED <<trace, answer>>,
               \A r \in Requests : (pc'[r] = "idle" <=> pc[r] = "idle") /\ (pc'[r] = "done" <=> pc[r] = "done")
        PROVE  DurableInv'
    BY <2>1, <2>2 DEF Precedes, Traced
  <2>3. ASSUME NEW r \in Requests, UNCHANGED trace, pc[r] \notin {"idle", "done"},
               NEW code \in {"agent_unavailable", "connection_lost", "runtime_timeout"}, Finish(r, code)
        PROVE  DurableInv'
    <3>1. \A q \in Requests \ {r} : pc'[q] = pc[q] /\ answer'[q] = answer[q]
      BY <2>3 DEF Finish, Goto, TypeOK
    <3>2. pc'[r] = "done" /\ answer'[r] = code
      BY <2>3 DEF Finish, Goto, TypeOK
    <3> QED BY <2>1, <2>3, <3>1, <3>2 DEF Precedes, Traced
  <2>4. ASSUME NEW r \in Requests, trace' = Append(trace, ResponseRow(r)), pc[r] \notin {"idle", "done"},
               NEW code \in {"agent", "delivered"}, Finish(r, code)
        PROVE  DurableInv'
    <3>1. \A q \in Requests \ {r} : pc'[q] = pc[q] /\ answer'[q] = answer[q]
      BY <2>4 DEF Finish, Goto, TypeOK
    <3>2. pc'[r] = "done" /\ answer'[r] = code
      BY <2>4 DEF Finish, Goto, TypeOK
    <3>3. ResponseRow(r) \in Row /\ \A y : Traced(y)' <=> (Traced(y) \/ y = ResponseRow(r))
      BY <2>4, Constructors, RowMore
    <3>4. ASSUME NEW q \in Requests, answer'[q] \in {"agent", "delivered"}
          PROVE  /\ Precedes(RequestRow(q), ResponseRow(q))'
                 /\ \E i \in DOMAIN trace' : \A j \in DOMAIN trace' : trace'[j] = ResponseRow(q) <=> j = i
      <4>1. CASE q = r
        BY <2>4, <4>1, AnswerIsMadeDurable
      <4>2. CASE q # r
        BY <2>4, <3>1, <3>3, <3>4, <4>2, RowsDiffer, AnswersStayDurable
      <4> QED BY <4>1, <4>2
    <3>5. \A q \in Requests : pc'[q] # "idle" => Traced(RequestRow(q))'
      BY <2>4, <3>1, <3>3
    <3>6. \A q \in Requests : pc'[q] # "done" => ~Traced(ResponseRow(q))' /\ answer'[q] = "none"
      BY <3>1, <3>2, <3>3, RowsDiffer
    <3> QED BY <2>1, <3>4, <3>5, <3>6
  <2>5. ASSUME NEW x \in Row, trace' = Append(trace, x), \A q \in Requests : x # ResponseRow(q),
               \A q \in Requests : pc'[q] = pc[q] \/ (pc[q] = "idle" /\ x = RequestRow(q)),
               \A q \in Requests : answer'[q] \in {answer[q], "agent_unavailable", "unknown_type"},
               \A q \in Requests : pc'[q] # "done" => answer'[q] = answer[q]
        PROVE  DurableInv'
    <3>1. \A y : Traced(y)' <=> (Traced(y) \/ y = x)
      BY <2>5, RowMore
    <3>2. ASSUME NEW q \in Requests, answer'[q] \in {"agent", "delivered"}
          PROVE  /\ Precedes(RequestRow(q), ResponseRow(q))'
                 /\ \E i \in DOMAIN trace' : \A j \in DOMAIN trace' : trace'[j] = ResponseRow(q) <=> j = i
      BY <2>5, <3>2, AnswersStayDurable
    <3>3. \A q \in Requests : pc'[q] # "idle" => Traced(RequestRow(q))'
      BY <2>5, <3>1
    <3>4. \A q \in Requests : pc'[q] # "done" => ~Traced(ResponseRow(q))' /\ answer'[q] = "none"
      BY <2>5, <3>1
    <3> QED BY <2>1, <3>2, <3>3, <3>4
  <2>6. ASSUME NEW r \in Requests, Receive(r)
        PROVE  DurableInv'
    <3>1. PICK x \in Row : x = RequestRow(r) /\ trace' = Append(trace, x) /\ pc[r] = "idle"
      BY <2>6, Constructors DEF Receive
    <3>2. \A q \in Requests : pc'[q] = pc[q] \/ q = r
      BY <2>6 DEF Receive, Goto, Finish, TypeOK
    <3>3. /\ \A q \in Requests : answer'[q] \in {answer[q], "agent_unavailable", "unknown_type"}
          /\ \A q \in Requests : pc'[q] # "done" => answer'[q] = answer[q]
      BY <2>6 DEF Receive, Goto, Finish, TypeOK
    <3>4. \A q \in Requests : x # ResponseRow(q)
      BY <3>1, RowsDiffer
    <3>5. \A q \in Requests : pc'[q] = pc[q] \/ (pc[q] = "idle" /\ x = RequestRow(q))
      BY <3>1, <3>2
    <3> HIDE DEF DurableInv, AnswersAreDurable
    <3> QED BY <2>5, <3>1, <3>3, <3>4, <3>5
  <2>7. ASSUME NEW r \in Requests, Handler(r)
        PROVE  DurableInv'
    <3>1. CASE Unavailable(r) \/ WriteFails(r)
      BY <2>3, <3>1 DEF Unavailable, WriteFails
    <3>2. CASE TraceAnswer(r) \/ Delivered(r)
      BY <2>4, <3>2 DEF TraceAnswer, Delivered
    <3>3. CASE Pop(r)
      <4>1. CASE Finish(r, "runtime_timeout")
        BY <2>3, <3>3, <4>1 DEF Pop
      <4>2. CASE pc[r] = "pop_answer" /\ Goto(r, "trace_answer") /\ UNCHANGED answer
        BY <2>2, <3>3, <4>2 DEF Pop, Goto, TypeOK
      <4> QED BY <3>3, <4>1, <4>2 DEF Pop
    <3>4. CASE Ensure(r) \/ Register(r) \/ Write(r)
      BY <2>2, <3>4 DEF Ensure, Register, Write, Goto, TypeOK
    <3>5. CASE Wakeup(r) \/ Timeout(r)
      BY <2>2, <3>5 DEF Wakeup, Timeout, Goto, TypeOK
    <3>6. CASE SpawnAll(r) \/ \E a \in Agents : SendOneway(r, a)
      BY <2>2, <3>6, SMTT(30) DEF SpawnAll, SendOneway, Goto, TypeOK
    <3> QED BY <2>7, <3>1, <3>2, <3>3, <3>4, <3>5, <3>6 DEF Handler
  <2>8. ASSUME NEW a \in Agents, ReadEvent(a)
        PROVE  DurableInv'
    <3>1. CASE a \in Silent
      BY <2>2, <2>8, <3>1 DEF ReadEvent, handlerVars
    <3>2. CASE a \notin Silent
      <4>1. Head(outbox[a]).id \in Nat
        BY <2>8, HeadOfLines DEF ReadEvent, TypeOK
      <4>2. PICK x \in Row : x = EventRow(a, Head(outbox[a]).id)
        BY <4>1, Constructors
      <4>3. trace' = Append(trace, x) /\ UNCHANGED <<pc, answer>> /\ \A q \in Requests : x # ResponseRow(q)
        BY <2>8, <3>2, <4>2, RowsDiffer DEF ReadEvent, handlerVars
      <4>4. /\ \A q \in Requests : pc'[q] = pc[q] \/ (pc[q] = "idle" /\ x = RequestRow(q))
            /\ \A q \in Requests : answer'[q] \in {answer[q], "agent_unavailable", "unknown_type"}
            /\ \A q \in Requests : pc'[q] # "done" => answer'[q] = answer[q]
        BY <4>3
      <4> HIDE DEF DurableInv, AnswersAreDurable
      <4> QED BY <2>5, <4>3, <4>4
    <3> QED BY <3>1, <3>2
  <2>9. ASSUME NEW a \in Agents, ReadAnswer(a) \/ PutAnswer(a) \/ Agent(a)
        PROVE  DurableInv'
    BY <2>2, <2>9 DEF ReadAnswer, PutAnswer, Agent, AgentAnswer, AgentEmit, AgentDies, handlerVars
  <2>10. CASE UNCHANGED vars
    BY <2>2, <2>10 DEF vars, handlerVars
  <2> QED BY <2>6, <2>7, <2>8, <2>9, <2>10 DEF Next, Reader
<1>3. DurableInv => AnswersAreDurable
  BY DEF DurableInv
<1> QED BY <1>1, <1>2, <1>3, PTL DEF Spec

-----------------------------------------------------------------------------
(* The order of the events.  EventsAreOrdered speaks of the trace file only. *)
(* What carries it is the agent's stdout: its lines are in the order the     *)
(* agent wrote them, its rows come from the front, and an answer that has    *)
(* left it has nothing of its agent's behind it.                             *)

InLine(a, i, l) == i \in 1..Len(outbox[a]) /\ outbox[a][i] = l

LinesIncrease ==
    \A a \in Agents : \A m, n \in Nat : \A i, j \in Nat :
        InLine(a, i, EventLine(m)) /\ InLine(a, j, EventLine(n)) /\ i < j => m < n

LinesAreEmitted ==
    \A a \in Agents : \A n \in Nat : \A i \in Nat : InLine(a, i, EventLine(n)) => n <= emitted[a]

RowsAreBehind ==
    \A a \in Agents : \A m \in Nat : Traced(EventRow(a, m)) =>
        /\ m <= emitted[a]
        /\ \A n \in Nat : \A i \in Nat : InLine(a, i, EventLine(n)) => m < n

NoneIsLost ==
    \A a \in Agents \ Silent : \A n \in 1..emitted[a] :
        Traced(EventRow(a, n)) \/ \E i \in Nat : InLine(a, i, EventLine(n))

AnswersAreBehind ==
    \A r \in Requests : Target[r] \in Agents \ Silent =>
        \A i \in Nat : InLine(Target[r], i, AnswerLine(r)) =>
            \A n \in 1..Head(servedAt[r]) :
                \/ Traced(EventRow(Target[r], n))
                \/ \E j \in Nat : j < i /\ InLine(Target[r], j, EventLine(n))

ServedInTime ==
    \A r \in Requests : Target[r] \in Agents /\ Executed(r) =>
        Head(servedAt[r]) \in Nat /\ Head(servedAt[r]) <= emitted[Target[r]]

RowsIncrease ==
    \A a \in Agents : \A m, n \in Nat : \A i, j \in DOMAIN trace :
        trace[i] = EventRow(a, m) /\ trace[j] = EventRow(a, n) /\ i < j => m < n

LineInv ==
    /\ LinesIncrease
    /\ LinesAreEmitted
    /\ RowsAreBehind
    /\ NoneIsLost
    /\ AnswersAreBehind
    /\ ServedInTime
    /\ RowsIncrease

(* What the agent of a request had emitted before its answer is traced. *)
EarlyAreTraced(r) ==
    Target[r] \in Agents \ Silent =>
        \A n \in 1..Head(servedAt[r]) : Traced(EventRow(Target[r], n))

AnswerRowIsLate(r) ==
    Target[r] \in Agents \ Silent /\ Executed(r) =>
        \A n \in 1..Head(servedAt[r]) : Precedes(EventRow(Target[r], n), ResponseRow(r))

ArrivedInv ==
    /\ \A a \in Agents : held[a] # NoRequest => EarlyAreTraced(held[a])
    /\ \A r \in Requests : slot[r] => EarlyAreTraced(r)
    /\ \A r \in Requests : pc[r] \in {"pop_answer", "trace_answer"} => EarlyAreTraced(r)
    /\ \A r \in Requests : pc[r] \in {"spawn", "fanout"} => Kind[r] = "topic"
    /\ \A r \in Requests : Target[r] \in Agents /\ Traced(ResponseRow(r)) => Executed(r)
    /\ \A r \in Requests : AnswerRowIsLate(r)

OrderInv == AnswerInv /\ LineInv /\ ArrivedInv

LEMMA LinesAndRowsDiffer ==
    /\ \A m, n : EventLine(m) = EventLine(n) => m = n
    /\ \A q, r : AnswerLine(q) = AnswerLine(r) => q = r
    /\ \A n, r : EventLine(n) # AnswerLine(r)
    /\ \A a, b, m, n : EventRow(a, m) = EventRow(b, n) => a = b /\ m = n
    /\ \A a, n, r : EventRow(a, n) # ResponseRow(r) /\ EventRow(a, n) # RequestRow(r)
    /\ \A q, r : ResponseRow(q) = ResponseRow(r) => q = r
    /\ \A q, r : RequestRow(q) # ResponseRow(r)
BY DEF EventLine, AnswerLine, EventRow, ResponseRow, RequestRow

(* A step of a thread or an agent appends one row at most, and what has been *)
(* traced stays so. *)
LEMMA TracedStays ==
    ASSUME TypeOK, trace' = trace \/ \E x \in Row : trace' = Append(trace, x), NEW y, Traced(y)
    PROVE  Traced(y)'
<1>1. CASE trace' = trace
  BY <1>1 DEF Traced
<1>2. ASSUME NEW x \in Row, trace' = Append(trace, x)
      PROVE  Traced(y)'
  BY <1>2, RowMore
<1> QED BY <1>1, <1>2

LEMMA FirstServiceStays ==
    ASSUME TypeOK, NEW a \in Agents, AgentAnswer(a) \/ servedAt' = servedAt,
           NEW r \in Requests, Executed(r)
    PROVE  Executed(r)' /\ Head(servedAt'[r]) = Head(servedAt[r])
<1>1. servedAt[r] \in Seq(Nat) /\ emitted[a] \in Nat /\ servedAt[r] # <<>>
  BY DEF TypeOK, Executed
<1>2. /\ Append(servedAt[r], emitted[a]) # <<>>
      /\ Head(Append(servedAt[r], emitted[a])) = Head(servedAt[r])
  BY ONLY <1>1
<1>3. servedAt'[r] \in {servedAt[r], Append(servedAt[r], emitted[a])}
  <2>1. CASE AgentAnswer(a)
    BY <2>1 DEF AgentAnswer, TypeOK
  <2>2. CASE servedAt' = servedAt
    BY <2>2
  <2> QED BY <2>1, <2>2
<1> QED BY <1>1, <1>2, <1>3 DEF Executed

(* What is settled about an answer stays settled. *)
LEMMA EarlyStay ==
    ASSUME TypeOK, NEW a \in Agents, AgentAnswer(a) \/ servedAt' = servedAt,
           trace' = trace \/ \E x \in Row : trace' = Append(trace, x),
           NEW r \in Requests, Executed(r), EarlyAreTraced(r)
    PROVE  EarlyAreTraced(r)'
<1>1. Head(servedAt'[r]) = Head(servedAt[r])
  BY FirstServiceStays
<1> QED BY <1>1, TracedStays DEF EarlyAreTraced

(* The rows of handler threads do not touch what the lines promise. *)
LEMMA OtherRowKeepsLines ==
    ASSUME TypeOK, LineInv, UNCHANGED <<outbox, emitted, servedAt>>,
           NEW q \in Requests,
           trace' \in {trace, Append(trace, RequestRow(q)), Append(trace, ResponseRow(q))}
    PROVE  LineInv'
<1> USE DEF LineInv
<1>1. \A a \in Agents : \A n \in Nat : Traced(EventRow(a, n))' <=> Traced(EventRow(a, n))
  <2>1. CASE trace' = trace
    BY <2>1 DEF Traced
  <2>2. ASSUME NEW x \in {RequestRow(q), ResponseRow(q)}, trace' = Append(trace, x)
        PROVE  \A a \in Agents : \A n \in Nat : Traced(EventRow(a, n))' <=> Traced(EventRow(a, n))
    BY <2>2, RowMore, Constructors, LinesAndRowsDiffer
  <2> QED BY <2>1, <2>2
<1>2. \A a, i, l : InLine(a, i, l)' <=> InLine(a, i, l)
  BY DEF InLine
<1>3. LinesIncrease' /\ LinesAreEmitted'
  BY <1>2 DEF LinesIncrease, LinesAreEmitted
<1>4. RowsAreBehind'
  BY <1>1, <1>2 DEF RowsAreBehind
<1>5. NoneIsLost'
  BY <1>1, <1>2, TracedStays DEF NoneIsLost, TypeOK
<1>6. \A y : Traced(y) => Traced(y)'
  BY TracedStays, Constructors
<1>7. AnswersAreBehind'
  BY <1>2, <1>6 DEF AnswersAreBehind
<1>8. ServedInTime'
  BY DEF ServedInTime, Executed
<1>9. RowsIncrease'
  <2>1. CASE trace' = trace
    BY <2>1 DEF RowsIncrease
  <2>2. ASSUME NEW x \in {RequestRow(q), ResponseRow(q)}, trace' = Append(trace, x)
        PROVE  RowsIncrease'
    <3>1. \A i \in DOMAIN trace' : \A a \in Agents, n \in Nat :
            trace'[i] = EventRow(a, n) => i \in DOMAIN trace /\ trace[i] = EventRow(a, n)
      BY <2>2, RowMore, Constructors, LinesAndRowsDiffer
    <3> QED BY <3>1 DEF RowsIncrease
  <2> QED BY <2>1, <2>2
<1> QED BY <1>3, <1>4, <1>5, <1>7, <1>8, <1>9

(* Target is the agent that is to answer, and a publish has none. *)
PublishesHaveNoTarget == \A r \in Requests : Kind[r] = "topic" => Target[r] = NoAgent

(* An answer's row is appended when all that is early is traced. *)
LEMMA RowKeepsOrder ==
    ASSUME TypeOK, UNCHANGED servedAt, NEW r \in Requests, AnswerRowIsLate(r),
           \/ trace' = trace
           \/ \E x \in Row : trace' = Append(trace, x) /\ (x = ResponseRow(r) => EarlyAreTraced(r))
    PROVE  AnswerRowIsLate(r)'
<1> SUFFICES ASSUME Target[r] \in Agents \ Silent, Executed(r), NEW n \in 1..Head(servedAt[r]),
                    NEW j \in DOMAIN trace', trace'[j] = ResponseRow(r)
             PROVE  \E i \in 1..(j - 1) : trace'[i] = EventRow(Target[r], n)
  BY DEF AnswerRowIsLate, Precedes, Executed
<1>1. CASE trace' = trace
  BY <1>1 DEF AnswerRowIsLate, Precedes
<1>2. ASSUME NEW x \in Row, trace' = Append(trace, x), x = ResponseRow(r) => EarlyAreTraced(r)
      PROVE  \E i \in 1..(j - 1) : trace'[i] = EventRow(Target[r], n)
  <2>1. CASE j \in DOMAIN trace
    <3>1. trace[j] = ResponseRow(r)
      BY <1>2, <2>1, RowMore
    <3>2. PICK i \in 1..(j - 1) : trace[i] = EventRow(Target[r], n)
      BY <2>1, <3>1 DEF AnswerRowIsLate, Precedes
    <3>3. i \in DOMAIN trace
      BY <2>1, <3>2 DEF TypeOK
    <3> QED BY <1>2, <3>2, <3>3, RowMore
  <2>2. CASE j = Len(trace) + 1
    <3>1. PICK i \in DOMAIN trace : trace[i] = EventRow(Target[r], n)
      BY <1>2, <2>2, RowMore DEF EarlyAreTraced, Traced
    <3> QED BY <1>2, <2>2, <3>1, RowMore
  <2> QED BY <1>2, <2>1, <2>2, RowMore
<1> QED BY <1>1, <1>2

(* A thread takes an answer from its queue, and fans out a publish only. *)
LEMMA HandlerTakesFromSlot ==
    ASSUME TypeOK, NEW q \in Requests, Receive(q) \/ Handler(q), NEW r \in Requests
    PROVE  /\ pc'[r] \in {"pop_answer", "trace_answer"} =>
                slot[r] \/ pc[r] \in {"pop_answer", "trace_answer"}
           /\ pc'[r] \in {"spawn", "fanout"} => Kind[r] = "topic" \/ pc[r] \in {"spawn", "fanout"}
<1> USE DEF TypeOK, Goto, Finish
<1>1. CASE Receive(q)
  BY <1>1 DEF Receive
<1>2. CASE Wakeup(q) \/ Pop(q)
  BY <1>2 DEF Wakeup, Pop
<1>3. CASE \E a \in Agents : SendOneway(q, a)
  BY <1>3 DEF SendOneway
<1>4. CASE SpawnAll(q) \/ TraceAnswer(q) \/ Delivered(q) \/ Timeout(q)
  BY <1>4 DEF SpawnAll, TraceAnswer, Delivered, Timeout
<1>5. CASE Ensure(q) \/ Register(q) \/ Unavailable(q) \/ Write(q) \/ WriteFails(q)
  BY <1>5 DEF Ensure, Register, Unavailable, Write, WriteFails
<1> QED BY <1>1, <1>2, <1>3, <1>4, <1>5 DEF Handler

LEMMA HandlerKeepsOrder ==
    ASSUME PublishesHaveNoTarget,
           OrderInv, NEW q \in Requests, Receive(q) \/ Handler(q)
    PROVE  OrderInv'
<1> USE DEF OrderInv
<1>1. AnswerInv' /\ TypeOK
  BY HandlerKeepsAnswers DEF AnswerInv
<1>2. UNCHANGED <<outbox, emitted, servedAt, held, slot>>
  BY DEF Receive, Handler, Ensure, Register, Unavailable, Write, WriteFails, Wakeup,
     Timeout, Pop, TraceAnswer, SpawnAll, SendOneway, Delivered, agentVars, readerVars
<1>3. \/ trace' \in {trace, Append(trace, RequestRow(q))}
      \/ trace' = Append(trace, ResponseRow(q)) /\ pc[q] \in {"trace_answer", "fanout"}
  BY DEF Receive, Handler, Ensure, Register, Unavailable, Write, WriteFails, Wakeup,
     Timeout, Pop, TraceAnswer, SpawnAll, SendOneway, Delivered
<1>4. \/ trace' \in {trace, Append(trace, RequestRow(q))}
      \/ trace' = Append(trace, ResponseRow(q)) /\ EarlyAreTraced(q)
                 /\ (Target[q] \in Agents => Executed(q))
  <2>1. pc[q] = "fanout" => Target[q] \notin Agents
    BY BrokerAssumption DEF ArrivedInv, PublishesHaveNoTarget
  <2>2. pc[q] = "trace_answer" => Executed(q) /\ EarlyAreTraced(q)
    BY DEF ArrivedInv, AnswerInv, TakenAreExecuted
  <2> QED BY <1>3, <2>1, <2>2 DEF EarlyAreTraced
<1>5. LineInv'
  <2>1. trace' \in {trace, Append(trace, RequestRow(q)), Append(trace, ResponseRow(q))}
    BY <1>4
  <2> QED BY <1>1, <1>2, <2>1, OtherRowKeepsLines
<1>6. \A r \in Requests : EarlyAreTraced(r) => EarlyAreTraced(r)'
  <2>1. \A y : Traced(y) => Traced(y)'
    BY <1>1, <1>4, TracedStays, Constructors
  <2> QED BY <1>2, <2>1 DEF EarlyAreTraced
<1>7. (\A a \in Agents : held[a] # NoRequest => EarlyAreTraced(held[a]))'
  BY <1>1, <1>2, <1>6 DEF ArrivedInv, TypeOK
<1>8. (\A r \in Requests : slot[r] => EarlyAreTraced(r))'
  BY <1>2, <1>6 DEF ArrivedInv
<1>9. \A r \in Requests : pc'[r] \in {"pop_answer", "trace_answer"} =>
                            slot[r] \/ pc[r] \in {"pop_answer", "trace_answer"}
  BY <1>1, HandlerTakesFromSlot
<1>10. \A r \in Requests : pc'[r] \in {"spawn", "fanout"} =>
                             Kind[r] = "topic" \/ pc[r] \in {"spawn", "fanout"}
  BY <1>1, HandlerTakesFromSlot
<1>11. (\A r \in Requests : Target[r] \in Agents /\ Traced(ResponseRow(r)) => Executed(r))'
  <2> SUFFICES ASSUME NEW r \in Requests, Target[r] \in Agents, Traced(ResponseRow(r))'
               PROVE  Executed(r)
    BY <1>2 DEF Executed
  <2>1. Traced(ResponseRow(r)) \/ (r = q /\ Executed(q))
    <3>1. CASE trace' = trace
      BY <3>1 DEF Traced
    <3>2. CASE trace' = Append(trace, RequestRow(q))
      BY <1>1, <3>2, RowMore, Constructors, LinesAndRowsDiffer
    <3>3. CASE trace' = Append(trace, ResponseRow(q)) /\ (Target[q] \in Agents => Executed(q))
      BY <1>1, <3>3, RowMore, Constructors, LinesAndRowsDiffer
    <3> QED BY <1>4, <3>1, <3>2, <3>3
  <2> QED BY <2>1 DEF ArrivedInv
<1>12. (\A r \in Requests : AnswerRowIsLate(r))'
  <2> SUFFICES ASSUME NEW r \in Requests
               PROVE  AnswerRowIsLate(r)'
    OBVIOUS
  <2>1. CASE trace' \in {trace, Append(trace, RequestRow(q))}
    <3>1. RequestRow(q) \in Row /\ RequestRow(q) # ResponseRow(r)
      BY Constructors, LinesAndRowsDiffer
    <3> QED BY <1>1, <1>2, <2>1, <3>1, RowKeepsOrder DEF ArrivedInv
  <2>2. CASE trace' = Append(trace, ResponseRow(q)) /\ EarlyAreTraced(q)
    <3>1. ResponseRow(q) \in Row /\ (ResponseRow(q) = ResponseRow(r) => EarlyAreTraced(r))
      BY <2>2, Constructors, LinesAndRowsDiffer
    <3> QED BY <1>1, <1>2, <2>2, <3>1, RowKeepsOrder DEF ArrivedInv
  <2> QED BY <1>4, <2>1, <2>2
<1>13. ArrivedInv'
  BY <1>6, <1>7, <1>8, <1>9, <1>10, <1>11, <1>12 DEF ArrivedInv
<1> QED BY <1>1, <1>5, <1>13

(* A line more at the end of an agent's stdout. *)
LEMMA OutboxMore ==
    ASSUME TypeOK, NEW a \in Agents, NEW l \in Line,
           outbox' = [outbox EXCEPT ![a] = Append(outbox[a], l)]
    PROVE  /\ Len(outbox[a]) + 1 \in Nat
           /\ \A i \in Nat : \A k : InLine(a, i, k) => i < Len(outbox[a]) + 1
           /\ \A b \in Agents : \A i \in Nat : \A k :
                InLine(b, i, k)' <=> \/ InLine(b, i, k)
                                     \/ b = a /\ i = Len(outbox[a]) + 1 /\ k = l
<1>1. /\ outbox[a] \in Seq(Line) /\ outbox'[a] = Append(outbox[a], l)
      /\ \A b \in Agents : b # a => outbox'[b] = outbox[b]
  BY DEF TypeOK
<1>2. /\ Len(outbox'[a]) = Len(outbox[a]) + 1 /\ Len(outbox[a]) \in Nat
      /\ \A i \in 1..Len(outbox[a]) : outbox'[a][i] = outbox[a][i]
      /\ outbox'[a][Len(outbox[a]) + 1] = l
  <2>1. outbox[a] \in Seq(Line) /\ l \in Line
    BY <1>1
  <2>2. /\ Len(Append(outbox[a], l)) = Len(outbox[a]) + 1 /\ Len(outbox[a]) \in Nat
        /\ \A i \in 1..Len(outbox[a]) : Append(outbox[a], l)[i] = outbox[a][i]
        /\ Append(outbox[a], l)[Len(outbox[a]) + 1] = l
    BY ONLY <2>1
  <2> QED BY <1>1, <2>2
<1> QED BY <1>1, <1>2 DEF InLine

(* A line less at its front. *)
LEMMA OutboxLess ==
    ASSUME TypeOK, NEW a \in Agents, outbox[a] # <<>>,
           outbox' = [outbox EXCEPT ![a] = Tail(outbox[a])]
    PROVE  /\ InLine(a, 1, Head(outbox[a]))
           /\ \A k : InLine(a, 1, k) => k = Head(outbox[a])
           /\ \A i \in Nat : \A k : InLine(a, i, k)' <=> i # 0 /\ InLine(a, i + 1, k)
           /\ \A b \in Agents : b # a => \A i \in Nat : \A k : InLine(b, i, k)' <=> InLine(b, i, k)
<1>1. /\ outbox[a] \in Seq(Line) /\ outbox'[a] = Tail(outbox[a])
      /\ \A b \in Agents : b # a => outbox'[b] = outbox[b]
  BY DEF TypeOK
<1>2. /\ Len(outbox'[a]) = Len(outbox[a]) - 1 /\ Len(outbox[a]) \in Nat \ {0}
      /\ \A i \in 1..(Len(outbox[a]) - 1) : outbox'[a][i] = outbox[a][i + 1]
      /\ Head(outbox[a]) = outbox[a][1]
  <2>1. outbox[a] \in Seq(Line) /\ outbox[a] # <<>>
    BY <1>1
  <2>2. /\ Len(Tail(outbox[a])) = Len(outbox[a]) - 1 /\ Len(outbox[a]) \in Nat \ {0}
        /\ \A i \in 1..(Len(outbox[a]) - 1) : Tail(outbox[a])[i] = outbox[a][i + 1]
    BY ONLY <2>1
  <2>3. Head(outbox[a]) = outbox[a][1]
    BY ONLY <2>1
  <2> QED BY <1>1, <2>2, <2>3
<1> QED BY <1>1, <1>2 DEF InLine

LEMMA LinesUntouched ==
    ASSUME LineInv, UNCHANGED <<outbox, emitted, servedAt, trace>>
    PROVE  LineInv'
<1>1. \A a, i, l : InLine(a, i, l)' <=> InLine(a, i, l)
  BY DEF InLine
<1>2. \A y : Traced(y)' <=> Traced(y)
  BY DEF Traced
<1>3. LinesIncrease' /\ LinesAreEmitted'
  BY <1>1 DEF LineInv, LinesIncrease, LinesAreEmitted
<1>4. RowsAreBehind' /\ NoneIsLost'
  BY <1>1, <1>2 DEF LineInv, RowsAreBehind, NoneIsLost
<1>5. AnswersAreBehind'
  BY <1>1, <1>2 DEF LineInv, AnswersAreBehind
<1>6. ServedInTime' /\ RowsIncrease'
  BY DEF LineInv, ServedInTime, Executed, RowsIncrease
<1> QED BY <1>3, <1>4, <1>5, <1>6 DEF LineInv

LEMMA EmitKeepsLines ==
    ASSUME TypeOK, LineInv, NEW a \in Agents, AgentEmit(a)
    PROVE  LineInv'
<1> USE DEF LineInv
<1> DEFINE N == Len(outbox[a]) + 1
<1>1. /\ emitted[a] + 1 \in Nat /\ emitted'[a] = emitted[a] + 1
      /\ \A b \in Agents : b # a => emitted'[b] = emitted[b]
      /\ \A b \in Agents : emitted[b] \in Nat /\ emitted'[b] \in Nat /\ emitted[b] <= emitted'[b]
      /\ UNCHANGED <<trace, servedAt>>
  BY DEF AgentEmit, TypeOK
<1>2. /\ N \in Nat
      /\ \A i \in Nat : \A k : InLine(a, i, k) => i < N
      /\ \A b \in Agents : \A i \in Nat : \A k :
            InLine(b, i, k)' <=> InLine(b, i, k) \/ (b = a /\ i = N /\ k = EventLine(emitted[a] + 1))
  <2> DEFINE l == EventLine(emitted[a] + 1)
  <2>1. outbox' = [outbox EXCEPT ![a] = Append(outbox[a], l)]
    BY DEF AgentEmit
  <2>2. l \in Line
    BY <1>1, Constructors
  <2> HIDE DEF l
  <2>3. /\ N \in Nat
        /\ \A i \in Nat : \A k : InLine(a, i, k) => i < N
        /\ \A b \in Agents : \A i \in Nat : \A k :
              InLine(b, i, k)' <=> InLine(b, i, k) \/ (b = a /\ i = N /\ k = l)
    BY <2>1, <2>2, OutboxMore
  <2> QED BY <2>3 DEF l
<1> HIDE DEF N
<1>3. \A y : Traced(y)' <=> Traced(y)
  BY <1>1 DEF Traced
<1>4. LinesIncrease'
  <2> SUFFICES ASSUME NEW b \in Agents, NEW m \in Nat, NEW n \in Nat, NEW i \in Nat, NEW j \in Nat,
                      InLine(b, i, EventLine(m))', InLine(b, j, EventLine(n))', i < j
               PROVE  m < n
    BY DEF LinesIncrease
  <2>1. CASE InLine(b, i, EventLine(m)) /\ InLine(b, j, EventLine(n))
    BY <2>1 DEF LinesIncrease
  <2>2. CASE InLine(b, i, EventLine(m)) /\ b = a /\ j = N /\ EventLine(n) = EventLine(emitted[a] + 1)
    BY <1>1, <2>2, LinesAndRowsDiffer DEF LinesAreEmitted
  <2> QED BY <1>2, <2>1, <2>2
<1>5. LinesAreEmitted'
  <2> SUFFICES ASSUME NEW b \in Agents, NEW n \in Nat, NEW i \in Nat, InLine(b, i, EventLine(n))'
               PROVE  n <= emitted'[b]
    BY DEF LinesAreEmitted
  <2>1. CASE InLine(b, i, EventLine(n))
    BY <1>1, <2>1 DEF LinesAreEmitted
  <2>2. CASE b = a /\ EventLine(n) = EventLine(emitted[a] + 1)
    BY <1>1, <2>2, LinesAndRowsDiffer
  <2> QED BY <1>2, <2>1, <2>2
<1>6. RowsAreBehind'
  <2> SUFFICES ASSUME NEW b \in Agents, NEW m \in Nat, Traced(EventRow(b, m))
               PROVE  /\ m <= emitted'[b]
                      /\ \A n \in Nat : \A i \in Nat : InLine(b, i, EventLine(n))' => m < n
    BY <1>3 DEF RowsAreBehind
  <2>1. m <= emitted[b]
    BY DEF RowsAreBehind
  <2>2. ASSUME NEW n \in Nat, NEW i \in Nat, InLine(b, i, EventLine(n))'
        PROVE  m < n
    <3>1. CASE InLine(b, i, EventLine(n))
      BY <3>1 DEF RowsAreBehind
    <3>2. CASE b = a /\ EventLine(n) = EventLine(emitted[a] + 1)
      BY <1>1, <2>1, <3>2, LinesAndRowsDiffer
    <3> QED BY <1>2, <2>2, <3>1, <3>2
  <2> QED BY <1>1, <2>1, <2>2
<1>7. NoneIsLost'
  <2> SUFFICES ASSUME NEW b \in Agents \ Silent, NEW n \in 1..emitted'[b]
               PROVE  Traced(EventRow(b, n)) \/ \E i \in Nat : InLine(b, i, EventLine(n))'
    BY <1>3 DEF NoneIsLost
  <2>1. CASE n \in 1..emitted[b]
    BY <1>2, <2>1 DEF NoneIsLost
  <2>2. CASE b = a /\ n = emitted[a] + 1
    BY <1>2, <2>2
  <2> QED BY <1>1, <2>1, <2>2
<1>8. AnswersAreBehind'
  <2> SUFFICES ASSUME NEW r \in Requests, Target[r] \in Agents \ Silent, NEW i \in Nat,
                      InLine(Target[r], i, AnswerLine(r))', NEW n \in 1..Head(servedAt[r])
               PROVE  \/ Traced(EventRow(Target[r], n))
                      \/ \E j \in Nat : j < i /\ InLine(Target[r], j, EventLine(n))'
    BY <1>1, <1>3 DEF AnswersAreBehind
  <2>1. InLine(Target[r], i, AnswerLine(r))
    BY <1>2, LinesAndRowsDiffer
  <2> QED BY <1>2, <2>1 DEF AnswersAreBehind
<1>9. ServedInTime'
  <2> SUFFICES ASSUME NEW r \in Requests, Target[r] \in Agents, Executed(r)
               PROVE  Head(servedAt[r]) \in Nat /\ Head(servedAt[r]) <= emitted'[Target[r]]
    BY <1>1 DEF ServedInTime, Executed
  <2> QED BY <1>1 DEF ServedInTime
<1>10. RowsIncrease'
  BY <1>1 DEF RowsIncrease
<1> QED BY <1>4, <1>5, <1>6, <1>7, <1>8, <1>9, <1>10

LEMMA AnswerKeepsLines ==
    ASSUME TypeOK, LinesAreExecuted, LineInv, NEW a \in Agents, AgentAnswer(a)
    PROVE  LineInv'
<1> USE DEF LineInv
<1> DEFINE N == Len(outbox[a]) + 1
<1>1. PICK p \in Requests : p = Head(inbox[a])
  BY HeadTailProperties DEF AgentAnswer, TypeOK
<1>2. /\ N \in Nat
      /\ \A i \in Nat : \A k : InLine(a, i, k) => i < N
      /\ \A b \in Agents : \A i \in Nat : \A k :
            InLine(b, i, k)' <=> InLine(b, i, k) \/ (b = a /\ i = N /\ k = AnswerLine(p))
  <2> DEFINE l == AnswerLine(p)
  <2>1. outbox' = [outbox EXCEPT ![a] = Append(outbox[a], l)]
    BY <1>1 DEF AgentAnswer
  <2>2. l \in Line
    BY Constructors
  <2> HIDE DEF l
  <2>3. /\ N \in Nat
        /\ \A i \in Nat : \A k : InLine(a, i, k) => i < N
        /\ \A b \in Agents : \A i \in Nat : \A k :
              InLine(b, i, k)' <=> InLine(b, i, k) \/ (b = a /\ i = N /\ k = l)
    BY <2>1, <2>2, OutboxMore
  <2> QED BY <2>3 DEF l
<1> HIDE DEF N
<1>3. /\ UNCHANGED <<trace, emitted>>
      /\ \A y : Traced(y)' <=> Traced(y)
      /\ \A b \in Agents : emitted[b] \in Nat
  BY DEF AgentAnswer, handlerVars, Traced, TypeOK
<1>4. \A b \in Agents : \A i, n \in Nat : InLine(b, i, EventLine(n))' <=> InLine(b, i, EventLine(n))
  BY <1>2, LinesAndRowsDiffer
<1>5. LinesIncrease' /\ LinesAreEmitted'
  BY <1>3, <1>4 DEF LinesIncrease, LinesAreEmitted
<1>6. RowsAreBehind'
  BY <1>3, <1>4 DEF RowsAreBehind
<1>7. NoneIsLost'
  <2>1. \A b \in Agents : \A n \in 1..emitted[b] : n \in Nat
    BY <1>3
  <2> QED BY <1>3, <1>4, <2>1 DEF NoneIsLost
<1>8. ServedInTime'
  <2> SUFFICES ASSUME NEW r \in Requests, Target[r] \in Agents, Executed(r)'
               PROVE  Head(servedAt'[r]) \in Nat /\ Head(servedAt'[r]) <= emitted[Target[r]]
    BY <1>3 DEF ServedInTime
  <2>1. CASE Executed(r)
    BY <2>1, FirstServiceStays DEF ServedInTime
  <2>2. CASE ~Executed(r)
    <3>1. r = p /\ Target[r] = a
      BY <1>1, <2>2 DEF AgentAnswer, TypeOK, Executed
    <3>2. servedAt'[r] = Append(<<>>, emitted[a])
      BY <1>1, <2>2, <3>1 DEF AgentAnswer, TypeOK, Executed
    <3>3. Head(Append(<<>>, emitted[a])) = emitted[a]
      <4>1. emitted[a] \in Nat
        BY <1>3
      <4> QED BY ONLY <4>1
    <3> QED BY <1>3, <3>1, <3>2, <3>3
  <2> QED BY <2>1, <2>2
<1>9. AnswersAreBehind'
  <2> SUFFICES ASSUME NEW r \in Requests, Target[r] \in Agents \ Silent, NEW i \in Nat,
                      InLine(Target[r], i, AnswerLine(r))', NEW n \in 1..Head(servedAt'[r])
               PROVE  \/ Traced(EventRow(Target[r], n))
                      \/ \E j \in Nat : j < i /\ InLine(Target[r], j, EventLine(n))'
    BY <1>3 DEF AnswersAreBehind
  <2>1. CASE InLine(Target[r], i, AnswerLine(r))
    <3>1. Executed(r)
      BY <2>1 DEF LinesAreExecuted, InLine, AnswerLine
    <3>2. Head(servedAt'[r]) = Head(servedAt[r])
      BY <3>1, FirstServiceStays
    <3> QED BY <1>2, <2>1, <3>2 DEF AnswersAreBehind
  <2>2. CASE Target[r] = a /\ i = N /\ AnswerLine(r) = AnswerLine(p)
    <3>1. r = p
      BY <2>2, LinesAndRowsDiffer
    <3>2. Executed(r)'
      <4>1. servedAt[r] \in Seq(Nat) /\ emitted[a] \in Nat
        BY DEF TypeOK
      <4>2. Append(servedAt[r], emitted[a]) # <<>>
        BY ONLY <4>1, AppendProperties
      <4> QED BY <1>1, <2>2, <3>1, <4>2 DEF AgentAnswer, TypeOK, Executed
    <3>3. n \in 1..emitted[a]
      BY <1>3, <1>8, <2>2, <3>2 DEF ServedInTime
    <3> QED BY <1>2, <2>2, <3>3 DEF NoneIsLost
  <2> QED BY <1>2, <2>1, <2>2
<1>10. RowsIncrease'
  BY <1>3 DEF RowsIncrease
<1> QED BY <1>5, <1>6, <1>7, <1>8, <1>9, <1>10

(* An event in the line is there one place further on, or becomes a row.    *)
LEMMA FrontOrBehind ==
    ASSUME TypeOK, NEW a \in Agents, outbox[a] # <<>>,
           outbox' = [outbox EXCEPT ![a] = Tail(outbox[a])],
           \/ trace' = trace /\ (a \in Silent \/ \A n : Head(outbox[a]) # EventLine(n))
           \/ \E n \in Nat : Head(outbox[a]) = EventLine(n) /\ trace' = Append(trace, EventRow(a, n)),
           NEW b \in Agents \ Silent, NEW n \in Nat, NEW i \in Nat, InLine(b, i, EventLine(n))
    PROVE  \/ Traced(EventRow(b, n))'
           \/ \E j \in Nat : (b = a => j < i) /\ InLine(b, j, EventLine(n))'
<1>1. CASE b # a
  BY <1>1, OutboxLess
<1>2. CASE b = a /\ i = 1
  <2>1. Head(outbox[a]) = EventLine(n)
    BY <1>2, OutboxLess
  <2>2. PICK m \in Nat : EventLine(n) = EventLine(m) /\ trace' = Append(trace, EventRow(a, m))
    BY <1>2, <2>1
  <2>3. m = n
    BY <2>2, LinesAndRowsDiffer
  <2> QED BY <1>2, <2>2, <2>3, RowMore, Constructors
<1>3. CASE b = a /\ i # 1
  <2>1. i # 0
    BY DEF InLine
  <2>2. PICK j \in Nat : j = i - 1 /\ j # 0
    BY <1>3, <2>1
  <2>3. InLine(a, j, EventLine(n))'
    <3>1. j + 1 = i
      BY <2>2
    <3>2. InLine(a, j + 1, EventLine(n))
      BY <1>3, <3>1
    <3>3. \A k \in Nat : InLine(a, k, EventLine(n))' <=> k # 0 /\ InLine(a, k + 1, EventLine(n))
      BY OutboxLess
    <3> QED BY <2>2, <3>2, <3>3
  <2> QED BY <1>3, <2>2, <2>3
<1> QED BY <1>1, <1>2, <1>3

(* The reader takes the front of the line: an event of a silent agent is    *)
(* dropped, another one becomes the last row.                               *)
LEMMA ReadKeepsLines ==
    ASSUME TypeOK, LineInv, NEW a \in Agents, outbox[a] # <<>>,
           outbox' = [outbox EXCEPT ![a] = Tail(outbox[a])], UNCHANGED <<emitted, servedAt>>,
           \/ trace' = trace /\ (a \in Silent \/ \A n : Head(outbox[a]) # EventLine(n))
           \/ \E n \in Nat : Head(outbox[a]) = EventLine(n) /\ trace' = Append(trace, EventRow(a, n))
    PROVE  LineInv'
<1> USE DEF LineInv
<1>1. /\ InLine(a, 1, Head(outbox[a]))
      /\ \A k : InLine(a, 1, k) => k = Head(outbox[a])
      /\ \A i \in Nat : \A k : InLine(a, i, k)' <=> i # 0 /\ InLine(a, i + 1, k)
      /\ \A b \in Agents : b # a => \A i \in Nat : \A k : InLine(b, i, k)' <=> InLine(b, i, k)
  BY OutboxLess
<1>2. \A y : Traced(y) => Traced(y)'
  BY TracedStays, Constructors
<1>3. \A b \in Agents, m \in Nat : Traced(EventRow(b, m))' =>
        Traced(EventRow(b, m)) \/ (b = a /\ Head(outbox[a]) = EventLine(m))
  <2>1. CASE trace' = trace
    BY <2>1 DEF Traced
  <2>2. ASSUME NEW n \in Nat, Head(outbox[a]) = EventLine(n), trace' = Append(trace, EventRow(a, n))
        PROVE  \A b \in Agents, m \in Nat : Traced(EventRow(b, m))' =>
                 Traced(EventRow(b, m)) \/ (b = a /\ Head(outbox[a]) = EventLine(m))
    BY <2>2, RowMore, Constructors, LinesAndRowsDiffer
  <2> QED BY <2>1, <2>2
<1>4. LinesIncrease'
  <2> SUFFICES ASSUME NEW b \in Agents, NEW m \in Nat, NEW n \in Nat, NEW i \in Nat, NEW j \in Nat,
                      InLine(b, i, EventLine(m))', InLine(b, j, EventLine(n))', i < j
               PROVE  m < n
    BY DEF LinesIncrease
  <2>1. CASE b = a
    <3>1. InLine(a, i + 1, EventLine(m)) /\ InLine(a, j + 1, EventLine(n)) /\ i + 1 < j + 1
      BY <1>1, <2>1
    <3> QED BY <3>1 DEF LinesIncrease
  <2>2. CASE b # a
    BY <1>1, <2>2 DEF LinesIncrease
  <2> QED BY <2>1, <2>2
<1>5. LinesAreEmitted'
  <2> SUFFICES ASSUME NEW b \in Agents, NEW n \in Nat, NEW i \in Nat, InLine(b, i, EventLine(n))'
               PROVE  n <= emitted[b]
    BY DEF LinesAreEmitted
  <2>1. InLine(b, i, EventLine(n)) \/ InLine(b, i + 1, EventLine(n))
    BY <1>1
  <2> QED BY <2>1 DEF LinesAreEmitted
<1>6. RowsAreBehind'
  <2> SUFFICES ASSUME NEW b \in Agents, NEW m \in Nat, Traced(EventRow(b, m))'
               PROVE  /\ m <= emitted[b]
                      /\ \A n \in Nat : \A i \in Nat : InLine(b, i, EventLine(n))' => m < n
    BY DEF RowsAreBehind
  <2>1. CASE Traced(EventRow(b, m))
    <3>1. m <= emitted[b]
      BY <2>1 DEF RowsAreBehind
    <3>2. ASSUME NEW n \in Nat, NEW i \in Nat, InLine(b, i, EventLine(n))'
          PROVE  m < n
      <4>1. InLine(b, i, EventLine(n)) \/ InLine(b, i + 1, EventLine(n))
        BY <1>1, <3>2
      <4> QED BY <2>1, <4>1 DEF RowsAreBehind
    <3> QED BY <3>1, <3>2
  <2>2. CASE b = a /\ Head(outbox[a]) = EventLine(m)
    <3>1. InLine(a, 1, EventLine(m))
      BY <1>1, <2>2
    <3>2. m <= emitted[b]
      BY <2>2, <3>1 DEF LinesAreEmitted
    <3>3. ASSUME NEW n \in Nat, NEW i \in Nat, InLine(b, i, EventLine(n))'
          PROVE  m < n
      <4>1. InLine(a, i + 1, EventLine(n)) /\ 1 < i + 1
        BY <1>1, <2>2, <3>3
      <4> QED BY <3>1, <4>1 DEF LinesIncrease
    <3> QED BY <3>2, <3>3
  <2> QED BY <1>3, <2>1, <2>2
<1>7. NoneIsLost'
  <2> SUFFICES ASSUME NEW b \in Agents \ Silent, NEW n \in 1..emitted[b]
               PROVE  Traced(EventRow(b, n))' \/ \E i \in Nat : InLine(b, i, EventLine(n))'
    BY DEF NoneIsLost
  <2>1. CASE Traced(EventRow(b, n))
    BY <1>2, <2>1
  <2>2. ASSUME NEW i \in Nat, InLine(b, i, EventLine(n))
        PROVE  Traced(EventRow(b, n))' \/ \E j \in Nat : InLine(b, j, EventLine(n))'
    <3>1. n \in Nat
      BY DEF TypeOK
    <3> QED BY <2>2, <3>1, FrontOrBehind
  <2> QED BY <2>1, <2>2 DEF NoneIsLost
<1>8. AnswersAreBehind'
  <2> SUFFICES ASSUME NEW r \in Requests, Target[r] \in Agents \ Silent, NEW i \in Nat,
                      InLine(Target[r], i, AnswerLine(r))', NEW n \in 1..Head(servedAt[r])
               PROVE  \/ Traced(EventRow(Target[r], n))'
                      \/ \E j \in Nat : j < i /\ InLine(Target[r], j, EventLine(n))'
    BY DEF AnswersAreBehind
  <2>1. CASE Target[r] # a
    <3>1. InLine(Target[r], i, AnswerLine(r))
      BY <1>1, <2>1
    <3> QED BY <1>1, <1>2, <2>1, <3>1 DEF AnswersAreBehind
  <2>2. CASE Target[r] = a
    <3>1. InLine(a, i + 1, AnswerLine(r)) /\ i + 1 \in Nat
      BY <1>1, <2>2
    <3>2. CASE Traced(EventRow(a, n))
      BY <1>2, <2>2, <3>2
    <3>3. ASSUME NEW j \in Nat, j < i + 1, InLine(a, j, EventLine(n))
          PROVE  \/ Traced(EventRow(a, n))'
                 \/ \E k \in Nat : k < i /\ InLine(a, k, EventLine(n))'
      <4>1. n \in Nat
        OBVIOUS
      <4>2. \/ Traced(EventRow(a, n))'
            \/ \E k \in Nat : (a = a => k < j) /\ InLine(a, k, EventLine(n))'
        BY <2>2, <3>3, <4>1, FrontOrBehind
      <4> QED BY <3>3, <4>2
    <3> QED BY <2>2, <3>1, <3>2, <3>3 DEF AnswersAreBehind
  <2> QED BY <2>1, <2>2
<1>9. ServedInTime'
  BY DEF ServedInTime, Executed
<1>10. RowsIncrease'
  <2>1. CASE trace' = trace
    BY <2>1 DEF RowsIncrease
  <2>2. ASSUME NEW k \in Nat, Head(outbox[a]) = EventLine(k), trace' = Append(trace, EventRow(a, k))
        PROVE  RowsIncrease'
    <3> SUFFICES ASSUME NEW b \in Agents, NEW m \in Nat, NEW n \in Nat,
                        NEW i \in DOMAIN trace', NEW j \in DOMAIN trace',
                        trace'[i] = EventRow(b, m), trace'[j] = EventRow(b, n), i < j
                 PROVE  m < n
      BY DEF RowsIncrease
    <3>1. i \in DOMAIN trace /\ trace[i] = EventRow(b, m)
      BY <2>2, RowMore, Constructors
    <3>2. CASE j \in DOMAIN trace
      BY <2>2, <3>1, <3>2, RowMore, Constructors DEF RowsIncrease
    <3>3. CASE j = Len(trace) + 1
      <4>1. b = a /\ n = k
        BY <2>2, <3>3, RowMore, Constructors, LinesAndRowsDiffer
      <4>2. Traced(EventRow(a, m)) /\ InLine(a, 1, EventLine(n))
        BY <1>1, <2>2, <3>1, <4>1 DEF Traced
      <4> QED BY <4>2 DEF RowsAreBehind
    <3> QED BY <2>2, <3>2, <3>3, RowMore, Constructors
  <2> QED BY <2>1, <2>2
<1> QED BY <1>4, <1>5, <1>6, <1>7, <1>8, <1>9, <1>10

LEMMA AgentKeepsOrder ==
    ASSUME OrderInv, NEW a \in Agents, Agent(a)
    PROVE  OrderInv'
<1> USE DEF OrderInv
<1>1. AnswerInv' /\ TypeOK /\ LinesAreExecuted
  BY AgentKeepsAnswers DEF AnswerInv
<1>2. UNCHANGED <<trace, held, slot, pc>> /\ (AgentAnswer(a) \/ servedAt' = servedAt)
  BY DEF Agent, AgentAnswer, AgentEmit, AgentDies, handlerVars, readerVars
<1>3. LineInv'
  <2>1. CASE AgentDies(a)
    BY <2>1, LinesUntouched DEF AgentDies, handlerVars
  <2> QED BY <1>1, <2>1, AnswerKeepsLines, EmitKeepsLines DEF Agent
<1>4. \A r \in Requests : Executed(r) /\ EarlyAreTraced(r) => EarlyAreTraced(r)'
  BY <1>1, <1>2, EarlyStay
<1>5. (\A b \in Agents : held[b] # NoRequest => EarlyAreTraced(held[b]))'
  BY <1>1, <1>2, <1>4 DEF ArrivedInv, AnswerInv, HeldAreExecuted, TypeOK
<1>6. /\ (\A r \in Requests : slot[r] => EarlyAreTraced(r))'
      /\ (\A r \in Requests : pc[r] \in {"pop_answer", "trace_answer"} => EarlyAreTraced(r))'
  BY <1>2, <1>4 DEF ArrivedInv, AnswerInv, SlotsAreExecuted, TakenAreExecuted
<1>7. \A r \in Requests : Executed(r) =>
          Executed(r)' /\ Head(servedAt'[r]) = Head(servedAt[r])
  BY <1>1, <1>2, FirstServiceStays
<1>8. (\A r \in Requests : Target[r] \in Agents /\ Traced(ResponseRow(r)) => Executed(r))'
  BY <1>2, <1>7 DEF ArrivedInv, Traced
<1>9. (\A r \in Requests : AnswerRowIsLate(r))'
  <2> SUFFICES ASSUME NEW r \in Requests, Target[r] \in Agents \ Silent,
                      NEW n \in 1..Head(servedAt'[r])
               PROVE  Precedes(EventRow(Target[r], n), ResponseRow(r))
    BY <1>2 DEF AnswerRowIsLate, Precedes
  <2>1. CASE Executed(r)
    BY <1>7, <2>1 DEF ArrivedInv, AnswerRowIsLate
  <2>2. CASE ~Executed(r)
    BY <2>2 DEF ArrivedInv, Precedes, Traced
  <2> QED BY <2>1, <2>2
<1>10. ArrivedInv'
  BY <1>2, <1>5, <1>6, <1>8, <1>9 DEF ArrivedInv
<1> QED BY <1>1, <1>3, <1>10

(* What a step of the reader does to the line, the trace and its hands.     *)
LEMMA ReaderTakesFront ==
    ASSUME TypeOK, NEW a \in Agents, ReadEvent(a) \/ ReadAnswer(a)
    PROVE  /\ outbox[a] # <<>>
           /\ outbox' = [outbox EXCEPT ![a] = Tail(outbox[a])]
           /\ UNCHANGED <<emitted, servedAt, slot, pc>>
           /\ \/ trace' = trace /\ (a \in Silent \/ \A n : Head(outbox[a]) # EventLine(n))
              \/ \E n \in Nat : Head(outbox[a]) = EventLine(n) /\ trace' = Append(trace, EventRow(a, n))
<1>1. outbox[a] # <<>> /\ outbox[a] \in Seq(Line)
  BY DEF ReadEvent, ReadAnswer, TypeOK
<1>2. Head(outbox[a]) \in Line
  BY <1>1, HeadOfLines
<1>3. UNCHANGED <<emitted, servedAt, slot, pc>>
  BY DEF ReadEvent, ReadAnswer, readerVars, handlerVars
<1>4. CASE ReadEvent(a)
  <2>1. PICK n \in Nat : Head(outbox[a]) = EventLine(n) /\ n = Head(outbox[a]).id
    BY <1>2, <1>4 DEF ReadEvent, Line, EventLine
  <2> QED BY <1>1, <1>3, <1>4, <2>1 DEF ReadEvent
<1>5. CASE ReadAnswer(a)
  BY <1>1, <1>3, <1>5 DEF ReadAnswer, handlerVars, EventLine
<1> QED BY <1>4, <1>5

LEMMA ReaderKeepsOrder ==
    ASSUME OrderInv, NEW a \in Agents, Reader(a)
    PROVE  OrderInv'
<1> USE DEF OrderInv
<1>1. AnswerInv' /\ TypeOK
  BY ReaderKeepsAnswers DEF AnswerInv
<1>2. CASE PutAnswer(a)
  <2>1. UNCHANGED <<outbox, emitted, servedAt, pc, trace>>
    BY <1>2 DEF PutAnswer, agentVars, handlerVars
  <2>2. LineInv'
    BY <2>1, LinesUntouched
  <2>3. \A r \in Requests :
          /\ EarlyAreTraced(r)' <=> EarlyAreTraced(r)
          /\ AnswerRowIsLate(r)' <=> AnswerRowIsLate(r)
          /\ Traced(ResponseRow(r))' <=> Traced(ResponseRow(r))
          /\ Executed(r)' <=> Executed(r)
    BY <2>1 DEF EarlyAreTraced, AnswerRowIsLate, Precedes, Traced, Executed
  <2>4. (\A b \in Agents : held[b] # NoRequest => EarlyAreTraced(held[b]))'
    <3>1. \A b \in Agents : held'[b] # NoRequest => held'[b] = held[b] /\ held[b] \in Requests
      BY <1>1, <1>2 DEF PutAnswer, TypeOK
    <3> QED BY <2>3, <3>1 DEF ArrivedInv
  <2>5. (\A r \in Requests : slot[r] => EarlyAreTraced(r))'
    <3>1. \A r \in Requests : slot'[r] => slot[r] \/ (held[a] = r /\ held[a] # NoRequest)
      BY <1>1, <1>2 DEF PutAnswer, TypeOK
    <3> QED BY <2>3, <3>1 DEF ArrivedInv
  <2>6. ArrivedInv'
    BY <2>1, <2>3, <2>4, <2>5 DEF ArrivedInv
  <2> QED BY <1>1, <2>2, <2>6
<1>3. CASE ReadEvent(a) \/ ReadAnswer(a)
  <2>1. /\ outbox[a] # <<>>
        /\ outbox' = [outbox EXCEPT ![a] = Tail(outbox[a])]
        /\ UNCHANGED <<emitted, servedAt, slot, pc>>
        /\ \/ trace' = trace /\ (a \in Silent \/ \A n : Head(outbox[a]) # EventLine(n))
           \/ \E n \in Nat : Head(outbox[a]) = EventLine(n) /\ trace' = Append(trace, EventRow(a, n))
    BY <1>1, <1>3, ReaderTakesFront
  <2>2. LineInv'
    BY <1>1, <2>1, ReadKeepsLines
  <2>3. \A r \in Requests : EarlyAreTraced(r) => EarlyAreTraced(r)'
    <3>1. \A y : Traced(y) => Traced(y)'
      BY <1>1, <2>1, TracedStays, Constructors
    <3> QED BY <2>1, <3>1 DEF EarlyAreTraced
  <2>4. (\A b \in Agents : held[b] # NoRequest => EarlyAreTraced(held[b]))'
    <3> SUFFICES ASSUME NEW b \in Agents, held'[b] # NoRequest
                 PROVE  EarlyAreTraced(held[b])'
      OBVIOUS
    <3>1. CASE held'[b] = held[b]
      BY <1>1, <2>3, <3>1 DEF ArrivedInv, TypeOK, EarlyAreTraced
    <3>2. CASE held'[b] # held[b]
      <4>1. b = a /\ ReadAnswer(a)
        BY <1>1, <1>3, <3>2 DEF ReadEvent, readerVars, ReadAnswer, TypeOK
      <4>2. PICK r \in Requests : /\ r = Head(outbox[a]).id /\ r \in pending[a]
                                  /\ Head(outbox[a]) = AnswerLine(r) /\ held'[b] = r
        <5>1. Head(outbox[a]) \in Line
          BY <1>1, <2>1, HeadOfLines DEF TypeOK
        <5>2. Head(outbox[a]).id \in pending[a] /\ held'[b] = Head(outbox[a]).id
          BY <1>1, <3>2, <4>1 DEF ReadAnswer, TypeOK
        <5> QED BY <4>1, <5>1, <5>2 DEF ReadAnswer, Line, AnswerLine
      <4>3. Target[r] = a
        BY <4>2 DEF AnswerInv, PendingAreTargeted
      <4>4. /\ InLine(a, 1, AnswerLine(r))
            /\ \A n \in Nat : ~InLine(a, 1, EventLine(n))
        BY <1>1, <2>1, <4>2, OutboxLess, LinesAndRowsDiffer, ZenonT(30)
      <4>5. EarlyAreTraced(r)
        <5> SUFFICES ASSUME a \notin Silent, NEW n \in 1..Head(servedAt[r])
                     PROVE  Traced(EventRow(a, n))
          BY <4>3 DEF EarlyAreTraced
        <5>1. \A j \in Nat : j < 1 => ~InLine(a, j, EventLine(n))
          BY DEF InLine
        <5> QED BY <4>3, <4>4, <5>1 DEF LineInv, AnswersAreBehind
      <4>6. EarlyAreTraced(r)'
        BY <2>3, <4>5
      <4> QED BY <4>2, <4>6 DEF EarlyAreTraced
    <3> QED BY <3>1, <3>2
  <2>5. /\ (\A r \in Requests : slot[r] => EarlyAreTraced(r))'
        /\ (\A r \in Requests : pc[r] \in {"pop_answer", "trace_answer"} => EarlyAreTraced(r))'
        /\ (\A r \in Requests : pc[r] \in {"spawn", "fanout"} => Kind[r] = "topic")'
    BY <2>1, <2>3 DEF ArrivedInv
  <2>6. (\A r \in Requests : Target[r] \in Agents /\ Traced(ResponseRow(r)) => Executed(r))'
    <3>1. \A r \in Requests : Traced(ResponseRow(r))' => Traced(ResponseRow(r))
      <4>1. CASE trace' = trace
        BY <4>1 DEF Traced
      <4>2. ASSUME NEW n \in Nat, trace' = Append(trace, EventRow(a, n))
            PROVE  \A r \in Requests : Traced(ResponseRow(r))' => Traced(ResponseRow(r))
        BY <1>1, <4>2, RowMore, Constructors, LinesAndRowsDiffer
      <4> QED BY <2>1, <4>1, <4>2
    <3> QED BY <2>1, <3>1 DEF ArrivedInv, Executed
  <2>7. (\A r \in Requests : AnswerRowIsLate(r))'
    <3> SUFFICES ASSUME NEW r \in Requests
                 PROVE  AnswerRowIsLate(r)'
      OBVIOUS
    <3>1. \/ trace' = trace
          \/ \E x \in Row : trace' = Append(trace, x) /\ (x = ResponseRow(r) => EarlyAreTraced(r))
      BY <2>1, Constructors, LinesAndRowsDiffer
    <3> QED BY <1>1, <2>1, <3>1, RowKeepsOrder DEF ArrivedInv
  <2>8. ArrivedInv'
    BY <2>4, <2>5, <2>6, <2>7 DEF ArrivedInv
  <2> QED BY <1>1, <2>2, <2>8
<1> QED BY <1>2, <1>3 DEF Reader

(* The events of one agent are traced in the order it emitted them, and     *)
(* what it emitted before it answered a request stands before the answer,   *)
(* whatever handler threads append in between (broker.py:169-224, 331-334); *)
(* a publish has no agent that answers it.                                  *)
THEOREM EventOrder ==
    ASSUME PublishesHaveNoTarget
    PROVE  Spec => []EventsAreOrdered
<1>1. Init => OrderInv
  <2> SUFFICES ASSUME Init  PROVE OrderInv
    OBVIOUS
  <2>1. AnswerInv
    BY DEF Init, AnswerInv, TypeOK, Codes, Locations, LinesAreExecuted, HeldAreExecuted,
       SlotsAreExecuted, TakenAreExecuted, PendingAreTargeted, AnswersAreOwn
  <2>2. \A a \in Agents : \A i, l : ~InLine(a, i, l)
    BY DEF Init, InLine
  <2>3. \A y : ~Traced(y)
    BY DEF Init, Traced
  <2>4. \A r \in Requests : ~Executed(r)
    BY DEF Init, Executed
  <2>5. LinesIncrease /\ LinesAreEmitted /\ RowsAreBehind /\ AnswersAreBehind /\ ServedInTime
    BY <2>2, <2>3, <2>4
    DEF LinesIncrease, LinesAreEmitted, RowsAreBehind, AnswersAreBehind, ServedInTime
  <2>6. NoneIsLost /\ RowsIncrease
    BY DEF Init, NoneIsLost, RowsIncrease
  <2>7. ArrivedInv
    BY <2>3, <2>4 DEF Init, ArrivedInv, AnswerRowIsLate
  <2> QED BY <2>1, <2>5, <2>6, <2>7 DEF OrderInv, LineInv
<1>2. OrderInv /\ [Next]_vars => OrderInv'
  <2> SUFFICES ASSUME OrderInv, [Next]_vars  PROVE OrderInv'
    OBVIOUS
  <2>1. CASE Next
    BY <2>1, HandlerKeepsOrder, ReaderKeepsOrder, AgentKeepsOrder DEF Next
  <2>2. CASE UNCHANGED vars
    <3>1. AnswerInv'
      BY <2>2 DEF OrderInv, vars, agentVars, handlerVars, readerVars, AnswerInv, TypeOK, Executed,
         LinesAreExecuted, HeldAreExecuted, SlotsAreExecuted, TakenAreExecuted,
         PendingAreTargeted, AnswersAreOwn
    <3>2. LineInv'
      BY <2>2, LinesUntouched DEF OrderInv, vars, agentVars
    <3>3. ArrivedInv'
      BY <2>2 DEF OrderInv, vars, agentVars, handlerVars, readerVars, ArrivedInv, EarlyAreTraced,
         AnswerRowIsLate, Precedes, Traced, Executed
    <3> QED BY <3>1, <3>2, <3>3 DEF OrderInv
  <2> QED BY <2>1, <2>2
<1>3. OrderInv => EventsAreOrdered
  <2> SUFFICES ASSUME OrderInv  PROVE EventsAreOrdered
    OBVIOUS
  <2>1. \A x \in Row : x.type = "event" => x.of \in Agents /\ x.n \in Nat /\ x = EventRow(x.of, x.n)
    BY DEF Row, EventRow
  <2>2. \A i \in DOMAIN trace : trace[i] \in Row
    BY DEF OrderInv, AnswerInv, TypeOK
  <2>3. ASSUME NEW i \in DOMAIN trace, NEW j \in DOMAIN trace,
               trace[i].type = "event", trace[j].type = "event", trace[i].of = trace[j].of, i < j
        PROVE  trace[i].n < trace[j].n
    BY <2>1, <2>2, <2>3 DEF OrderInv, LineInv, RowsIncrease
  <2>4. ASSUME NEW r \in Requests, Target[r] \in Agents \ Silent, servedAt[r] # <<>>,
               NEW n \in 1..Head(servedAt[r])
        PROVE  Precedes(EventRow(Target[r], n), ResponseRow(r))
    BY <2>4 DEF OrderInv, ArrivedInv, AnswerRowIsLate, Executed
  <2> QED BY <2>3, <2>4 DEF EventsAreOrdered
<1> QED BY <1>1, <1>2, <1>3, PTL DEF Spec
=============================================================================
