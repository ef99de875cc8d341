--------------------------- MODULE DesktopSession ---------------------------
(***************************************************************************)
(* How the Desktop connects a chat to its broker and keeps its trace in    *)
(* view: the renderer (DesktopSessionContext.tsx) and the pool of trace    *)
(* sockets in the main process (traceSocketPool.ts).                       *)
(*                                                                         *)
(* connectToBroker and resubscribeTrace are async functions: each call is  *)
(* a flow whose steps are what runs between two awaits, so flows overlap   *)
(* and a flow may outlive the chat it was started for.  A broker here is   *)
(* down, starting (spawned, its socket not bound), up or a zombie, dead    *)
(* but not yet reaped; an endpoint is known by its chat.  The supervisor   *)
(* answers every command.  A row that is sent to a connected socket        *)
(* arrives; the rows a broker skips for a slow reader are not modelled.    *)
(***************************************************************************)
EXTENDS Naturals, FiniteSets

CONSTANTS
    Chats,
    None,
    MaxFlows,     \* bound: calls in flight; an event that finds as many
                  \* in flight starts no other
    MaxSockets,   \* bound: sockets not yet closed
    MaxMoves,     \* bound: switches of the active chat and presses of the
                  \* stop button, together
    MaxCrashes,   \* bound: brokers that die on their own
    MaxRows       \* bound: rows a chat's trace gets

ASSUME DesktopAssumption ==
    /\ None \notin Chats
    /\ {MaxFlows, MaxSockets} \subseteq Nat \ {0}
    /\ {MaxMoves, MaxCrashes, MaxRows} \subseteq Nat

VARIABLES
    active,      \* the chat on the screen
    endpoint,    \* brokerEndpoint: the chat whose broker it leads to, or None
    subscribed,  \* subChatIdRef: the chat the last connect subscribed, or None
    view,        \* rawTraceRows: rows as pairs of a chat and a number
    flow,        \* the calls in flight
    clients,     \* the pool's map: the socket of each chat, 0 without one
    sock,        \* every socket, with the chat it is tagged with
    broker,
    rows,        \* how many rows each chat's trace file has
    budget,      \* what is left of the bounded events
    leftEarly    \* history: the chats left while a call was in flight

rendererVars == <<active, endpoint, subscribed, view>>
poolVars == <<clients, sock>>
brokerVars == <<broker, rows>>
vars == <<rendererVars, flow, poolVars, brokerVars, budget, leftEarly>>

Flows == 1..MaxFlows
Sockets == 1..MaxSockets

IdleFlow == [pc |-> "idle", chat |-> None, ep |-> None]
ClosedSocket == [st |-> "closed", tag |-> None, ep |-> None]

Flow == [pc : {"idle", "stop", "start", "create", "read", "subscribe",
               "timer", "reread", "resubscribe"},
         chat : Chats \cup {None}, ep : Chats \cup {None}]

Socket == [st : {"closed", "connecting", "open", "destroyed"},
           tag : Chats \cup {None}, ep : Chats \cup {None}]

TypeOK ==
    /\ active \in Chats
    /\ endpoint \in Chats \cup {None}
    /\ subscribed \in Chats \cup {None}
    /\ view \in SUBSET (Chats \X (1..MaxRows))
    /\ flow \in [Flows -> Flow]
    /\ clients \in [Chats -> 0..MaxSockets]
    /\ sock \in [Sockets -> Socket]
    /\ broker \in [Chats -> {"down", "starting", "up", "zombie"}]
    /\ rows \in [Chats -> 0..MaxRows]
    /\ budget \in [move : 0..MaxMoves, crash : 0..MaxCrashes]
    /\ leftEarly \subseteq Chats

(* The first effect has run: the connect of the first chat is under way. *)
Init ==
    /\ active \in Chats
    /\ endpoint = None
    /\ subscribed = None
    /\ view = {}
    /\ flow = [[f \in Flows |-> IdleFlow] EXCEPT ![1] = [pc |-> "start", chat |-> active, ep |-> None]]
    /\ clients = [c \in Chats |-> 0]
    /\ sock = [s \in Sockets |-> ClosedSocket]
    /\ broker = [c \in Chats |-> "down"]
    /\ rows = [c \in Chats |-> 0]
    /\ budget = [move |-> MaxMoves, crash |-> MaxCrashes]
    /\ leftEarly = {}

-----------------------------------------------------------------------------
(* Flows.                                                                   *)

FreeFlows == {f \in Flows : flow[f].pc = "idle"}

(* a new call, started in the same step *)
Begin(record) == flow' = [flow EXCEPT ![CHOOSE f \in FreeFlows : TRUE] = record]

Goto(f, pc) == flow' = [flow EXCEPT ![f].pc = pc]

Return(f) == flow' = [flow EXCEPT ![f] = IdleFlow]

Destroy(s) == [sock EXCEPT ![s].st = "destroyed"]

(* traceUnsubscribe *)
Unsubscribe(c) ==
    IF clients[c] = 0 THEN UNCHANGED poolVars
    ELSE /\ sock' = Destroy(clients[c])
         /\ clients' = [clients EXCEPT ![c] = 0]

(* requestStopAgent, after its row is written: stop_broker. *)
StopBroker(f) ==
    /\ flow[f].pc = "stop"
    /\ broker' = [broker EXCEPT ![flow[f].chat] = "down"]
    /\ Goto(f, "start")
    /\ UNCHANGED <<rendererVars, poolVars, rows, budget, leftEarly>>

(* connectToBroker: another chat's subscription is given up. *)
ConnectStart(f) ==
    /\ flow[f].pc = "start"
    /\ IF subscribed \notin {None, flow[f].chat} THEN Unsubscribe(subscribed) ELSE UNCHANGED poolVars
    /\ Goto(f, "create")
    /\ UNCHANGED <<rendererVars, brokerVars, budget, leftEarly>>

(* A spawn, of whatever chat's broker, reaps the zombies there are.         *)
Spawn(c) ==
    [d \in Chats |-> IF d = c THEN "starting" ELSE IF broker[d] = "zombie" THEN "down" ELSE broker[d]]

(* create_or_get_broker hands out a broker whose process is there, be it a  *)
(* zombie, and answers before a new one has bound its socket; the endpoint  *)
(* is set whatever chat is active by now.                                   *)
ConnectCreate(f) ==
    /\ flow[f].pc = "create"
    /\ broker' = IF broker[flow[f].chat] = "down" THEN Spawn(flow[f].chat) ELSE broker
    /\ endpoint' = flow[f].chat
    /\ Goto(f, "read")
    /\ UNCHANGED <<active, subscribed, view, poolVars, rows, budget, leftEarly>>

(* After its 800 ms resubscribeTrace has the endpoint of the moment the     *)
(* channel event came, and the chat of this moment.                         *)
ResubscribeStart(f) ==
    /\ flow[f].pc = "timer"
    /\ Unsubscribe(active)
    /\ flow' = [flow EXCEPT ![f] = [pc |-> "reread", chat |-> active, ep |-> @.ep]]
    /\ UNCHANGED <<rendererVars, brokerVars, budget, leftEarly>>

(* A connect subscribes to the endpoint it was given. *)
AfterRead(call) ==
    IF call.pc = "read" THEN [call EXCEPT !.pc = "subscribe", !.ep = call.chat]
    ELSE [call EXCEPT !.pc = "resubscribe"]

(* readDurableTraceRows: what the chat's trace file holds. *)
Durable(c) == {<<c, n>> : n \in 1..rows[c]}

(* mergeRows, which asks nothing about the chat; a row is shown once. *)
MergeRows(new) == view' = view \cup new

(* Mutant: a resubscription relies on the rows already in view. *)
ReadDurable_ConnectOnly(f) ==
    /\ flow[f].pc \in {"read", "reread"}
    /\ MergeRows(IF flow[f].pc = "reread" THEN {} ELSE Durable(flow[f].chat))
    /\ flow' = [flow EXCEPT ![f] = AfterRead(@)]
    /\ UNCHANGED <<active, endpoint, subscribed, poolVars, brokerVars, budget, leftEarly>>

(* traceReadDurable, awaited, and mergeRows. *)
ReadDurable(f) ==
    /\ flow[f].pc \in {"read", "reread"}
    /\ MergeRows(Durable(flow[f].chat))
    /\ flow' = [flow EXCEPT ![f] = AfterRead(@)]
    /\ UNCHANGED <<active, endpoint, subscribed, poolVars, brokerVars, budget, leftEarly>>

(* traceSubscribe: the chat's old socket is destroyed, a new one connects. *)
Subscribe(f) ==
    \E s \in {t \in Sockets : sock[t].st = "closed"} :
        LET c == flow[f].chat
            old == clients[c] IN
        /\ flow[f].pc \in {"subscribe", "resubscribe"}
        /\ sock' = [t \in Sockets |->
                      IF t = s THEN [st |-> "connecting", tag |-> c, ep |-> flow[f].ep]
                      ELSE IF t = old THEN Destroy(t)[t] ELSE sock[t]]
        /\ clients' = [clients EXCEPT ![c] = s]
        /\ subscribed' = IF flow[f].pc = "subscribe" THEN c ELSE subscribed
        /\ Return(f)
        /\ UNCHANGED <<active, endpoint, view, brokerVars, budget, leftEarly>>

-----------------------------------------------------------------------------
(* Sockets of the pool, and the channel events they cause.                  *)

(* "end" or "error" reaches the renderer: for the active chat, a timer.     *)
(* Without an endpoint the call would return at once.                       *)
ChannelEvent(tag) ==
    IF tag = active /\ endpoint # None /\ FreeFlows # {}
    THEN Begin([pc |-> "timer", chat |-> None, ep |-> endpoint])
    ELSE UNCHANGED flow

Connected(s) ==
    /\ sock[s].st = "connecting"
    /\ broker[sock[s].ep] = "up"
    /\ sock' = [sock EXCEPT ![s].st = "open"]
    /\ UNCHANGED <<rendererVars, flow, clients, brokerVars, budget, leftEarly>>

(* The error handler; the close event of the same socket follows. *)
Refused(s) ==
    /\ sock[s].st = "connecting"
    /\ broker[sock[s].ep] # "up"
    /\ sock' = Destroy(s)
    /\ clients' = [clients EXCEPT ![sock[s].tag] = 0]
    /\ ChannelEvent(sock[s].tag)
    /\ UNCHANGED <<rendererVars, brokerVars, budget, leftEarly>>

(* The broker's end is closed: the socket closes without an error. *)
Closes(s) ==
    /\ sock[s].st = "open"
    /\ broker[sock[s].ep] # "up"
    /\ sock' = Destroy(s)
    /\ UNCHANGED <<rendererVars, flow, clients, brokerVars, budget, leftEarly>>

(* The close handler: it removes whatever socket the chat has by now. *)
CloseEvent(s) ==
    /\ sock[s].st = "destroyed"
    /\ sock' = [sock EXCEPT ![s] = ClosedSocket]
    /\ clients' = [clients EXCEPT ![sock[s].tag] = 0]
    /\ ChannelEvent(sock[s].tag)
    /\ UNCHANGED <<rendererVars, brokerVars, budget, leftEarly>>

-----------------------------------------------------------------------------
(* Brokers.                                                                 *)

BrokerUp(c) ==
    /\ broker[c] = "starting"
    /\ broker' = [broker EXCEPT ![c] = "up"]
    /\ UNCHANGED <<rendererVars, flow, poolVars, rows, budget, leftEarly>>

(* Nobody waits for it. *)
BrokerCrash(c) ==
    /\ broker[c] \in {"starting", "up"}
    /\ budget.crash > 0
    /\ broker' = [broker EXCEPT ![c] = "zombie"]
    /\ budget' = [budget EXCEPT !.crash = @ - 1]
    /\ UNCHANGED <<rendererVars, flow, poolVars, rows, leftEarly>>

(* Mutant: rows are merged whatever chat they are tagged with. *)
AppendRow_AnyTag(c) ==
    /\ broker[c] = "up"
    /\ rows[c] < MaxRows
    /\ rows' = [rows EXCEPT ![c] = @ + 1]
    /\ MergeRows(IF \E s \in Sockets : sock[s].st = "open" /\ sock[s].ep = c
                 THEN {<<c, rows[c] + 1>>} ELSE {})
    /\ UNCHANGED <<active, endpoint, subscribed, flow, poolVars, broker, budget, leftEarly>>

(* append_trace: to the file, then to the subscribers; onTraceRow drops the *)
(* rows tagged with another chat than the active one.                       *)
AppendRow(c) ==
    /\ broker[c] = "up"
    /\ rows[c] < MaxRows
    /\ rows' = [rows EXCEPT ![c] = @ + 1]
    /\ MergeRows(IF \E s \in Sockets : sock[s] = [st |-> "open", tag |-> active, ep |-> c]
                 THEN {<<c, rows[c] + 1>>} ELSE {})
    /\ UNCHANGED <<active, endpoint, subscribed, flow, poolVars, broker, budget, leftEarly>>

-----------------------------------------------------------------------------
(* The user.                                                                *)

(* Mutant: the endpoint stays until the new one is known. *)
Switch_KeepsEndpoint(c) ==
    /\ c # active
    /\ FreeFlows # {}
    /\ budget.move > 0
    /\ budget' = [budget EXCEPT !.move = @ - 1]
    /\ active' = c
    /\ view' = {}
    /\ Begin([pc |-> "start", chat |-> c, ep |-> None])
    /\ leftEarly' = leftEarly \cup (IF FreeFlows = Flows THEN {} ELSE {active})
    /\ UNCHANGED <<endpoint, subscribed, poolVars, brokerVars>>

(* The effect of a new active chat: the view and the endpoint are reset.    *)
(* What is in flight for the old one goes on.                               *)
Switch(c) ==
    /\ c # active
    /\ FreeFlows # {}
    /\ budget.move > 0
    /\ budget' = [budget EXCEPT !.move = @ - 1]
    /\ active' = c
    /\ endpoint' = None
    /\ view' = {}
    /\ Begin([pc |-> "start", chat |-> c, ep |-> None])
    /\ leftEarly' = leftEarly \cup (IF FreeFlows = Flows THEN {} ELSE {active})
    /\ UNCHANGED <<subscribed, poolVars, brokerVars>>

(* requestStopAgent. *)
Stop ==
    /\ FreeFlows # {}
    /\ budget.move > 0
    /\ budget' = [budget EXCEPT !.move = @ - 1]
    /\ endpoint' = None
    /\ Begin([pc |-> "stop", chat |-> active, ep |-> None])
    /\ UNCHANGED <<active, subscribed, view, poolVars, brokerVars, leftEarly>>

-----------------------------------------------------------------------------
FlowStep(f) ==
    \/ StopBroker(f) \/ ConnectStart(f) \/ ConnectCreate(f)
    \/ ResubscribeStart(f) \/ ReadDurable(f) \/ Subscribe(f)

SocketStep(s) == Connected(s) \/ Refused(s) \/ Closes(s) \/ CloseEvent(s)

Next ==
    \/ \E f \in Flows : FlowStep(f)
    \/ \E s \in Sockets : SocketStep(s)
    \/ \E c \in Chats : BrokerUp(c) \/ BrokerCrash(c) \/ AppendRow(c) \/ Switch(c)
    \/ Stop

Spec == Init /\ [][Next]_vars

(* Event loops and brokers that start run on; crashes and the user need not. *)
FairSpec ==
    /\ Spec
    /\ \A f \in Flows : WF_vars(FlowStep(f))
    /\ \A s \in Sockets : WF_vars(SocketStep(s))
    /\ \A c \in Chats : WF_vars(BrokerUp(c))

-----------------------------------------------------------------------------
(* Properties.                                                              *)

(* Whatever calls overlap, the endpoint what is typed is sent to and the     *)
(* rows in view are those of the chat on the screen, or of one that the user *)
(* had left while a call for it was in flight: such a call sets the endpoint *)
(* and merges its rows when it comes back (DesktopSessionContext.tsx:459-481,*)
(* 566-634, 677-708, 877-882).                                               *)
ScreenIsOwn ==
    /\ endpoint \in {None, active} \cup leftEarly
    /\ \A row \in view : row[1] \in {active} \cup leftEarly

(* "desktop gets broker endpoint for chat_id, sends runtime envelopes"       *)
(* (plan/9-ailit-ui.md:444): with nothing in flight what the user types goes *)
(* to the broker of the chat on the screen.                                  *)
PromptsGoHome == FreeFlows = Flows => endpoint \in {None, active}

(* plan/8-agents-runtime.md:372: a reconnect may lose live rows, but the     *)
(* durable trace brings the history back: what was in the file when the      *)
(* broker went down comes into view, without the user's help - of one who    *)
(* has left no chat early, for that can tag another chat's socket with this. *)
HistoryComesBack ==
    \A c \in Chats : \A n \in 1..MaxRows :
        (active = c /\ broker[c] \in {"down", "zombie"} /\ n <= rows[c] /\ leftEarly = {})
            ~> (active # c \/ <<c, n>> \in view)

(* plan/9-ailit-ui.md:446: live rows appear in the UI without a refresh.     *)
LiveRowsAppear ==
    \A c \in Chats : \A n \in 1..MaxRows :
        (active = c /\ n <= rows[c]) ~> (active # c \/ <<c, n>> \in view)

=============================================================================
