--------------------------- MODULE DesktopProofs ----------------------------
(***************************************************************************)
(* What the desktop shows, for any chats, sockets, stores and numbers of   *)
(* calls and loads in flight: rows of the chat on the screen, or of one    *)
(* that was left while a call for it was in flight; what the trace has     *)
(* shown of the graph; and, in a view that shows no warning, all that the  *)
(* store has up to the revision it claims.                                 *)
(***************************************************************************)
EXTENDS DesktopSession, GraphView, FiniteSetTheorems, SequenceTheorems, WellFoundedInduction, TLAPS

(* The calls in flight are for the chat on the screen or for one that was   *)
(* left early, and lead to the broker of such a chat; a socket leads to the *)
(* broker of the chat it is tagged with or of one that was left early.      *)
FlowIsOwn(call) ==
    /\ call = [pc |-> call.pc, chat |-> call.chat, ep |-> call.ep]
    /\ call.pc \notin {"idle", "timer"} => call.chat \in {active} \cup leftEarly
    /\ call.pc = "timer" => call.ep \in {active} \cup leftEarly
    /\ call.pc \in {"reread", "subscribe", "resubscribe"} => call.ep \in {call.chat} \cup leftEarly

FlowsAreOwn ==
    /\ flow = [f \in Flows |-> flow[f]]
    /\ \A f \in Flows : FlowIsOwn(flow[f])

SocketsAreTagged ==
    /\ sock = [s \in Sockets |-> sock[s]]
    /\ \A s \in Sockets : /\ sock[s] = [st |-> sock[s].st, tag |-> sock[s].tag, ep |-> sock[s].ep]
                          /\ sock[s].ep \in {sock[s].tag} \cup leftEarly

ScreenInv == FlowsAreOwn /\ SocketsAreTagged /\ ScreenIsOwn

LEMMA RecordSteps ==
    /\ \A r, pc : r = [pc |-> r.pc, chat |-> r.chat, ep |-> r.ep]
                     => [r EXCEPT !.pc = pc] = [pc |-> pc, chat |-> r.chat, ep |-> r.ep]
    /\ \A r, st : r = [st |-> r.st, tag |-> r.tag, ep |-> r.ep]
                     => [r EXCEPT !.st = st] = [st |-> st, tag |-> r.tag, ep |-> r.ep]
<1>1. ASSUME NEW a, NEW b, NEW c, NEW d
      PROVE  /\ [[pc |-> a, chat |-> b, ep |-> c] EXCEPT !.pc = d] = [pc |-> d, chat |-> b, ep |-> c]
             /\ [[st |-> a, tag |-> b, ep |-> c] EXCEPT !.st = d] = [st |-> d, tag |-> b, ep |-> c]
  OBVIOUS
<1> QED BY <1>1

LEMMA DestroyKeepsTags ==
    ASSUME SocketsAreTagged, NEW s, sock' = Destroy(s), UNCHANGED leftEarly
    PROVE  SocketsAreTagged'
<1>1. sock' = [sock EXCEPT ![s] = [sock[s] EXCEPT !.st = "destroyed"]]
  BY DEF Destroy
<1>2. sock' = [t \in Sockets |-> sock'[t]]
  BY <1>1 DEF SocketsAreTagged
<1>3. ASSUME NEW t \in Sockets
      PROVE  /\ sock'[t] = [st |-> sock'[t].st, tag |-> sock'[t].tag, ep |-> sock'[t].ep]
             /\ sock'[t].ep \in {sock'[t].tag} \cup leftEarly'
  <2>1. CASE t = s
    <3>1. sock'[t] = [st |-> "destroyed", tag |-> sock[t].tag, ep |-> sock[t].ep]
      BY <1>1, <2>1 DEF SocketsAreTagged
    <3> QED BY <3>1 DEF SocketsAreTagged
  <2>2. CASE t # s
    BY <1>1, <2>2 DEF SocketsAreTagged
  <2> QED BY <2>1, <2>2
<1> QED BY <1>2, <1>3 DEF SocketsAreTagged

LEMMA UnsubscribeKeepsTags ==
    ASSUME SocketsAreTagged, NEW c, Unsubscribe(c), UNCHANGED leftEarly
    PROVE  SocketsAreTagged'
<1>1. CASE clients[c] = 0
  BY <1>1 DEF Unsubscribe, poolVars, SocketsAreTagged
<1>2. CASE clients[c] # 0
  BY <1>2, DestroyKeepsTags DEF Unsubscribe
<1> QED BY <1>1, <1>2

(* One call of those in flight takes a step. *)
LEMMA FlowMoves ==
    ASSUME FlowsAreOwn, NEW f \in Flows, NEW call, flow' = [flow EXCEPT ![f] = call],
           FlowIsOwn(call), UNCHANGED <<active, leftEarly>>
    PROVE  FlowsAreOwn'
<1>1. flow' = [g \in Flows |-> flow'[g]]
  BY DEF FlowsAreOwn
<1>2. \A g \in Flows : flow'[g] = IF g = f THEN call ELSE flow[g]
  BY DEF FlowsAreOwn
<1> QED BY <1>1, <1>2 DEF FlowsAreOwn, FlowIsOwn

LEMMA FlowsRest ==
    ASSUME FlowsAreOwn, UNCHANGED <<flow, active, leftEarly>>
    PROVE  FlowsAreOwn'
BY DEF FlowsAreOwn, FlowIsOwn

LEMMA GotoMoves ==
    ASSUME FlowsAreOwn, NEW f \in Flows, NEW pc, Goto(f, pc),
           FlowIsOwn([pc |-> pc, chat |-> flow[f].chat, ep |-> flow[f].ep]),
           UNCHANGED <<active, leftEarly>>
    PROVE  FlowsAreOwn'
<1>1. flow[f] = [pc |-> flow[f].pc, chat |-> flow[f].chat, ep |-> flow[f].ep]
  BY DEF FlowsAreOwn, FlowIsOwn
<1>2. flow' = [flow EXCEPT ![f] = [pc |-> pc, chat |-> flow[f].chat, ep |-> flow[f].ep]]
  BY <1>1, RecordSteps DEF Goto
<1> QED BY <1>2, FlowMoves

LEMMA EventKeepsFlows ==
    ASSUME ScreenInv, NEW tag, ChannelEvent(tag), UNCHANGED <<active, leftEarly>>
    PROVE  FlowsAreOwn'
<1> USE DEF ScreenInv
<1>1. CASE UNCHANGED flow
  BY <1>1, FlowsRest
<1>2. CASE endpoint # None /\ FreeFlows # {} /\ Begin([pc |-> "timer", chat |-> None, ep |-> endpoint])
  <2>1. (CHOOSE f \in FreeFlows : TRUE) \in Flows
    BY <1>2 DEF FreeFlows
  <2>2. FlowIsOwn([pc |-> "timer", chat |-> None, ep |-> endpoint])
    BY <1>2 DEF ScreenIsOwn, FlowIsOwn
  <2> QED BY <1>2, <2>1, <2>2, FlowMoves DEF Begin
<1> QED BY <1>1, <1>2 DEF ChannelEvent

(* What a step that leaves the screen's chat alone may add to the view. *)
LEMMA ScreenStays ==
    ASSUME ScreenIsOwn, UNCHANGED <<active, leftEarly>>,
           endpoint' \in {None, active, endpoint} \cup leftEarly,
           \A row \in view' : row \in view \/ row[1] \in {active} \cup leftEarly
    PROVE  ScreenIsOwn'
BY DEF ScreenIsOwn

LEMMA FlowStepKeeps ==
    ASSUME ScreenInv, NEW f \in Flows, FlowStep(f)
    PROVE  ScreenInv'
<1> USE DEF ScreenInv
<1>0. FlowIsOwn(flow[f])
  BY DEF FlowsAreOwn
<1>1. CASE StopBroker(f)
  <2>1. FlowIsOwn([pc |-> "start", chat |-> flow[f].chat, ep |-> flow[f].ep])
    BY <1>0, <1>1 DEF StopBroker, FlowIsOwn
  <2>2. Goto(f, "start") /\ UNCHANGED <<active, endpoint, view, sock, leftEarly>>
    BY <1>1 DEF StopBroker, rendererVars, poolVars
  <2> QED BY <2>1, <2>2, GotoMoves, ScreenStays DEF SocketsAreTagged
<1>2. CASE ConnectStart(f)
  <2>1. FlowIsOwn([pc |-> "create", chat |-> flow[f].chat, ep |-> flow[f].ep])
    BY <1>0, <1>2 DEF ConnectStart, FlowIsOwn
  <2>2. Goto(f, "create") /\ UNCHANGED <<active, endpoint, view, leftEarly>>
    BY <1>2 DEF ConnectStart, rendererVars
  <2>3. SocketsAreTagged'
    <3>1. CASE UNCHANGED poolVars
      BY <2>2, <3>1 DEF poolVars, SocketsAreTagged
    <3>2. CASE Unsubscribe(subscribed)
      BY <2>2, <3>2, UnsubscribeKeepsTags
    <3> QED BY <1>2, <3>1, <3>2 DEF ConnectStart
  <2> QED BY <2>1, <2>2, <2>3, GotoMoves, ScreenStays
<1>3. CASE ConnectCreate(f)
  <2>1. FlowIsOwn([pc |-> "read", chat |-> flow[f].chat, ep |-> flow[f].ep])
    BY <1>0, <1>3 DEF ConnectCreate, FlowIsOwn
  <2>2. /\ Goto(f, "read") /\ UNCHANGED <<active, view, sock, leftEarly>>
        /\ endpoint' = flow[f].chat /\ flow[f].chat \in {active} \cup leftEarly
    BY <1>0, <1>3 DEF ConnectCreate, poolVars, FlowIsOwn
  <2> QED BY <2>1, <2>2, GotoMoves, ScreenStays DEF SocketsAreTagged
<1>4. CASE ResubscribeStart(f)
  <2>1. /\ flow[f].pc = "timer"
        /\ flow' = [flow EXCEPT ![f] = [pc |-> "reread", chat |-> active, ep |-> flow[f].ep]]
        /\ UNCHANGED <<active, endpoint, view, leftEarly>>
        /\ Unsubscribe(active)
    BY <1>4 DEF ResubscribeStart, rendererVars
  <2>2. FlowIsOwn([pc |-> "reread", chat |-> active, ep |-> flow[f].ep])
    BY <1>0, <2>1 DEF FlowIsOwn
  <2> QED BY <2>1, <2>2, FlowMoves, UnsubscribeKeepsTags, ScreenStays
<1>5. CASE ReadDurable(f)
  <2>1. /\ flow[f].pc \in {"read", "reread"}
        /\ flow' = [flow EXCEPT ![f] = AfterRead(flow[f])]
        /\ view' = view \cup Durable(flow[f].chat)
        /\ UNCHANGED <<active, endpoint, sock, leftEarly>>
    BY <1>5 DEF ReadDurable, MergeRows, poolVars
  <2>2. flow[f].chat \in {active} \cup leftEarly
    BY <1>0, <2>1 DEF FlowIsOwn
  <2>3. \A row \in Durable(flow[f].chat) : row[1] = flow[f].chat
    BY DEF Durable
  <2>4. FlowIsOwn(AfterRead(flow[f]))
    <3>1. CASE flow[f].pc = "read"
      <4>1. AfterRead(flow[f]) = [pc |-> "subscribe", chat |-> flow[f].chat, ep |-> flow[f].chat]
        BY <1>0, <3>1 DEF AfterRead, FlowIsOwn
      <4> QED BY <2>2, <4>1 DEF FlowIsOwn
    <3>2. CASE flow[f].pc = "reread"
      <4>1. AfterRead(flow[f]) = [pc |-> "resubscribe", chat |-> flow[f].chat, ep |-> flow[f].ep]
        BY <1>0, <3>2 DEF AfterRead, FlowIsOwn
      <4>2. flow[f].ep \in {flow[f].chat} \cup leftEarly
        BY <1>0, <3>2 DEF FlowIsOwn
      <4> QED BY <2>2, <4>1, <4>2 DEF FlowIsOwn
    <3> QED BY <2>1, <3>1, <3>2
  <2> QED BY <2>1, <2>2, <2>3, <2>4, FlowMoves, ScreenStays DEF SocketsAreTagged
<1>6. CASE Subscribe(f)
  <2>1. PICK s \in Sockets : TRUE /\
          /\ flow[f].pc \in {"subscribe", "resubscribe"}
          /\ sock' = [t \in Sockets |->
                        IF t = s THEN [st |-> "connecting", tag |-> flow[f].chat, ep |-> flow[f].ep]
                        ELSE IF t = clients[flow[f].chat] THEN Destroy(t)[t] ELSE sock[t]]
          /\ flow' = [flow EXCEPT ![f] = IdleFlow]
          /\ UNCHANGED <<active, endpoint, view, leftEarly>>
    BY <1>6 DEF Subscribe, Return
  <2>2. FlowIsOwn(IdleFlow)
    BY DEF FlowIsOwn, IdleFlow
  <2>3. flow[f].ep \in {flow[f].chat} \cup leftEarly
    BY <1>0, <2>1 DEF FlowIsOwn
  <2>4. \A t \in Sockets : Destroy(t)[t] = [st |-> "destroyed", tag |-> sock[t].tag, ep |-> sock[t].ep]
    BY DEF Destroy, SocketsAreTagged
  <2>5. SocketsAreTagged'
    <3>1. sock' = [t \in Sockets |-> sock'[t]]
      BY <2>1
    <3>2. ASSUME NEW t \in Sockets
          PROVE  /\ sock'[t] = [st |-> sock'[t].st, tag |-> sock'[t].tag, ep |-> sock'[t].ep]
                 /\ sock'[t].ep \in {sock'[t].tag} \cup leftEarly'
      <4>1. CASE t = s
        <5>1. sock'[t] = [st |-> "connecting", tag |-> flow[f].chat, ep |-> flow[f].ep]
          BY <2>1, <4>1
        <5> QED BY <2>1, <2>3, <5>1
      <4>2. CASE t # s /\ t = clients[flow[f].chat]
        <5>1. sock'[t] = [st |-> "destroyed", tag |-> sock[t].tag, ep |-> sock[t].ep]
          BY <2>1, <2>4, <4>2
        <5> QED BY <2>1, <5>1 DEF SocketsAreTagged
      <4>3. CASE t # s /\ t # clients[flow[f].chat]
        <5>1. sock'[t] = sock[t]
          BY <2>1, <4>3
        <5> QED BY <2>1, <5>1 DEF SocketsAreTagged
      <4> QED BY <4>1, <4>2, <4>3
    <3> QED BY <3>1, <3>2 DEF SocketsAreTagged
  <2> QED BY <2>1, <2>2, <2>5, FlowMoves, ScreenStays
<1> QED BY <1>1, <1>2, <1>3, <1>4, <1>5, <1>6 DEF FlowStep

LEMMA SocketStepKeeps ==
    ASSUME ScreenInv, NEW s \in Sockets, SocketStep(s)
    PROVE  ScreenInv'
<1> USE DEF ScreenInv
<1>1. UNCHANGED <<active, endpoint, view, leftEarly>>
  BY DEF SocketStep, Connected, Refused, Closes, CloseEvent, rendererVars
<1>2. ScreenIsOwn'
  BY <1>1, ScreenStays
<1>3. FlowsAreOwn'
  <2>1. CASE UNCHANGED flow
    BY <1>1, <2>1, FlowsRest
  <2>2. CASE ChannelEvent(sock[s].tag)
    BY <1>1, <2>2, EventKeepsFlows
  <2> QED BY <2>1, <2>2 DEF SocketStep, Connected, Refused, Closes, CloseEvent
<1>4. SocketsAreTagged'
  <2>1. CASE sock' = Destroy(s)
    BY <1>1, <2>1, DestroyKeepsTags
  <2>2. ASSUME NEW r, sock' = [sock EXCEPT ![s] = r],
               r \in {ClosedSocket, [st |-> "open", tag |-> sock[s].tag, ep |-> sock[s].ep]}
        PROVE  SocketsAreTagged'
    <3>1. sock' = [t \in Sockets |-> sock'[t]]
      BY <2>2 DEF SocketsAreTagged
    <3>2. ASSUME NEW t \in Sockets
          PROVE  /\ sock'[t] = [st |-> sock'[t].st, tag |-> sock'[t].tag, ep |-> sock'[t].ep]
                 /\ sock'[t].ep \in {sock'[t].tag} \cup leftEarly'
      <4>1. CASE t = s
        <5>1. sock'[t] = r
          BY <2>2, <4>1 DEF SocketsAreTagged
        <5> QED BY <1>1, <2>2, <5>1 DEF SocketsAreTagged, ClosedSocket
      <4>2. CASE t # s
        <5>1. sock'[t] = sock[t]
          BY <2>2, <4>2 DEF SocketsAreTagged
        <5> QED BY <1>1, <5>1 DEF SocketsAreTagged
      <4> QED BY <4>1, <4>2
    <3> QED BY <3>1, <3>2 DEF SocketsAreTagged
  <2>3. CASE Connected(s)
    <3>1. sock' = [sock EXCEPT ![s] = [st |-> "open", tag |-> sock[s].tag, ep |-> sock[s].ep]]
        BY <2>3, RecordSteps DEF Connected, SocketsAreTagged
    <3> QED BY <3>1, <2>2
  <2>4. CASE CloseEvent(s)
    BY <2>2, <2>4 DEF CloseEvent
  <2> QED BY <2>1, <2>3, <2>4 DEF SocketStep, Refused, Closes
<1> QED BY <1>2, <1>3, <1>4

LEMMA ScreenStep ==
    ASSUME ScreenInv, [Next]_vars
    PROVE  ScreenInv'
<1>1. ASSUME NEW f \in Flows, FlowStep(f)
      PROVE  ScreenInv'
  BY <1>1, FlowStepKeeps
<1>2. ASSUME NEW s \in Sockets, SocketStep(s)
      PROVE  ScreenInv'
  BY <1>2, SocketStepKeeps
<1> USE DEF ScreenInv
<1>3. ASSUME NEW c \in Chats, BrokerUp(c) \/ BrokerCrash(c)
      PROVE  ScreenInv'
  <2>1. UNCHANGED <<active, endpoint, view, flow, sock, leftEarly>>
    BY <1>3 DEF BrokerUp, BrokerCrash, rendererVars, poolVars
  <2> QED BY <2>1, FlowsRest, ScreenStays DEF SocketsAreTagged
<1>4. ASSUME NEW c \in Chats, AppendRow(c)
      PROVE  ScreenInv'
  <2>1. UNCHANGED <<active, endpoint, flow, sock, leftEarly>>
    BY <1>4 DEF AppendRow, poolVars
  <2>2. \A row \in view' : row \in view \/ row[1] \in {active} \cup leftEarly
    <3>1. CASE \E s \in Sockets : sock[s] = [st |-> "open", tag |-> active, ep |-> c]
      <4>1. c \in {active} \cup leftEarly
        BY <3>1 DEF SocketsAreTagged
      <4>2. view' = view \cup {<<c, rows[c] + 1>>}
        BY <1>4, <3>1 DEF AppendRow, MergeRows
      <4> QED BY <4>1, <4>2
    <3>2. CASE ~ \E s \in Sockets : sock[s] = [st |-> "open", tag |-> active, ep |-> c]
      BY <1>4, <3>2 DEF AppendRow, MergeRows
    <3> QED BY <3>1, <3>2
  <2> QED BY <2>1, <2>2, FlowsRest, ScreenStays DEF SocketsAreTagged
<1>5. ASSUME NEW pc \in {"start", "stop"}, FreeFlows # {},
             Begin([pc |-> pc, chat |-> active', ep |-> None]), endpoint' = None,
             view' = {} \/ UNCHANGED <<active, view>>, sock' = sock,
             leftEarly \subseteq leftEarly',
             \/ UNCHANGED <<active, leftEarly>>
             \/ active \in leftEarly'
             \/ FreeFlows = Flows /\ UNCHANGED leftEarly
      PROVE  ScreenInv'
  <2>1. /\ flow' = [g \in Flows |-> flow'[g]]
        /\ \A g \in Flows : flow'[g] \in {flow[g], [pc |-> pc, chat |-> active', ep |-> None]}
    BY <1>5 DEF FlowsAreOwn, Begin
  <2>2. ASSUME NEW g \in Flows
        PROVE  FlowIsOwn(flow[g])'
    <3>1. CASE flow'[g] = [pc |-> pc, chat |-> active', ep |-> None]
      BY <1>5, <3>1 DEF FlowIsOwn
    <3>2. CASE flow'[g] = flow[g]
      <4>1. FlowIsOwn(flow[g])
        BY DEF FlowsAreOwn
      <4>2. CASE flow[g].pc = "idle"
        BY <3>2, <4>1, <4>2 DEF FlowIsOwn
      <4>3. CASE flow[g].pc # "idle"
        <5>1. FreeFlows # Flows
          BY <4>3 DEF FreeFlows
        <5>2. {active} \cup leftEarly \subseteq {active'} \cup leftEarly'
          BY <1>5, <5>1
        <5> QED BY <1>5, <3>2, <4>1, <5>2 DEF FlowIsOwn
      <4> QED BY <4>2, <4>3
    <3> QED BY <2>1, <3>1, <3>2
  <2>3. FlowsAreOwn'
    BY <2>1, <2>2 DEF FlowsAreOwn
  <2>4. ScreenIsOwn'
    BY <1>5 DEF ScreenIsOwn
  <2>5. SocketsAreTagged'
    BY <1>5 DEF SocketsAreTagged
  <2> QED BY <2>3, <2>4, <2>5
<1>6. ASSUME NEW c \in Chats, Switch(c)
      PROVE  ScreenInv'
  <2>1. CASE FreeFlows = Flows
    BY <1>5, <1>6, <2>1 DEF Switch, poolVars
  <2>2. CASE FreeFlows # Flows
    BY <1>5, <1>6, <2>2 DEF Switch, poolVars
  <2> QED BY <2>1, <2>2
<1>7. CASE Stop
  BY <1>5, <1>7 DEF Stop, poolVars
<1>8. CASE UNCHANGED vars
  <2>1. UNCHANGED <<active, endpoint, view, flow, sock, leftEarly>>
    BY <1>8 DEF vars, rendererVars, poolVars
  <2> QED BY <2>1, FlowsRest, ScreenStays DEF SocketsAreTagged
<1> QED BY <1>1, <1>2, <1>3, <1>4, <1>6, <1>7, <1>8 DEF Next

(* The broker that what is typed goes to, and the rows on the screen, are   *)
(* those of the chat on the screen or of one that was left while a call for *)
(* it was in flight, for any number of chats, calls in flight and sockets:  *)
(* what such a call brings back (DesktopSessionContext.tsx:566-634) is the  *)
(* one way in for anything else.                                            *)
THEOREM ScreenShowsItsChat == Spec => []ScreenIsOwn
<1>1. Init => ScreenInv
  <2> SUFFICES ASSUME Init PROVE ScreenInv
    OBVIOUS
  <2>1. /\ flow = [f \in Flows |-> flow[f]]
        /\ \A f \in Flows : flow[f] \in {IdleFlow, [pc |-> "start", chat |-> active, ep |-> None]}
    BY DEF Init
  <2>2. FlowsAreOwn
    BY <2>1 DEF FlowsAreOwn, FlowIsOwn, IdleFlow
  <2>3. SocketsAreTagged
    BY DEF Init, SocketsAreTagged, ClosedSocket
  <2>4. ScreenIsOwn
    BY DEF Init, ScreenIsOwn
  <2> QED BY <2>2, <2>3, <2>4 DEF ScreenInv
<1>2. ScreenInv /\ [Next]_vars => ScreenInv'
  BY ScreenStep
<1>3. ScreenInv => ScreenIsOwn
  BY DEF ScreenInv
<1> QED BY <1>1, <1>2, <1>3, PTL DEF Spec

-----------------------------------------------------------------------------
(***************************************************************************)
(* The graph.  The trace and the log only grow, and each row that arrives  *)
(* is looked at once, by the load that it precedes or the increment that   *)
(* follows it: NothingTracedIsMissed.                                      *)
(***************************************************************************)
LoadRec == [pc : {"idle", "nodes", "edges", "rev", "loaded", "missing"},
            off : Nat, got : SUBSET Items, rev : Nat, doubt : SUBSET Nat]

ViewRec == [st : {"loading", "ready", "error"}, items : SUBSET Items, known : Nat,
            last : Nat, warned : BOOLEAN, at : Nat, doubt : SUBSET Nat]

(* What rows and views say of revisions, the store has. *)
ViewShape ==
    /\ log \in Seq(Items)
    /\ pending \in 0..Len(log)
    /\ trace \in Seq(0..Len(log))
    /\ feed \in Seq(1..Len(trace))
    /\ snapshot \in ViewRec
    /\ snapshot.last <= Len(feed)
    /\ load \in [LoadIds -> LoadRec]

(* The numbers of a trace name upserts that are in the log. *)
LEMMA RowsAreLogged ==
    ASSUME ViewShape, NEW i \in 1..Len(feed)
    PROVE  /\ feed[i] \in 1..Len(trace)
           /\ RevOf(i) \in 0..Rev
           /\ RevOf(i) # 0 => log[RevOf(i)] \in Items
<1>1. feed[i] \in 1..Len(trace)
  BY SMTT(30) DEF ViewShape
<1>2. RevOf(i) \in 0..Len(log)
  BY <1>1, SMTT(30) DEF ViewShape, RevOf
<1>3. ASSUME RevOf(i) # 0
      PROVE  log[RevOf(i)] \in Items
  <2>1. RevOf(i) \in 1..Len(log)
    BY <1>2, <1>3
  <2> QED BY <2>1 DEF ViewShape
<1> QED BY <1>1, <1>2, <1>3 DEF Rev

(* A set of numbers has a least one.                                        *)
LEMMA LeastNatural ==
    ASSUME NEW T \in SUBSET Nat, T # {}
    PROVE  \E x \in T : \A y \in T : x <= y
<1>1. \E x \in T : \A y \in T : ~ (<<y, x>> \in OpToRel(<, Nat))
  BY NatLessThanWellFounded, WFMin
<1>2. ASSUME NEW x \in T, NEW y \in T, ~ (<<y, x>> \in OpToRel(<, Nat))
      PROVE  x <= y
  <2>1. ~ (y < x)
    BY <1>2 DEF OpToRel
  <2> QED BY <2>1
<1> QED BY <1>1, <1>2

LEMMA MinIsLeast ==
    ASSUME NEW T \in SUBSET Nat, T # {}
    PROVE  Min(T) \in T /\ \A y \in T : Min(T) <= y
BY LeastNatural DEF Min

(* The greatest of a bounded set is the least bound less nothing. *)
LEMMA MaxIsGreatest ==
    ASSUME NEW n \in Nat, NEW T \in SUBSET (0..n), T # {}
    PROVE  Max(T) \in T /\ \A y \in T : Max(T) >= y
<1> DEFINE below == {n - x : x \in T}
<1>1. below \in SUBSET Nat /\ below # {}
  <2>1. \A x \in T : n - x \in Nat
    OBVIOUS
  <2>2. PICK x \in T : TRUE
    OBVIOUS
  <2>3. n - x \in below
    OBVIOUS
  <2> QED BY <2>1, <2>3
<1>2. PICK d \in below : \A e \in below : d <= e
  BY <1>1, LeastNatural
<1>3. PICK x \in T : d = n - x
  OBVIOUS
<1>4. \A y \in T : x >= y
  <2>1. \A y \in T : n - y \in below
    OBVIOUS
  <2> HIDE DEF below
  <2> QED BY <1>2, <1>3, <2>1
<1> QED BY <1>4 DEF Max

-----------------------------------------------------------------------------
(* What the deltas from a place on do to a view.                            *)

LEMMA LastDelta ==
    ASSUME ViewShape, NEW from \in Nat \ {0}, Deltas(from) # {}
    PROVE  /\ Min(Deltas(from)) \in Deltas(from) /\ \A j \in Deltas(from) : Min(Deltas(from)) <= j
           /\ Max(Deltas(from)) \in Deltas(from) /\ \A j \in Deltas(from) : Max(Deltas(from)) >= j
<1>1. Len(feed) \in Nat
  BY DEF ViewShape
<1>2. Deltas(from) \subseteq 0..Len(feed) /\ Deltas(from) \subseteq Nat
  BY <1>1 DEF Deltas
<1> QED BY <1>1, <1>2, MinIsLeast, MaxIsGreatest

LEMMA DeltaIsLogged ==
    ASSUME ViewShape, NEW from \in Nat \ {0}, NEW i \in Deltas(from)
    PROVE  /\ i \in 1..Len(feed) /\ i \in Nat
           /\ RevOf(i) \in 1..Rev /\ RevOf(i) \in Nat \ {0}
           /\ log[RevOf(i)] \in Items
<1>1. Len(feed) \in Nat /\ Rev \in Nat
  BY DEF ViewShape, Rev
<1>2. i \in 1..Len(feed) /\ RevOf(i) # 0
  BY <1>1 DEF Deltas, RevOf
<1> QED BY <1>1, <1>2, RowsAreLogged

(* The view that comes of them, field by field.                             *)
LEMMA AppliedView ==
    ASSUME ViewShape, NEW from \in Nat \ {0}, NEW v \in ViewRec, NEW c \in BOOLEAN
    PROVE  LET w == ApplyDeltas(v, from, c)
           IN  /\ w \in ViewRec
               /\ w.st = "ready" /\ w.last = Len(feed) /\ w.at = v.at /\ w.doubt = v.doubt
               /\ w.items = v.items \cup {log[RevOf(i)] : i \in Deltas(from)}
               /\ w.known = IF Deltas(from) = {} THEN StartRev(Deltas(from), v.known, c) ELSE RevOf(Max(Deltas(from)))
               /\ w.warned = (v.warned \/ \E i \in Deltas(from) : OutOfStep(i, Deltas(from), StartRev(Deltas(from), v.known, c)))
<1> DEFINE deltas == Deltas(from)
           start == StartRev(deltas, v.known, c)
           items == v.items \cup {log[RevOf(i)] : i \in deltas}
           known == IF deltas = {} THEN start ELSE RevOf(Max(deltas))
           warned == v.warned \/ \E i \in deltas : OutOfStep(i, deltas, start)
<1>1. v.items \in SUBSET Items /\ v.known \in Nat /\ v.warned \in BOOLEAN
  BY DEF ViewRec
<1>2. items \in SUBSET Items
  BY <1>1, DeltaIsLogged
<1>3. known \in Nat
  BY <1>1, LastDelta, DeltaIsLogged DEF StartRev
<1>4. warned \in BOOLEAN
  OBVIOUS
<1>5. Len(feed) \in Nat
  BY DEF ViewShape
<1>6. ApplyDeltas(v, from, c) = [v EXCEPT !.st = "ready", !.items = items, !.known = known,
                                          !.last = Len(feed), !.warned = warned]
  BY DEF ApplyDeltas
<1> HIDE DEF items, known, warned, start, deltas
<1>7. ApplyDeltas(v, from, c) = [st |-> "ready", items |-> items, known |-> known, last |-> Len(feed),
                                 warned |-> warned, at |-> v.at, doubt |-> v.doubt]
  BY <1>6 DEF ViewRec
<1>8. ApplyDeltas(v, from, c) \in ViewRec
  BY <1>2, <1>3, <1>4, <1>5, <1>7 DEF ViewRec
<1> QED BY <1>7, <1>8 DEF items, known, warned, start, deltas

-----------------------------------------------------------------------------
(* Rows are only added to the trace, and each is looked at.                 *)
TracedInv == ViewShape /\ NothingTracedIsMissed

LEMMA AppliedShows ==
    ASSUME TracedInv, NEW v \in ViewRec, NEW from \in Nat \ {0}, NEW c \in BOOLEAN,
           \A i \in 1..(from - 1) : RevOf(i) # 0 => log[RevOf(i)] \in v.items
    PROVE  \A i \in 1..Len(feed) : RevOf(i) # 0 => log[RevOf(i)] \in ApplyDeltas(v, from, c).items
<1> SUFFICES ASSUME NEW i \in 1..Len(feed), RevOf(i) # 0
             PROVE  log[RevOf(i)] \in ApplyDeltas(v, from, c).items
  OBVIOUS
<1>1. ApplyDeltas(v, from, c).items = v.items \cup {log[RevOf(j)] : j \in Deltas(from)}
  BY AppliedView DEF TracedInv
<1>2. i \in 1..(from - 1) \/ i \in Deltas(from)
  BY DEF Deltas, RevOf, TracedInv, ViewShape
<1> QED BY <1>1, <1>2

LEMMA AppendedRows ==
    ASSUME NEW S, NEW T, NEW s \in Seq(S), NEW rest \in Seq(T), S \subseteq T
    PROVE  /\ s \o rest \in Seq(T) /\ Len(s \o rest) >= Len(s)
           /\ \A i \in 1..Len(s) : (s \o rest)[i] = s[i]
<1>1. s \in Seq(T)
  OBVIOUS
<1> QED BY <1>1

(* Store, trace and feed only grow, and the view stays.                     *)
LEMMA GrowthKeeps ==
    ASSUME TracedInv, snapshot' = snapshot, load' \in [LoadIds -> LoadRec],
           log' \in Seq(Items), Len(log') >= Len(log), \A r \in 1..Len(log) : log'[r] = log[r],
           pending' \in 0..Len(log'),
           trace' \in Seq(0..Len(log')), Len(trace') >= Len(trace), \A i \in 1..Len(trace) : trace'[i] = trace[i],
           feed' \in Seq(1..Len(trace')), Len(feed') >= Len(feed), \A i \in 1..Len(feed) : feed'[i] = feed[i]
    PROVE  TracedInv'
<1>1. ViewShape'
  <2>1. snapshot.last \in Nat /\ Len(feed) \in Nat /\ Len(feed)' \in Nat /\ snapshot.last <= Len(feed)
    BY DEF TracedInv, ViewShape, ViewRec
  <2>2. snapshot'.last <= Len(feed')
    BY <2>1
  <2> QED BY <2>2 DEF TracedInv, ViewShape
<1>2. ASSUME snapshot.st = "ready", NEW i \in 1..snapshot.last
      PROVE  RevOf(i)' # 0 => log'[RevOf(i)'] \in snapshot.items
  <2>1. i \in 1..Len(feed)
    BY DEF TracedInv, ViewShape, ViewRec
  <2>2. feed[i] \in 1..Len(trace) /\ RevOf(i) \in 0..Len(log)
    BY <2>1, RowsAreLogged DEF TracedInv, Rev
  <2>3. RevOf(i)' = RevOf(i)
    BY <2>1, <2>2 DEF RevOf
  <2>4. RevOf(i) # 0 => log'[RevOf(i)] = log[RevOf(i)]
    <3>1. Len(log) \in Nat
      BY DEF TracedInv, ViewShape
    <3>2. RevOf(i) # 0 => RevOf(i) \in 1..Len(log)
      BY <2>2, <3>1
    <3> QED BY <3>2
  <2> QED BY <1>2, <2>3, <2>4 DEF TracedInv, NothingTracedIsMissed
<1>3. NothingTracedIsMissed'
  BY <1>2 DEF NothingTracedIsMissed, RevOf
<1> QED BY <1>1, <1>3 DEF TracedInv

LEMMA EmptyViewIsAView ==
    ASSUME NEW st \in {"loading", "ready", "error"}
    PROVE  EmptyView(st) \in ViewRec /\ EmptyView(st).last = 0 /\ EmptyView(st).st = st
BY DEF EmptyView, ViewRec

(* What a load gives, before the deltas. *)
Sliced(items, rev, doubt) ==
    [EmptyView("ready") EXCEPT !.items = items, !.known = rev, !.at = rev, !.doubt = doubt]

SlicedIsAView(items, rev, doubt) ==
    /\ Sliced(items, rev, doubt) \in ViewRec
    /\ Sliced(items, rev, doubt).st = "ready"
    /\ Sliced(items, rev, doubt).items = items
    /\ Sliced(items, rev, doubt).known = rev
    /\ Sliced(items, rev, doubt).at = rev
    /\ Sliced(items, rev, doubt).doubt = doubt
    /\ Sliced(items, rev, doubt).last = 0 /\ ~Sliced(items, rev, doubt).warned
    /\ AfterFullLoad(items, rev, doubt) = ApplyDeltas(Sliced(items, rev, doubt), 1, TRUE)

LEMMA FullLoadIsAView ==
    ASSUME TracedInv, NEW items \in SUBSET Items, NEW rev \in Nat, NEW doubt \in SUBSET Nat
    PROVE  SlicedIsAView(items, rev, doubt)
<1> DEFINE e == EmptyView("ready")
           v == [e EXCEPT !.items = items, !.known = rev, !.at = rev, !.doubt = doubt]
<1>1. Sliced(items, rev, doubt) = v
  BY DEF Sliced
<1>2. AfterFullLoad(items, rev, doubt) = ApplyDeltas(Sliced(items, rev, doubt), 1, TRUE)
  BY DEF AfterFullLoad, Sliced
<1>3. e \in ViewRec /\ e.st = "ready" /\ e.last = 0
  BY EmptyViewIsAView
<1>4. ~e.warned
  BY DEF EmptyView
<1> HIDE DEF e
<1> DEFINE f == [e EXCEPT !.items = items]
           g == [f EXCEPT !.known = rev]
           h == [g EXCEPT !.at = rev]
<1>5. f \in ViewRec /\ f.items = items /\ f.st = e.st /\ f.last = e.last /\ f.warned = e.warned
  BY <1>3 DEF ViewRec
<1> HIDE DEF f
<1>6. g \in ViewRec /\ g.known = rev /\ g.items = f.items /\ g.st = f.st /\ g.last = f.last /\ g.warned = f.warned
  BY <1>5 DEF ViewRec
<1> HIDE DEF g
<1>7. h \in ViewRec /\ h.at = rev /\ h.known = g.known /\ h.items = g.items /\ h.st = g.st /\ h.last = g.last /\ h.warned = g.warned
  BY <1>6 DEF ViewRec
<1> HIDE DEF h
<1> DEFINE w == [h EXCEPT !.doubt = doubt]
<1>8. /\ w \in ViewRec /\ w.doubt = doubt /\ w.at = h.at /\ w.known = h.known
      /\ w.items = h.items /\ w.st = h.st /\ w.last = h.last /\ w.warned = h.warned
  BY <1>7 DEF ViewRec
<1>9. v = w
  BY DEF f, g, h
<1> HIDE DEF v, w
<1> QED BY <1>1, <1>2, <1>3, <1>4, <1>5, <1>6, <1>7, <1>8, <1>9 DEF SlicedIsAView

(* The view is emptied, built anew or brought up to date.                   *)
LEMMA ViewKeeps ==
    ASSUME TracedInv, UNCHANGED <<log, pending, trace>>, load' \in [LoadIds -> LoadRec],
           \/ snapshot' \in {EmptyView("loading"), EmptyView("error")} /\ feed' \in {feed, <<>>}
           \/ feed' = feed /\ \E items \in SUBSET Items, rev \in Nat, doubt \in SUBSET Nat :
                               snapshot' = AfterFullLoad(items, rev, doubt)
           \/ feed' = feed /\ Incremental
    PROVE  TracedInv'
<1>1. CASE snapshot' \in {EmptyView("loading"), EmptyView("error")} /\ feed' \in {feed, <<>>}
  <2>1. snapshot' \in ViewRec /\ snapshot'.last = 0 /\ snapshot'.st # "ready"
    BY <1>1, EmptyViewIsAView
  <2>2. feed' \in Seq(1..Len(trace')) /\ 0 <= Len(feed')
    <3>1. trace' = trace /\ feed \in Seq(1..Len(trace)) /\ Len(feed) \in Nat
      BY DEF TracedInv, ViewShape
    <3>2. <<>> \in Seq(1..Len(trace)) /\ Len(<<>>) = 0
      OBVIOUS
    <3>3. feed' \in Seq(1..Len(trace)) /\ Len(feed') \in Nat
      <4>1. CASE feed' = feed
        BY <3>1, <4>1
      <4>2. CASE feed' = <<>>
        BY <3>2, <4>2
      <4> QED BY <1>1, <4>1, <4>2
    <3> QED BY <3>1, <3>3
  <2>3. ViewShape'
    BY <2>1, <2>2 DEF TracedInv, ViewShape
  <2>4. NothingTracedIsMissed'
    BY <2>1 DEF NothingTracedIsMissed
  <2> QED BY <2>3, <2>4 DEF TracedInv
<1>2. ASSUME feed' = feed, NEW v \in ViewRec, NEW from \in Nat \ {0}, NEW c \in BOOLEAN,
             snapshot' = ApplyDeltas(v, from, c),
             \A i \in 1..(from - 1) : RevOf(i) # 0 => log[RevOf(i)] \in v.items
      PROVE  TracedInv'
  <2>1. snapshot' \in ViewRec /\ snapshot'.last = Len(feed)
    BY <1>2, AppliedView DEF TracedInv
  <2>2. ViewShape'
    <3>1. Len(feed) \in Nat
      BY DEF TracedInv, ViewShape
    <3> QED BY <1>2, <2>1, <3>1 DEF TracedInv, ViewShape
  <2>3. \A i \in 1..Len(feed) : RevOf(i) # 0 => log[RevOf(i)] \in snapshot'.items
    BY <1>2, AppliedShows
  <2>4. \A i \in 1..Len(feed) : RevOf(i)' = RevOf(i)
    BY <1>2 DEF RevOf
  <2>5. NothingTracedIsMissed'
    BY <2>1, <2>3, <2>4 DEF NothingTracedIsMissed
  <2> QED BY <2>2, <2>5 DEF TracedInv
<1>3. ASSUME feed' = feed, NEW items \in SUBSET Items, NEW rev \in Nat, NEW doubt \in SUBSET Nat,
             snapshot' = AfterFullLoad(items, rev, doubt)
      PROVE  TracedInv'
  <2>1. Sliced(items, rev, doubt) \in ViewRec /\ snapshot' = ApplyDeltas(Sliced(items, rev, doubt), 1, TRUE)
    <3>1. SlicedIsAView(items, rev, doubt)
      BY FullLoadIsAView
    <3> QED BY <1>3, <3>1 DEF SlicedIsAView
  <2>2. /\ \A i \in 1..(1 - 1) : RevOf(i) # 0 => log[RevOf(i)] \in Sliced(items, rev, doubt).items
        /\ 1 \in Nat \ {0} /\ TRUE \in BOOLEAN
    OBVIOUS
  <2> QED BY <1>2, <1>3, <2>1, <2>2
<1>4. ASSUME feed' = feed, Incremental
      PROVE  TracedInv'
  <2> DEFINE from == snapshot.last + 1
  <2>1. /\ snapshot \in ViewRec /\ snapshot.last \in Nat /\ from \in Nat \ {0} /\ from - 1 = snapshot.last
        /\ (snapshot.last = 0) \in BOOLEAN
    BY SMTT(30) DEF TracedInv, ViewShape, ViewRec
  <2>2. snapshot.st = "ready" /\ snapshot' = ApplyDeltas(snapshot, from, snapshot.last = 0)
    BY <1>4 DEF Incremental
  <2>3. \A i \in 1..(from - 1) : RevOf(i) # 0 => log[RevOf(i)] \in snapshot.items
    BY <2>1, <2>2 DEF TracedInv, NothingTracedIsMissed
  <2> HIDE DEF from
  <2> QED BY <1>2, <1>4, <2>1, <2>2, <2>3
<1> QED BY <1>1, <1>3, <1>4

-----------------------------------------------------------------------------
(* The loads.                                                               *)

LEMMA LoadFieldKeeps ==
    ASSUME NEW b \in [LoadIds -> LoadRec], NEW f \in LoadIds
    PROVE  /\ \A x \in LoadRec : [b EXCEPT ![f] = x] \in [LoadIds -> LoadRec]
           /\ \A x \in {"idle", "nodes", "edges", "rev", "loaded", "missing"} : [b EXCEPT ![f].pc = x] \in [LoadIds -> LoadRec]
           /\ \A x \in Nat : [b EXCEPT ![f].off = x] \in [LoadIds -> LoadRec]
           /\ \A x \in SUBSET Items : [b EXCEPT ![f].got = x] \in [LoadIds -> LoadRec]
           /\ \A x \in Nat : [b EXCEPT ![f].rev = x] \in [LoadIds -> LoadRec]
           /\ \A x \in SUBSET Nat : [b EXCEPT ![f].doubt = x] \in [LoadIds -> LoadRec]
BY SMTT(30) DEF LoadRec

LEMMA LoadsAreRecords ==
    /\ NoLoad \in LoadRec /\ Fresh \in LoadRec
    /\ NoLoad.pc = "idle"
    /\ Fresh = [pc |-> "nodes", off |-> 0, got |-> {}, rev |-> 0, doubt |-> {}]
<1>1. NoLoad \in LoadRec /\ NoLoad.pc = "idle"
  BY DEF NoLoad, LoadRec
<1>2. Fresh = [pc |-> "nodes", off |-> 0, got |-> {}, rev |-> 0, doubt |-> {}]
  BY DEF Fresh, NoLoad
<1> QED BY <1>1, <1>2 DEF LoadRec

LEMMA DoubtfulLoads ==
    ASSUME load \in [LoadIds -> LoadRec], NEW revs \in SUBSET Nat, Doubtful(revs)
    PROVE  load' \in [LoadIds -> LoadRec]
<1>1. ASSUME NEW f \in LoadIds
      PROVE  [load[f] EXCEPT !.doubt = @ \cup revs] \in LoadRec
  BY DEF LoadRec
<1> QED BY <1>1 DEF Doubtful

LEMMA PagesAreItems ==
    ASSUME log \in Seq(Items), NEW kind, NEW off
    PROVE  Page(Stored \cap kind, off) \subseteq Items /\ Stored \subseteq Items
BY DEF Page, Stored, Rev

(* One slice more. *)
SliceTaken(f, pc, kind, next) ==
    /\ load[f].pc = pc
    /\ load' \in [LoadIds -> LoadRec]
    /\ \A g \in LoadIds \ {f} : load'[g] = load[g]
    /\ load'[f].rev = load[f].rev /\ load'[f].doubt = load[f].doubt
    /\ load'[f].got = load[f].got \cup Page(Stored \cap kind, load[f].off)
    /\ load'[f].off = IF HasMore(Stored \cap kind, load[f].off) THEN load[f].off + PageSize ELSE 0
    /\ load'[f].pc = IF HasMore(Stored \cap kind, load[f].off) THEN pc ELSE next

LEMMA PageKeepsType ==
    ASSUME ViewShape, NEW f \in LoadIds, NEW pc \in {"nodes", "edges"}, NEW next \in {"edges", "rev"},
           NEW kind, ReadPage(f, pc, kind, next)
    PROVE  SliceTaken(f, pc, kind, next)
<1> DEFINE got == load[f].got \cup Page(Stored \cap kind, load[f].off)
           off == IF HasMore(Stored \cap kind, load[f].off) THEN load[f].off + PageSize ELSE 0
           to == IF HasMore(Stored \cap kind, load[f].off) THEN pc ELSE next
<1>1. load \in [LoadIds -> LoadRec] /\ load[f] \in LoadRec
  BY DEF ViewShape
<1>2. got \in SUBSET Items
  BY <1>1, PagesAreItems DEF LoadRec, ViewShape
<1>3. off \in Nat
  BY <1>1, GraphAssumption DEF LoadRec
<1>4. to \in {"nodes", "edges", "rev"}
  OBVIOUS
<1>5. load[f].pc = pc /\ load' = [load EXCEPT ![f].got = got, ![f].off = off, ![f].pc = to]
  BY DEF ReadPage
<1> HIDE DEF got, off, to
<1>6. /\ \A g \in LoadIds \ {f} : load'[g] = load[g]
      /\ load'[f].rev = load[f].rev /\ load'[f].doubt = load[f].doubt
      /\ load'[f].got = got /\ load'[f].off = off /\ load'[f].pc = to
  BY <1>1, <1>5 DEF LoadRec
<1>7. load' \in [LoadIds -> LoadRec]
  <2> DEFINE l == [load EXCEPT ![f].got = got]
             m == [l EXCEPT ![f].off = off]
             n == [m EXCEPT ![f].pc = to]
  <2>1. l \in [LoadIds -> LoadRec]
    BY <1>1, <1>2, LoadFieldKeeps
  <2> HIDE DEF l
  <2>2. m \in [LoadIds -> LoadRec]
    BY <1>3, <2>1, LoadFieldKeeps
  <2> HIDE DEF m
  <2>3. n \in [LoadIds -> LoadRec]
    BY <1>4, <2>2, LoadFieldKeeps
  <2>4. load' = n
    BY <1>5 DEF l, m
  <2> QED BY <2>3, <2>4
<1> QED BY <1>5, <1>6, <1>7 DEF got, off, to, SliceTaken

LEMMA DoneKeepsType ==
    ASSUME ViewShape, NEW f \in LoadIds, Done(f)
    PROVE  /\ load' \in [LoadIds -> LoadRec] /\ load'[f].pc = "idle"
           /\ \A g \in LoadIds \ {f} : load'[g] = load[g]
BY LoadsAreRecords DEF ViewShape, Done

-----------------------------------------------------------------------------
LEMMA LoggedUpsert ==
    ASSUME TracedInv, NEW item \in Items, Upsert(item)
    PROVE  /\ load' \in [LoadIds -> LoadRec]
           /\ log' = Append(log, item) /\ log' \in Seq(Items) /\ Len(log') = Len(log) + 1
           /\ \A r \in 1..Len(log) : log'[r] = log[r]
           /\ log'[Len(log) + 1] = item
           /\ Len(log) \in Nat
<1>1. log \in Seq(Items) /\ Len(log) \in Nat /\ log' = Append(log, item)
  BY DEF TracedInv, ViewShape, Upsert
<1>2. load' \in [LoadIds -> LoadRec]
  <2>1. Doubtful({Rev + 1}) /\ {Rev + 1} \in SUBSET Nat
    BY <1>1 DEF Upsert, Rev
  <2> QED BY <2>1, DoubtfulLoads DEF TracedInv, ViewShape
<1> QED BY <1>1, <1>2

LEMMA UpsertKeepsTraced ==
    ASSUME TracedInv, NEW item \in Items, Upsert(item), pending' \in {pending, Len(log) + 1},
           UNCHANGED <<trace, feed, snapshot>>
    PROVE  TracedInv'
<1>1. /\ trace \in Seq(0..Len(log)) /\ pending \in 0..Len(log)
      /\ feed \in Seq(1..Len(trace)) /\ Len(trace) \in Nat /\ Len(feed) \in Nat
  BY DEF TracedInv, ViewShape
<1>2. /\ load' \in [LoadIds -> LoadRec] /\ log' \in Seq(Items) /\ Len(log') = Len(log) + 1
      /\ \A r \in 1..Len(log) : log'[r] = log[r]
      /\ Len(log) \in Nat
  BY LoggedUpsert
<1>3. trace' \in Seq(0..Len(log')) /\ pending' \in 0..Len(log')
  BY <1>1, <1>2
<1>4. /\ feed' \in Seq(1..Len(trace')) /\ Len(trace') >= Len(trace) /\ Len(feed') >= Len(feed) /\ Len(log') >= Len(log)
      /\ \A j \in 1..Len(trace) : trace'[j] = trace[j]
      /\ \A j \in 1..Len(feed) : feed'[j] = feed[j]
  BY <1>1, <1>2
<1> QED BY <1>2, <1>3, <1>4, GrowthKeeps

LEMMA PublishKeepsTraced ==
    ASSUME TracedInv, Publish
    PROVE  TracedInv'
<1>1. /\ trace \in Seq(0..Len(log)) /\ pending \in 0..Len(log) /\ log \in Seq(Items) /\ Len(log) \in Nat
      /\ feed \in Seq(1..Len(trace)) /\ Len(trace) \in Nat /\ Len(feed) \in Nat
      /\ load \in [LoadIds -> LoadRec]
  BY DEF TracedInv, ViewShape
<1>2. trace' = Append(trace, pending) /\ feed' \in {feed, Append(feed, Len(trace'))}
      /\ pending' = 0 /\ UNCHANGED <<log, load, snapshot>>
  BY DEF Publish, storeVars
<1>3. /\ trace' \in Seq(0..Len(log')) /\ Len(trace') = Len(trace) + 1
      /\ \A j \in 1..Len(trace) : trace'[j] = trace[j]
  BY <1>1, <1>2
<1>4. /\ feed' \in Seq(1..Len(trace')) /\ Len(feed') >= Len(feed)
      /\ \A j \in 1..Len(feed) : feed'[j] = feed[j]
  <2>1. feed \in Seq(1..Len(trace')) /\ Len(trace') \in 1..Len(trace')
    BY <1>1, <1>3
  <2>2. CASE feed' = feed
    BY <2>1, <2>2, <1>1
  <2>3. CASE feed' = Append(feed, Len(trace'))
    BY <2>1, <2>3, <1>1
  <2> QED BY <1>2, <2>2, <2>3
<1>5. /\ log' \in Seq(Items) /\ Len(log') >= Len(log) /\ Len(trace') >= Len(trace) /\ pending' \in 0..Len(log')
      /\ \A r \in 1..Len(log) : log'[r] = log[r]
  BY <1>1, <1>2, <1>3
<1> QED BY <1>1, <1>2, <1>3, <1>4, <1>5, GrowthKeeps

LEMMA ReadFileKeepsTraced ==
    ASSUME TracedInv, ReadFile
    PROVE  TracedInv'
<1>1. /\ trace \in Seq(0..Len(log)) /\ pending \in 0..Len(log) /\ log \in Seq(Items) /\ Len(log) \in Nat
      /\ feed \in Seq(1..Len(trace)) /\ Len(trace) \in Nat /\ Len(feed) \in Nat
      /\ load \in [LoadIds -> LoadRec]
  BY DEF TracedInv, ViewShape
<1> DEFINE unseen == (1..Len(trace)) \ Shown
<1>2. Cardinality(unseen) \in Nat
  <2>1. IsFiniteSet(1..Len(trace))
    BY <1>1, FS_Interval
  <2> QED BY <2>1, FS_Subset, FS_CardinalityType
<1>3. PICK rest \in [1..Cardinality(unseen) -> unseen] : feed' = feed \o rest
  BY DEF ReadFile
<1>4. rest \in Seq(1..Len(trace))
  <2> HIDE DEF unseen
  <2>1. unseen \subseteq 1..Len(trace)
    BY DEF unseen
  <2>2. rest \in [1..Cardinality(unseen) -> 1..Len(trace)]
    BY <1>3, <2>1
  <2> QED BY <1>2, <2>2
<1>5. UNCHANGED <<log, trace, pending, load, snapshot>>
  BY DEF ReadFile, storeVars, memoryVars
<1>6. /\ feed' \in Seq(1..Len(trace)) /\ Len(feed') >= Len(feed)
      /\ \A j \in 1..Len(feed) : feed'[j] = feed[j]
  BY <1>1, <1>3, <1>4, AppendedRows
<1>7. /\ log' \in Seq(Items) /\ Len(log') >= Len(log) /\ Len(trace') >= Len(trace) /\ pending' \in 0..Len(log')
      /\ \A r \in 1..Len(log) : log'[r] = log[r]
      /\ trace' \in Seq(0..Len(log')) /\ feed' \in Seq(1..Len(trace'))
      /\ \A j \in 1..Len(trace) : trace'[j] = trace[j]
  BY <1>1, <1>5, <1>6
<1> QED BY <1>1, <1>5, <1>6, <1>7, GrowthKeeps

(* Nothing but the loads moves. *)
LEMMA OtherMovesKeepTraced ==
    ASSUME TracedInv, UNCHANGED <<log, trace, feed, snapshot>>, pending' \in {0, pending},
           load' \in [LoadIds -> LoadRec]
    PROVE  TracedInv'
<1>1. ViewShape'
  <2>1. pending' \in 0..Len(log')
    BY DEF TracedInv, ViewShape
  <2> QED BY <2>1 DEF TracedInv, ViewShape
<1>2. NothingTracedIsMissed'
  BY DEF TracedInv, NothingTracedIsMissed, RevOf
<1> QED BY <1>1, <1>2 DEF TracedInv

LEMMA LoadStepKeepsTraced ==
    ASSUME TracedInv, NEW f \in LoadIds, Advance(f) \/ SliceFails(f)
    PROVE  TracedInv'
<1>1. load \in [LoadIds -> LoadRec] /\ load[f] \in LoadRec /\ log \in Seq(Items) /\ Rev \in Nat
  BY DEF TracedInv, ViewShape, Rev
<1>2. CASE ReadNodes(f) \/ ReadEdges(f)
  <2>1. load' \in [LoadIds -> LoadRec]
    <3>1. \/ SliceTaken(f, "nodes", Nodes, "edges")
          \/ SliceTaken(f, "edges", Edges, "rev")
      BY <1>2, PageKeepsType DEF ReadNodes, ReadEdges, TracedInv
    <3> QED BY <3>1 DEF SliceTaken
  <2> QED BY <1>2, <2>1, OtherMovesKeepTraced DEF ReadNodes, ReadEdges, ReadPage, storeVars, memoryVars, feedVars
<1>3. CASE ReadRev(f)
  <2> DEFINE l == [load EXCEPT ![f].rev = Rev]
  <2>1. l \in [LoadIds -> LoadRec]
    BY <1>1, LoadFieldKeeps
  <2>2. load' = [l EXCEPT ![f].pc = "loaded"]
    BY <1>3 DEF ReadRev
  <2> HIDE DEF l
  <2>3. load' \in [LoadIds -> LoadRec]
    BY <2>1, <2>2, LoadFieldKeeps
  <2> QED BY <1>3, <2>3, OtherMovesKeepTraced DEF ReadRev, storeVars, memoryVars, feedVars
<1>4. CASE NoDatabase(f)
  <2>1. load' \in [LoadIds -> LoadRec]
    BY <1>1, <1>4, LoadFieldKeeps DEF NoDatabase
  <2> QED BY <1>4, <2>1, OtherMovesKeepTraced DEF NoDatabase, storeVars, memoryVars, feedVars
<1>5. CASE Loaded(f)
  <2>1. load' \in [LoadIds -> LoadRec]
    BY <1>5, DoneKeepsType DEF Loaded, TracedInv
  <2>2. /\ snapshot' = AfterFullLoad(load[f].got, load[f].rev, load[f].doubt)
        /\ load[f].got \in SUBSET Items /\ load[f].rev \in Nat /\ load[f].doubt \in SUBSET Nat
        /\ UNCHANGED <<log, pending, trace, feed>>
    BY <1>1, <1>5 DEF Loaded, LoadRec, storeVars, memoryVars, feedVars
  <2> QED BY <2>1, <2>2, ViewKeeps
<1>6. CASE Missing(f)
  <2>1. load' \in [LoadIds -> LoadRec]
    BY <1>6, DoneKeepsType DEF Missing, TracedInv
  <2>2. /\ snapshot' \in {snapshot, AfterFullLoad({}, 0, {})}
        /\ UNCHANGED <<log, pending, trace, feed>>
    BY <1>6 DEF Missing, storeVars, memoryVars, feedVars
  <2>3. CASE snapshot' = snapshot
    BY <2>1, <2>2, <2>3, OtherMovesKeepTraced
  <2>4. CASE snapshot' = AfterFullLoad({}, 0, {})
    <3>1. {} \in SUBSET Items /\ 0 \in Nat /\ {} \in SUBSET Nat
      OBVIOUS
    <3> QED BY <2>1, <2>2, <2>4, <3>1, ViewKeeps
  <2> QED BY <2>2, <2>3, <2>4
<1>7. CASE SliceFails(f)
  <2>1. load' \in [LoadIds -> LoadRec]
    BY <1>7, DoneKeepsType DEF SliceFails, TracedInv
  <2> QED BY <1>7, <2>1, ViewKeeps DEF SliceFails, storeVars, memoryVars, feedVars
<1> QED BY <1>2, <1>3, <1>4, <1>5, <1>6, <1>7 DEF Advance

LEMMA TracedInvHolds == GraphSpec => []TracedInv
<1>1. GraphInit => TracedInv
  <2> SUFFICES ASSUME GraphInit PROVE TracedInv
    OBVIOUS
  <2>1. log \in Seq(Items) /\ Len(log) \in Nat /\ 0 \in 0..Len(log)
    BY GraphAssumption DEF GraphInit
  <2>2. trace \in Seq(0..Len(log))
    <3>1. <<>> \in Seq(0..Len(log))
      OBVIOUS
    <3>2. <<0>> \in Seq(0..Len(log))
      <4>1. <<0>> = Append(<<>>, 0)
        OBVIOUS
      <4> QED BY <2>1, <3>1, <4>1, AppendProperties
    <3> QED BY <3>1, <3>2 DEF GraphInit
  <2>3. snapshot \in ViewRec /\ snapshot.last = 0 /\ snapshot.st = "loading"
    BY EmptyViewIsAView DEF GraphInit
  <2>4. load \in [LoadIds -> LoadRec]
    <3>1. [f \in LoadIds |-> NoLoad] \in [LoadIds -> LoadRec] /\ 1 \in LoadIds
      BY LoadsAreRecords, GraphAssumption DEF LoadIds
    <3> QED BY <3>1, LoadFieldKeeps DEF GraphInit
  <2>5. feed = <<>> /\ pending = 0
    BY DEF GraphInit
  <2> QED BY <2>1, <2>2, <2>3, <2>4, <2>5 DEF TracedInv, ViewShape, NothingTracedIsMissed
<1>2. TracedInv /\ [GraphNext]_graphVars => TracedInv'
  <2> SUFFICES ASSUME TracedInv, [GraphNext]_graphVars PROVE TracedInv'
    OBVIOUS
  <2>0. load \in [LoadIds -> LoadRec] /\ Own \subseteq Items /\ Others \subseteq Items
    BY GraphAssumption DEF TracedInv, ViewShape
  <2>1. ASSUME NEW i \in Own, TracedUpsert(i) PROVE TracedInv'
    BY <2>0, <2>1, UpsertKeepsTraced DEF TracedUpsert, Rev, feedVars
  <2>2. ASSUME NEW i \in Others, UntracedUpsert(i) PROVE TracedInv'
    BY <2>0, <2>2, UpsertKeepsTraced DEF UntracedUpsert, memoryVars, feedVars
  <2>3. ASSUME NEW i \in Others, Delete(i) PROVE TracedInv'
    <3>1. 1..Rev \in SUBSET Nat /\ Doubtful(1..Rev)
      BY <2>3 DEF Delete
    <3> QED BY <2>0, <2>3, <3>1, DoubtfulLoads, OtherMovesKeepTraced DEF Delete, memoryVars, feedVars
  <2>4. CASE MemoryDies
    BY <2>0, <2>4, OtherMovesKeepTraced DEF MemoryDies, storeVars, feedVars
  <2>5. CASE Incremental
    BY <2>0, <2>5, ViewKeeps DEF Incremental, storeVars, memoryVars, feedVars
  <2>6. CASE Refresh \/ Open
    <3>1. load' \in [LoadIds -> LoadRec]
      <4>1. 1 \in LoadIds /\ Fresh \in LoadRec
        BY LoadsAreRecords, GraphAssumption DEF LoadIds
      <4>2. [f \in LoadIds |-> NoLoad] \in [LoadIds -> LoadRec]
        BY LoadsAreRecords
      <4>3. CASE load' = [load EXCEPT ![1] = Fresh]
        BY <2>0, <4>1, <4>3, LoadFieldKeeps
      <4>4. CASE load' = [[f \in LoadIds |-> NoLoad] EXCEPT ![1] = Fresh]
        BY <4>1, <4>2, <4>4, LoadFieldKeeps
      <4> QED BY <2>6, <4>3, <4>4 DEF Refresh, Open
    <3> QED BY <2>6, <3>1, ViewKeeps DEF Refresh, Open, storeVars, memoryVars, feedVars
  <2>7. ASSUME NEW f \in Retries, Retry(f) PROVE TracedInv'
    <3>1. load' \in [LoadIds -> LoadRec]
      BY <2>0, <2>7, LoadFieldKeeps, LoadsAreRecords DEF Retry, Retries
    <3> QED BY <2>7, <3>1, OtherMovesKeepTraced DEF Retry, storeVars, memoryVars, feedVars
  <2>8. CASE CancelRetries
    <3>1. load' \in [LoadIds -> LoadRec]
      BY <2>0, <2>8, LoadsAreRecords DEF CancelRetries
    <3> QED BY <2>8, <3>1, OtherMovesKeepTraced DEF CancelRetries, storeVars, memoryVars, feedVars
  <2>9. CASE UNCHANGED graphVars
    BY <2>0, <2>9, OtherMovesKeepTraced DEF graphVars, storeVars, memoryVars, feedVars
  <2> QED BY <2>1, <2>2, <2>3, <2>4, <2>5, <2>6, <2>7, <2>8, <2>9,
             PublishKeepsTraced, ReadFileKeepsTraced, LoadStepKeepsTraced DEF GraphNext
<1> QED BY <1>1, <1>2, PTL DEF GraphSpec

(* Whatever the trace has shown is in the view, for any store, number of    *)
(* loads in flight and page size: rows that come before, during or after a  *)
(* load, late or in order, are looked at, and none is taken off the view    *)
(* (afterFullLoad, applyIncremental, mergeRows).                            *)
THEOREM TracedIsShown == GraphSpec => []NothingTracedIsMissed
<1>1. TracedInv => NothingTracedIsMissed
  BY DEF TracedInv, NothingTracedIsMissed
<1> QED BY <1>1, TracedInvHolds, PTL

-----------------------------------------------------------------------------
(***************************************************************************)
(* SilentViewIsWhole.  What a load has read of a kind it has up to its      *)
(* place in the order of the last writes: an upsert moves other items      *)
(* back, never forward, and a deletion puts all in doubt.  Deltas that are *)
(* each one more than what was known leave no revision out.                *)
(***************************************************************************)

(* Stored and Stamp, for any log. *)
Present(lg, gn) == {lg[r] : r \in 1..Len(lg)} \ gn

Latest(lg, i) == Max({r \in 1..Len(lg) : lg[r] = i})

Newer(lg, items, i) == {j \in items : Latest(lg, j) > Latest(lg, i)}

HasAll(l, kind, lg, gn) ==
    \A i \in Present(lg, gn) \cap kind : Latest(lg, i) \notin l.doubt => i \in l.got

HasFirst(l, kind, lg, gn) ==
    \A i \in Present(lg, gn) \cap kind :
        Latest(lg, i) \notin l.doubt =>
            i \in l.got \/ Cardinality(Newer(lg, Present(lg, gn) \cap kind, i)) >= l.off

LoadIsWhole(l, lg, gn) ==
    /\ l.pc = "nodes" => HasFirst(l, Nodes, lg, gn)
    /\ l.pc = "edges" => HasAll(l, Nodes, lg, gn) /\ HasFirst(l, Edges, lg, gn)
    /\ l.pc = "rev" => HasAll(l, Items, lg, gn)
    /\ l.pc = "loaded" =>
         /\ l.rev <= Len(lg)
         /\ \A i \in Present(lg, gn) : Latest(lg, i) <= l.rev /\ Latest(lg, i) \notin l.doubt => i \in l.got

ViewIsWhole(v, lg, gn) ==
    v.st = "ready" /\ ~v.warned /\ v.at > 0 =>
        /\ v.at <= Len(lg) /\ 0 < v.known /\ v.known <= Len(lg)
        /\ \A i \in Present(lg, gn) : Latest(lg, i) <= v.at /\ Latest(lg, i) \notin v.doubt => i \in v.items
        /\ \A r \in (v.at + 1)..v.known : lg[r] \in v.items

WholeInv ==
    /\ \A f \in LoadIds : LoadIsWhole(load[f], log, gone)
    /\ ViewIsWhole(snapshot, log, gone)

(* What is stored has a last write.                                         *)
LEMMA LatestIsLast ==
    ASSUME NEW lg \in Seq(Items), NEW gn, NEW i \in Present(lg, gn)
    PROVE  /\ Latest(lg, i) \in 1..Len(lg) /\ lg[Latest(lg, i)] = i
           /\ \A r \in 1..Len(lg) : lg[r] = i => r <= Latest(lg, i)
<1> DEFINE at == {r \in 1..Len(lg) : lg[r] = i}
<1>1. at # {} /\ at \in SUBSET (0..Len(lg)) /\ Len(lg) \in Nat
  BY DEF Present
<1>2. Max(at) \in at /\ \A r \in at : Max(at) >= r
  <2> HIDE DEF at
  <2> QED BY <1>1, MaxIsGreatest
<1> QED BY <1>2 DEF Latest

LEMMA PresentIsFinite ==
    ASSUME NEW lg \in Seq(Items), NEW gn
    PROVE  IsFiniteSet(Present(lg, gn))
<1> DEFINE values == {lg[r] : r \in 1..Len(lg)}
<1>1. IsFiniteSet(1..Len(lg))
  BY FS_Interval
<1>2. [r \in 1..Len(lg) |-> lg[r]] \in Surjection(1..Len(lg), values)
  BY DEF Surjection
<1>3. IsFiniteSet(values)
  BY <1>1, <1>2, FS_Surjection
<1>4. Present(lg, gn) \subseteq values
  BY DEF Present
<1> HIDE DEF values
<1> QED BY <1>3, <1>4, FS_Subset

(* An item is not newer than itself.                                        *)
LEMMA NewerAreFewer ==
    ASSUME NEW lg \in Seq(Items), NEW gn, NEW kind, NEW i \in Present(lg, gn) \cap kind
    PROVE  LET items == Present(lg, gn) \cap kind
           IN  /\ Cardinality(items) \in Nat /\ Cardinality(Newer(lg, items, i)) \in Nat
               /\ Cardinality(Newer(lg, items, i)) < Cardinality(items)
<1> DEFINE items == Present(lg, gn) \cap kind
<1>1. IsFiniteSet(items)
  BY PresentIsFinite, FS_Subset
<1>2. Latest(lg, i) \in Nat
  BY LatestIsLast
<1> HIDE DEF items
<1>3. Newer(lg, items, i) \subseteq items /\ i \notin Newer(lg, items, i)
  BY <1>2 DEF Newer
<1>4. i \in items
  BY DEF items
<1>5. /\ Cardinality(items) \in Nat /\ Cardinality(Newer(lg, items, i)) \in Nat
      /\ Cardinality(Newer(lg, items, i)) < Cardinality(items)
  BY <1>1, <1>3, <1>4, FS_Subset, FS_CardinalityType
<1> QED BY <1>5 DEF items

(* An upsert writes one item and leaves the others their stamps.            *)
LEMMA UpsertedIsLatest ==
    ASSUME NEW lg \in Seq(Items), NEW gn, NEW item \in Items
    PROVE  /\ Present(Append(lg, item), gn \ {item}) = Present(lg, gn) \cup {item}
           /\ Latest(Append(lg, item), item) = Len(lg) + 1
           /\ \A i \in Present(lg, gn) \ {item} : Latest(Append(lg, item), i) = Latest(lg, i)
<1> DEFINE l2 == Append(lg, item)
<1>1. /\ l2 \in Seq(Items) /\ Len(l2) = Len(lg) + 1 /\ Len(lg) \in Nat /\ l2[Len(lg) + 1] = item
      /\ \A r \in 1..Len(lg) : l2[r] = lg[r]
  OBVIOUS
<1> HIDE DEF l2
<1>2. 1..Len(l2) = 1..Len(lg) \cup {Len(lg) + 1}
  BY <1>1
<1>3. Present(l2, gn \ {item}) = Present(lg, gn) \cup {item}
  BY <1>1, <1>2 DEF Present
<1>4. Latest(l2, item) = Len(lg) + 1
  <2>1. item \in Present(l2, gn \ {item})
    BY <1>3
  <2>2. Latest(l2, item) \in 1..Len(l2) /\ \A r \in 1..Len(l2) : l2[r] = item => r <= Latest(l2, item)
    BY <1>1, <2>1, LatestIsLast
  <2>3. Len(lg) + 1 <= Latest(l2, item)
    BY <1>1, <2>2
  <2> QED BY <1>1, <2>2, <2>3
<1>5. ASSUME NEW i \in Present(lg, gn) \ {item}
      PROVE  Latest(l2, i) = Latest(lg, i)
  <2>1. {r \in 1..Len(l2) : l2[r] = i} = {r \in 1..Len(lg) : lg[r] = i}
    BY <1>1, <1>2
  <2> QED BY <2>1 DEF Latest
<1> QED BY <1>3, <1>4, <1>5 DEF l2

(* An upsert puts its own revision in doubt and moves the others back.      *)
LEMMA UpsertMovesBack ==
    ASSUME NEW lg \in Seq(Items), NEW gn, NEW item \in Items, NEW kind,
           NEW i \in Present(Append(lg, item), gn \ {item}) \cap kind,
           Latest(Append(lg, item), i) # Len(lg) + 1
    PROVE  /\ i \in Present(lg, gn) \cap kind /\ Latest(Append(lg, item), i) = Latest(lg, i)
           /\ Cardinality(Newer(Append(lg, item), Present(Append(lg, item), gn \ {item}) \cap kind, i))
                >= Cardinality(Newer(lg, Present(lg, gn) \cap kind, i))
<1> DEFINE l2 == Append(lg, item)
           g2 == gn \ {item}
           old == Newer(lg, Present(lg, gn) \cap kind, i)
           new == Newer(l2, Present(l2, g2) \cap kind, i)
<1>1. /\ Present(l2, g2) = Present(lg, gn) \cup {item}
      /\ Latest(l2, item) = Len(lg) + 1
      /\ \A j \in Present(lg, gn) \ {item} : Latest(l2, j) = Latest(lg, j)
  BY UpsertedIsLatest
<1>2. i # item /\ i \in Present(lg, gn) \cap kind /\ Latest(l2, i) = Latest(lg, i)
  BY <1>1
<1>3. Latest(lg, i) \in 1..Len(lg) /\ Len(lg) \in Nat
  BY <1>2, LatestIsLast
<1>4. old \subseteq new
  <2> SUFFICES ASSUME NEW j \in old PROVE j \in new
    OBVIOUS
  <2>1. j \in Present(lg, gn) \cap kind /\ Latest(lg, j) > Latest(lg, i)
    BY DEF Newer
  <2>2. Latest(l2, j) > Latest(l2, i)
    BY <1>1, <1>2, <1>3, <2>1
  <2> QED BY <1>1, <2>1, <2>2 DEF Newer
<1>5. IsFiniteSet(new)
  <2>1. l2 \in Seq(Items) /\ new \subseteq Present(l2, g2)
    BY DEF Newer
  <2> QED BY <2>1, PresentIsFinite, FS_Subset
<1>6. Cardinality(old) <= Cardinality(new) /\ Cardinality(old) \in Nat /\ Cardinality(new) \in Nat
  <2> HIDE DEF old, new
  <2> QED BY <1>4, <1>5, FS_Subset, FS_CardinalityType
<1> QED BY <1>2, <1>6

LEMMA UpsertKeepsLoad ==
    ASSUME NEW lg \in Seq(Items), NEW gn, NEW item \in Items, NEW l \in LoadRec, NEW m \in LoadRec,
           LoadIsWhole(l, lg, gn),
           m.pc = l.pc, m.off = l.off, m.got = l.got, m.rev = l.rev,
           m.pc \in {"nodes", "edges", "rev", "loaded"} => m.doubt = l.doubt \cup {Len(lg) + 1}
    PROVE  LoadIsWhole(m, Append(lg, item), gn \ {item})
<1> DEFINE l2 == Append(lg, item)
           g2 == gn \ {item}
<1>1. ASSUME m.pc \in {"nodes", "edges", "rev", "loaded"}, NEW kind, HasAll(l, kind, lg, gn)
      PROVE  HasAll(m, kind, l2, g2)
  <2> SUFFICES ASSUME NEW i \in Present(l2, g2) \cap kind, Latest(l2, i) \notin m.doubt
               PROVE  i \in m.got
    BY DEF HasAll
  <2>1. Latest(l2, i) # Len(lg) + 1 /\ Latest(l2, i) \notin l.doubt
    BY <1>1
  <2>2. i \in Present(lg, gn) \cap kind /\ Latest(l2, i) = Latest(lg, i)
    BY <2>1, UpsertedIsLatest
  <2> QED BY <1>1, <2>1, <2>2 DEF HasAll
<1>2. ASSUME m.pc \in {"nodes", "edges", "rev", "loaded"}, NEW kind, HasFirst(l, kind, lg, gn)
      PROVE  HasFirst(m, kind, l2, g2)
  <2> SUFFICES ASSUME NEW i \in Present(l2, g2) \cap kind, Latest(l2, i) \notin m.doubt
               PROVE  i \in m.got \/ Cardinality(Newer(l2, Present(l2, g2) \cap kind, i)) >= m.off
    BY DEF HasFirst
  <2>1. Latest(l2, i) # Len(lg) + 1 /\ Latest(l2, i) \notin l.doubt
    BY <1>2
  <2>2. /\ i \in Present(lg, gn) \cap kind /\ Latest(l2, i) = Latest(lg, i)
        /\ Cardinality(Newer(l2, Present(l2, g2) \cap kind, i)) >= Cardinality(Newer(lg, Present(lg, gn) \cap kind, i))
    BY <2>1, UpsertMovesBack
  <2>3. i \in l.got \/ Cardinality(Newer(lg, Present(lg, gn) \cap kind, i)) >= l.off
    BY <1>2, <2>1, <2>2 DEF HasFirst
  <2>4. /\ l.off \in Nat /\ Cardinality(Newer(lg, Present(lg, gn) \cap kind, i)) \in Nat
        /\ Cardinality(Newer(l2, Present(l2, g2) \cap kind, i)) \in Nat
    <3>1. l2 \in Seq(Items) /\ l.off \in Nat
      BY DEF LoadRec
    <3> QED BY <2>2, <3>1, NewerAreFewer
  <2> QED BY <2>2, <2>3, <2>4
<1>3. ASSUME m.pc = "loaded"
      PROVE  /\ m.rev <= Len(l2)
             /\ \A i \in Present(l2, g2) : Latest(l2, i) <= m.rev /\ Latest(l2, i) \notin m.doubt => i \in m.got
  <2>1. l.rev <= Len(lg) /\ l.rev \in Nat /\ Len(lg) \in Nat /\ Len(l2) = Len(lg) + 1
    BY <1>3 DEF LoadIsWhole, LoadRec
  <2>2. ASSUME NEW i \in Present(l2, g2), Latest(l2, i) <= m.rev, Latest(l2, i) \notin m.doubt
        PROVE  i \in m.got
    <3>1. Latest(l2, i) # Len(lg) + 1
      BY <1>3, <2>2
    <3>2. i \in Present(lg, gn) /\ Latest(l2, i) = Latest(lg, i)
      BY <3>1, UpsertedIsLatest, SMTT(30)
    <3> QED BY <1>3, <2>2, <3>2 DEF LoadIsWhole
  <2>3. m.rev <= Len(l2)
    <3> HIDE DEF l2
    <3> QED BY <2>1
  <2> QED BY <2>2, <2>3
<1> QED BY <1>1, <1>2, <1>3 DEF LoadIsWhole

(* A deletion puts all that was written in doubt.                           *)
LEMMA DeleteKeepsLoad ==
    ASSUME NEW lg \in Seq(Items), NEW gn, NEW g2, NEW l \in LoadRec, NEW m \in LoadRec,
           LoadIsWhole(l, lg, gn), m.pc = l.pc, m.rev = l.rev,
           m.pc \in {"nodes", "edges", "rev", "loaded"} => 1..Len(lg) \subseteq m.doubt
    PROVE  LoadIsWhole(m, lg, g2)
BY LatestIsLast DEF LoadIsWhole, HasAll, HasFirst

(* A page has the next items, and the last page the rest.                   *)
LEMMA PageIsRead ==
    ASSUME ViewShape, NEW l \in LoadRec, NEW m \in LoadRec, NEW kind, HasFirst(l, kind, log, gone),
           m.doubt = l.doubt, m.got = l.got \cup Page(Stored \cap kind, l.off),
           m.off = IF HasMore(Stored \cap kind, l.off) THEN l.off + PageSize ELSE 0
    PROVE  /\ HasFirst(m, kind, log, gone)
           /\ ~HasMore(Stored \cap kind, l.off) => HasAll(m, kind, log, gone)
<1> DEFINE items == Stored \cap kind
           place(i) == Cardinality(Newer(log, items, i))
<1>1. Stored = Present(log, gone) /\ log \in Seq(Items)
  BY DEF Stored, Present, Rev, ViewShape
<1>2. l.off \in Nat /\ PageSize \in Nat \ {0}
  BY GraphAssumption DEF LoadRec
<1>3. ASSUME NEW i \in items
      PROVE  place(i) \in Nat /\ Cardinality(items) \in Nat /\ place(i) < Cardinality(items)
  BY <1>1, NewerAreFewer
<1>4. ASSUME NEW i \in items, place(i) \in l.off..(l.off + PageSize - 1)
      PROVE  i \in Page(items, l.off)
  <2>1. Newer(log, items, i) = {j \in items : Stamp(j) > Stamp(i)}
    BY DEF Newer, Latest, Stamp, Rev
  <2> HIDE DEF items
  <2> QED BY <1>4, <2>1 DEF Page
<1> HIDE DEF place
<1>5. ASSUME NEW i \in items, Latest(log, i) \notin m.doubt, i \notin m.got
      PROVE  place(i) >= l.off + PageSize
  <2>1. i \notin l.got /\ i \notin Page(items, l.off)
    BY <1>5
  <2>2. place(i) >= l.off
    BY <1>1, <1>5, <2>1 DEF HasFirst, place
  <2> QED BY <1>2, <1>3, <1>4, <2>1, <2>2
<1>6. ASSUME NEW i \in items, ~HasMore(items, l.off)
      PROVE  place(i) < l.off + PageSize
  BY <1>2, <1>3, <1>6, SMTT(30) DEF HasMore
<1>7. ASSUME ~HasMore(items, l.off)
      PROVE  HasAll(m, kind, log, gone)
  <2>1. ASSUME NEW i \in items, Latest(log, i) \notin m.doubt, i \notin m.got
        PROVE  FALSE
    BY <1>2, <1>3, <1>5, <1>6, <1>7, <2>1, SMTT(30)
  <2> QED BY <1>1, <2>1 DEF HasAll
<1>8. ASSUME HasMore(items, l.off)
      PROVE  HasFirst(m, kind, log, gone)
  BY <1>1, <1>5, <1>8 DEF HasFirst, place
<1>9. HasAll(m, kind, log, gone) => HasFirst(m, kind, log, gone)
  BY DEF HasAll, HasFirst
<1> QED BY <1>7, <1>8, <1>9

(* Where nothing of a kind is read yet, all of it is to come.               *)
LEMMA NothingIsBehind ==
    ASSUME NEW lg \in Seq(Items), NEW gn, NEW l, NEW kind, l.off = 0
    PROVE  HasFirst(l, kind, lg, gn)
BY NewerAreFewer DEF HasFirst

-----------------------------------------------------------------------------
(* The view.                                                                *)

LEMMA UpsertKeepsView ==
    ASSUME NEW lg \in Seq(Items), NEW gn, NEW item \in Items, NEW v \in ViewRec, ViewIsWhole(v, lg, gn)
    PROVE  ViewIsWhole(v, Append(lg, item), gn \ {item})
<1> DEFINE l2 == Append(lg, item)
           g2 == gn \ {item}
<1> SUFFICES ASSUME v.st = "ready" /\ ~v.warned /\ v.at > 0
             PROVE  /\ v.at <= Len(l2) /\ 0 < v.known /\ v.known <= Len(l2)
                    /\ \A i \in Present(l2, g2) : Latest(l2, i) <= v.at /\ Latest(l2, i) \notin v.doubt => i \in v.items
                    /\ \A r \in (v.at + 1)..v.known : l2[r] \in v.items
  BY DEF ViewIsWhole
<1>1. /\ v.at <= Len(lg) /\ 0 < v.known /\ v.known <= Len(lg)
      /\ \A i \in Present(lg, gn) : Latest(lg, i) <= v.at /\ Latest(lg, i) \notin v.doubt => i \in v.items
      /\ \A r \in (v.at + 1)..v.known : lg[r] \in v.items
  BY DEF ViewIsWhole
<1>2. v.at \in Nat /\ v.known \in Nat /\ Len(lg) \in Nat
  BY DEF ViewRec
<1>3. Len(l2) = Len(lg) + 1 /\ \A r \in 1..Len(lg) : l2[r] = lg[r]
  OBVIOUS
<1>4. ASSUME NEW i \in Present(l2, g2), Latest(l2, i) <= v.at, Latest(l2, i) \notin v.doubt
      PROVE  i \in v.items
  <2>1. Latest(l2, i) # Len(lg) + 1
    BY <1>1, <1>2, <1>4
  <2>2. i \in Present(lg, gn) /\ Latest(l2, i) = Latest(lg, i)
    BY <2>1, UpsertedIsLatest
  <2> QED BY <1>1, <1>4, <2>2
<1>5. ASSUME NEW r \in (v.at + 1)..v.known
      PROVE  l2[r] \in v.items
  <2>1. r \in 1..Len(lg)
    BY <1>1, <1>2
  <2> QED BY <1>1, <1>3, <2>1
<1>6. v.at <= Len(l2) /\ 0 < v.known /\ v.known <= Len(l2)
  <2> HIDE DEF l2
  <2> QED BY <1>1, <1>2, <1>3
<1> QED BY <1>4, <1>5, <1>6

(* A deletion only takes from what a view must have.                        *)
LEMMA DeleteKeepsView ==
    ASSUME NEW lg \in Seq(Items), NEW gn, NEW item, NEW v \in ViewRec, ViewIsWhole(v, lg, gn)
    PROVE  ViewIsWhole(v, lg, gn \cup {item})
<1>1. Present(lg, gn \cup {item}) \subseteq Present(lg, gn)
  BY DEF Present
<1> QED BY <1>1 DEF ViewIsWhole

(* Deltas that are each one more than what was known leave none out.        *)
LEMMA NoneIsLeftOut ==
    ASSUME ViewShape, NEW from \in Nat \ {0}, NEW start \in Nat,
           start > 0 \/ (Deltas(from) # {} /\ RevOf(Min(Deltas(from))) = 1),
           \A i \in Deltas(from) : ~OutOfStep(i, Deltas(from), start)
    PROVE  \A i \in Deltas(from) : \A r \in (start + 1)..RevOf(i) : \E j \in Deltas(from) : RevOf(j) = r
<1> DEFINE deltas == Deltas(from)
           Found(i) == \A r \in (start + 1)..RevOf(i) : \E j \in deltas : RevOf(j) = r
           bad == {i \in deltas : ~Found(i)}
<1> SUFFICES ASSUME bad # {} PROVE FALSE
  OBVIOUS
<1>1. deltas \subseteq Nat /\ \A i \in deltas : RevOf(i) \in Nat \ {0}
  BY DeltaIsLogged
<1>2. PICK i \in bad : \A j \in bad : i <= j
  BY <1>1, LeastNatural
<1> DEFINE before == {j \in deltas : j < i}
<1>3. i \in deltas /\ ~Found(i) /\ i \in Nat
  BY <1>1
<1>4. \A j \in before : Found(j)
  <2>1. \A j \in before : j \notin bad
    BY <1>1, <1>2, <1>3
  <2> QED BY <2>1
<1>5. ASSUME before = {}
      PROVE  FALSE
  <2>1. KnownAt(i, deltas, start) = start
    BY <1>5 DEF KnownAt
  <2>2. CASE start > 0
    <3>1. RevOf(i) = start + 1
      BY <1>3, <2>1, <2>2 DEF OutOfStep
    <3>2. Found(i)
      BY <1>3, <3>1
    <3> QED BY <1>3, <3>2
  <2>3. CASE ~(start > 0)
    <3>1. start = 0 /\ RevOf(Min(deltas)) = 1
      BY <2>3
    <3>2. Min(deltas) \in deltas /\ Min(deltas) <= i
      BY <1>3, LastDelta
    <3>3. i <= Min(deltas)
      BY <1>1, <1>3, <1>5, <3>2
    <3>4. RevOf(i) = 1
      BY <1>1, <1>3, <3>1, <3>2, <3>3
    <3>5. Found(i)
      BY <1>3, <3>1, <3>4
    <3> QED BY <1>3, <3>5
  <2> QED BY <2>2, <2>3
<1>6. ASSUME before # {}
      PROVE  FALSE
  <2> DEFINE p == Max(before)
  <2>1. p \in before
    <3>1. before \in SUBSET (0..i)
      BY <1>1, <1>3
    <3> HIDE DEF before
    <3> QED BY <1>3, <1>6, <3>1, MaxIsGreatest
  <2>2. KnownAt(i, deltas, start) = RevOf(p)
    BY <1>6 DEF KnownAt
  <2>3. RevOf(p) \in Nat \ {0} /\ Found(p)
    BY <1>1, <1>4, <2>1
  <2> HIDE DEF p
  <2>4. RevOf(i) = RevOf(p) + 1
    BY <1>3, <2>2, <2>3 DEF OutOfStep
  <2>5. ASSUME NEW r \in (start + 1)..RevOf(i)
        PROVE  \E j \in deltas : RevOf(j) = r
    <3>1. r \in (start + 1)..RevOf(p) \/ r = RevOf(i)
      BY <2>3, <2>4
    <3> QED BY <1>3, <2>3, <3>1
  <2> QED BY <1>3, <2>5
<1> QED BY <1>5, <1>6

(* A view that is whole stays so when the deltas are applied.               *)
LEMMA DeltasKeepView ==
    ASSUME ViewShape, NEW from \in Nat \ {0}, NEW v \in ViewRec, NEW c \in BOOLEAN, v.st = "ready",
           ViewIsWhole(v, log, gone)
    PROVE  ViewIsWhole(ApplyDeltas(v, from, c), log, gone)
<1> DEFINE w == ApplyDeltas(v, from, c)
           deltas == Deltas(from)
           start == StartRev(deltas, v.known, c)
<1>1. /\ w \in ViewRec
      /\ w.st = "ready" /\ w.at = v.at /\ w.doubt = v.doubt
      /\ w.items = v.items \cup {log[RevOf(i)] : i \in deltas}
      /\ w.known = IF deltas = {} THEN start ELSE RevOf(Max(deltas))
      /\ w.warned = (v.warned \/ \E i \in deltas : OutOfStep(i, deltas, start))
  BY AppliedView
<1> HIDE DEF w
<1> SUFFICES ASSUME w.st = "ready" /\ ~w.warned /\ w.at > 0 PROVE ViewIsWhole(w, log, gone)
  BY DEF ViewIsWhole, w
<1>2. v.at > 0 /\ ~v.warned /\ \A i \in deltas : ~OutOfStep(i, deltas, start)
  BY <1>1
<1>3. /\ v.at <= Rev /\ 0 < v.known /\ v.known <= Rev
      /\ \A i \in Present(log, gone) : Latest(log, i) <= v.at /\ Latest(log, i) \notin v.doubt => i \in v.items
      /\ \A r \in (v.at + 1)..v.known : log[r] \in v.items
  BY <1>2 DEF ViewIsWhole, Rev
<1>4. v.at \in Nat /\ v.known \in Nat /\ Rev \in Nat
  BY DEF ViewRec, ViewShape, Rev
<1>5. CASE deltas = {}
  <2>1. w.known = v.known
    BY <1>1, <1>5 DEF StartRev
  <2> QED BY <1>1, <1>3, <2>1 DEF ViewIsWhole, Rev
<1>6. CASE deltas # {}
  <2>1. /\ start \in {0, v.known} /\ start \in Nat
        /\ start > 0 \/ RevOf(Min(deltas)) = 1
    BY <1>3, <1>4 DEF StartRev
  <2> HIDE DEF start
  <2>2. Max(deltas) \in deltas
    BY <1>6, LastDelta
  <2>3. w.known = RevOf(Max(deltas)) /\ w.known \in 1..Rev
    BY <1>1, <1>6, <2>2, DeltaIsLogged
  <2>4. \A r \in (start + 1)..w.known : \E j \in deltas : RevOf(j) = r
    BY <1>2, <1>6, <2>1, <2>2, <2>3, NoneIsLeftOut
  <2>5. ASSUME NEW r \in (w.at + 1)..w.known
        PROVE  log[r] \in w.items
    <3>1. r \in (start + 1)..w.known \/ (start = v.known /\ r \in (v.at + 1)..v.known)
      BY <1>1, <1>4, <2>1, <2>3
    <3>2. CASE r \in (start + 1)..w.known
      <4>1. PICK j \in deltas : RevOf(j) = r
        BY <2>4, <3>2
      <4> QED BY <1>1, <4>1
    <3>3. CASE r \in (v.at + 1)..v.known
      BY <1>1, <1>3, <3>3
    <3> QED BY <3>1, <3>2, <3>3
  <2>6. \A i \in Present(log, gone) : Latest(log, i) <= w.at /\ Latest(log, i) \notin w.doubt => i \in w.items
    BY <1>1, <1>3
  <2>7. w.at <= Len(log) /\ 0 < w.known /\ w.known <= Len(log)
    BY <1>1, <1>3, <1>4, <2>3 DEF Rev
  <2> QED BY <2>5, <2>6, <2>7 DEF ViewIsWhole
<1> QED BY <1>5, <1>6

-----------------------------------------------------------------------------
(* The steps.                                                               *)

LEMMA RestKeepsWhole ==
    ASSUME TracedInv, WholeInv, UNCHANGED <<log, gone, snapshot>>,
           \A f \in LoadIds : load'[f] = load[f] \/ LoadIsWhole(load'[f], log, gone)
    PROVE  WholeInv'
<1>1. ASSUME NEW f \in LoadIds
      PROVE  LoadIsWhole(load'[f], log', gone')
  BY DEF WholeInv
<1>2. ViewIsWhole(snapshot', log', gone')
  BY DEF WholeInv
<1> QED BY <1>1, <1>2 DEF WholeInv

LEMMA FreshLoadsAreWhole ==
    ASSUME TracedInv
    PROVE  LoadIsWhole(NoLoad, log, gone) /\ LoadIsWhole(Fresh, log, gone)
<1>1. LoadIsWhole(NoLoad, log, gone)
  BY LoadsAreRecords DEF LoadIsWhole
<1>2. Fresh.pc = "nodes" /\ Fresh.off = 0
  BY LoadsAreRecords
<1>3. HasFirst(Fresh, Nodes, log, gone)
  BY <1>2, NothingIsBehind DEF TracedInv, ViewShape
<1> QED BY <1>1, <1>2, <1>3 DEF LoadIsWhole

LEMMA UpsertKeepsWhole ==
    ASSUME TracedInv, WholeInv, NEW item \in Items, Upsert(item), UNCHANGED snapshot
    PROVE  WholeInv'
<1>1. /\ log' = Append(log, item) /\ gone' = gone \ {item} /\ log \in Seq(Items)
      /\ load \in [LoadIds -> LoadRec] /\ load' \in [LoadIds -> LoadRec] /\ snapshot \in ViewRec
  BY LoggedUpsert DEF Upsert, TracedInv, ViewShape
<1>2. ASSUME NEW f \in LoadIds
      PROVE  LoadIsWhole(load'[f], log', gone')
  <2> DEFINE l == load[f]
             m == load'[f]
  <2>1. m = IF l.pc = "idle" THEN l ELSE [l EXCEPT !.doubt = @ \cup {Len(log) + 1}]
    BY DEF Upsert, Doubtful, Rev
  <2>2. /\ l \in LoadRec /\ m \in LoadRec
        /\ m.pc = l.pc /\ m.off = l.off /\ m.got = l.got /\ m.rev = l.rev
        /\ m.pc \in {"nodes", "edges", "rev", "loaded"} => m.doubt = l.doubt \cup {Len(log) + 1}
    <3>1. l \in LoadRec /\ m \in LoadRec
      BY <1>1
    <3> HIDE DEF l, m
    <3> QED BY <2>1, <3>1 DEF LoadRec
  <2>3. LoadIsWhole(l, log, gone)
    BY DEF WholeInv
  <2> HIDE DEF l, m
  <2>4. LoadIsWhole(m, Append(log, item), gone \ {item})
    BY <1>1, <2>2, <2>3, UpsertKeepsLoad
  <2> QED BY <1>1, <2>4 DEF m
<1>3. ViewIsWhole(snapshot', log', gone')
  BY <1>1, UpsertKeepsView DEF WholeInv
<1> QED BY <1>2, <1>3 DEF WholeInv

LEMMA DeleteKeepsWhole ==
    ASSUME TracedInv, WholeInv, NEW item \in Items, Delete(item)
    PROVE  WholeInv'
<1>1. /\ log' = log /\ gone' = gone \cup {item} /\ log \in Seq(Items) /\ snapshot' = snapshot
      /\ load \in [LoadIds -> LoadRec] /\ snapshot \in ViewRec /\ Doubtful(1..Rev) /\ 1..Rev \in SUBSET Nat
  BY DEF Delete, TracedInv, ViewShape
<1>2. load' \in [LoadIds -> LoadRec]
  BY <1>1, DoubtfulLoads
<1>3. ASSUME NEW f \in LoadIds
      PROVE  LoadIsWhole(load'[f], log', gone')
  <2> DEFINE l == load[f]
             m == load'[f]
  <2>1. m = IF l.pc = "idle" THEN l ELSE [l EXCEPT !.doubt = @ \cup 1..Len(log)]
    BY <1>1 DEF Doubtful, Rev
  <2>2. /\ l \in LoadRec /\ m \in LoadRec
        /\ m.pc = l.pc /\ m.rev = l.rev
        /\ m.pc \in {"nodes", "edges", "rev", "loaded"} => 1..Len(log) \subseteq m.doubt
    <3>1. l \in LoadRec /\ m \in LoadRec
      BY <1>1, <1>2
    <3> HIDE DEF l, m
    <3> QED BY <2>1, <3>1 DEF LoadRec
  <2>3. LoadIsWhole(l, log, gone)
    BY DEF WholeInv
  <2> HIDE DEF l, m
  <2>4. LoadIsWhole(m, log, gone \cup {item})
    BY <1>1, <2>2, <2>3, DeleteKeepsLoad
  <2> QED BY <1>1, <2>4 DEF m
<1>4. ViewIsWhole(snapshot', log', gone')
  BY <1>1, DeleteKeepsView DEF WholeInv
<1> QED BY <1>3, <1>4 DEF WholeInv

(* The view of a load that is back, or of an empty one.                     *)
LEMMA FullLoadIsWhole ==
    ASSUME TracedInv, NEW items \in SUBSET Items, NEW rev \in Nat, NEW doubt \in SUBSET Nat, rev <= Len(log),
           \A i \in Present(log, gone) : Latest(log, i) <= rev /\ Latest(log, i) \notin doubt => i \in items
    PROVE  ViewIsWhole(AfterFullLoad(items, rev, doubt), log, gone)
<1> DEFINE v == Sliced(items, rev, doubt)
<1>1. /\ v \in ViewRec /\ v.st = "ready" /\ v.items = items /\ v.known = rev /\ v.at = rev /\ v.doubt = doubt
      /\ AfterFullLoad(items, rev, doubt) = ApplyDeltas(v, 1, TRUE)
  <2>1. SlicedIsAView(items, rev, doubt)
    BY FullLoadIsAView
  <2> QED BY <2>1 DEF SlicedIsAView
<1> HIDE DEF v
<1>2. ViewIsWhole(v, log, gone)
  BY <1>1 DEF ViewIsWhole
<1>3. 1 \in Nat \ {0} /\ TRUE \in BOOLEAN
  OBVIOUS
<1> QED BY <1>1, <1>2, <1>3, DeltasKeepView DEF TracedInv

(* A view that is not ready, or says that it is loaded at no revision.      *)
LEMMA EmptyViewIsWhole ==
    ASSUME NEW v, v.st # "ready" \/ v.at = 0, NEW lg, NEW gn
    PROVE  ViewIsWhole(v, lg, gn)
BY DEF ViewIsWhole

SliceIsWhole(f, pc, kind, next) ==
    /\ load[f].pc = pc /\ load' \in [LoadIds -> LoadRec]
    /\ UNCHANGED <<log, gone, snapshot>>
    /\ \A g \in LoadIds \ {f} : load'[g] = load[g]
    /\ load'[f].doubt = load[f].doubt /\ load[f].got \subseteq load'[f].got
    /\ \/ load'[f].pc = pc /\ HasFirst(load'[f], kind, log, gone)
       \/ load'[f].pc = next /\ HasAll(load'[f], kind, log, gone) /\ load'[f].off = 0

LEMMA PageIsWhole ==
    ASSUME ViewShape, NEW f \in LoadIds, NEW pc \in {"nodes", "edges"}, NEW next \in {"edges", "rev"}, NEW kind,
           ReadPage(f, pc, kind, next), HasFirst(load[f], kind, log, gone)
    PROVE  SliceIsWhole(f, pc, kind, next)
<1>1. /\ load[f].pc = pc /\ load' \in [LoadIds -> LoadRec]
      /\ \A g \in LoadIds \ {f} : load'[g] = load[g]
      /\ load'[f].doubt = load[f].doubt
      /\ load'[f].got = load[f].got \cup Page(Stored \cap kind, load[f].off)
      /\ load'[f].off = IF HasMore(Stored \cap kind, load[f].off) THEN load[f].off + PageSize ELSE 0
      /\ load'[f].pc = IF HasMore(Stored \cap kind, load[f].off) THEN pc ELSE next
  <2>1. SliceTaken(f, pc, kind, next)
    BY PageKeepsType
  <2> QED BY <2>1 DEF SliceTaken
<1> DEFINE m == load'[f]
<1>2. m \in LoadRec /\ load[f] \in LoadRec
  BY <1>1 DEF ViewShape
<1> HIDE DEF m
<1>3. /\ HasFirst(m, kind, log, gone)
      /\ ~HasMore(Stored \cap kind, load[f].off) => HasAll(m, kind, log, gone)
  BY <1>1, <1>2, PageIsRead DEF m
<1>4. UNCHANGED <<log, gone, snapshot>>
  BY DEF ReadPage, storeVars
<1>5. load[f].got \subseteq load'[f].got
  BY <1>1
<1>6. CASE HasMore(Stored \cap kind, load[f].off)
  BY <1>1, <1>3, <1>4, <1>5, <1>6 DEF m, SliceIsWhole
<1>7. CASE ~HasMore(Stored \cap kind, load[f].off)
  BY <1>1, <1>3, <1>4, <1>5, <1>7 DEF m, SliceIsWhole
<1> QED BY <1>6, <1>7

LEMMA LoadStepKeepsWhole ==
    ASSUME TracedInv, WholeInv, NEW f \in LoadIds, Advance(f) \/ SliceFails(f)
    PROVE  WholeInv'
<1>1. load \in [LoadIds -> LoadRec] /\ load[f] \in LoadRec /\ log \in Seq(Items) /\ Rev \in Nat /\ ViewShape
  BY DEF TracedInv, ViewShape, Rev
<1>2. LoadIsWhole(load[f], log, gone)
  BY DEF WholeInv
<1>4. CASE ReadNodes(f)
  <2>1. load[f].pc = "nodes" /\ HasFirst(load[f], Nodes, log, gone)
    BY <1>2, <1>4 DEF ReadNodes, ReadPage, LoadIsWhole
  <2>2. /\ UNCHANGED <<log, gone, snapshot>>
        /\ \A g \in LoadIds \ {f} : load'[g] = load[g]
        /\ \/ load'[f].pc = "nodes" /\ HasFirst(load'[f], Nodes, log, gone)
           \/ load'[f].pc = "edges" /\ HasAll(load'[f], Nodes, log, gone) /\ load'[f].off = 0
    <3>1. SliceIsWhole(f, "nodes", Nodes, "edges")
      BY <1>1, <1>4, <2>1, PageIsWhole DEF ReadNodes
    <3> QED BY <3>1 DEF SliceIsWhole
  <2>3. load'[f].off = 0 => HasFirst(load'[f], Edges, log, gone)
    BY <1>1, NothingIsBehind
  <2>4. LoadIsWhole(load'[f], log, gone)
    BY <2>2, <2>3 DEF LoadIsWhole
  <2> QED BY <2>2, <2>4, RestKeepsWhole
<1>5. CASE ReadEdges(f)
  <2>1. load[f].pc = "edges" /\ HasFirst(load[f], Edges, log, gone) /\ HasAll(load[f], Nodes, log, gone)
    BY <1>2, <1>5 DEF ReadEdges, ReadPage, LoadIsWhole
  <2>2. /\ UNCHANGED <<log, gone, snapshot>>
        /\ \A g \in LoadIds \ {f} : load'[g] = load[g]
        /\ load'[f].doubt = load[f].doubt /\ load[f].got \subseteq load'[f].got
        /\ \/ load'[f].pc = "edges" /\ HasFirst(load'[f], Edges, log, gone)
           \/ load'[f].pc = "rev" /\ HasAll(load'[f], Edges, log, gone) /\ load'[f].off = 0
    <3>1. SliceIsWhole(f, "edges", Edges, "rev")
      BY <1>1, <1>5, <2>1, PageIsWhole DEF ReadEdges
    <3> QED BY <3>1 DEF SliceIsWhole
  <2>3. HasAll(load'[f], Nodes, log, gone)
    BY <2>1, <2>2 DEF HasAll
  <2>4. HasAll(load'[f], Edges, log, gone) => HasAll(load'[f], Items, log, gone)
    BY <2>3 DEF HasAll, Items
  <2>5. LoadIsWhole(load'[f], log, gone)
    BY <2>2, <2>3, <2>4 DEF LoadIsWhole
  <2> QED BY <2>2, <2>5, RestKeepsWhole
<1>6. CASE ReadRev(f)
  <2>1. /\ load[f].pc = "rev" /\ load'[f].pc = "loaded" /\ load'[f].rev = Rev
        /\ load'[f].got = load[f].got /\ load'[f].doubt = load[f].doubt
        /\ \A g \in LoadIds \ {f} : load'[g] = load[g]
        /\ UNCHANGED <<log, gone, snapshot>>
    BY <1>1, <1>6 DEF ReadRev, LoadRec, storeVars
  <2>2. HasAll(load[f], Items, log, gone)
    BY <1>2, <2>1 DEF LoadIsWhole
  <2>3. Present(log, gone) \subseteq Items
    BY <1>1 DEF Present
  <2>4. LoadIsWhole(load'[f], log, gone)
    BY <1>1, <2>1, <2>2, <2>3 DEF LoadIsWhole, HasAll, Rev
  <2> QED BY <2>1, <2>4, RestKeepsWhole
<1>7. CASE NoDatabase(f)
  <2>1. /\ load'[f].pc = "missing"
        /\ \A g \in LoadIds \ {f} : load'[g] = load[g]
        /\ UNCHANGED <<log, gone, snapshot>>
    BY <1>1, <1>7 DEF NoDatabase, LoadRec, storeVars
  <2>2. LoadIsWhole(load'[f], log, gone)
    BY <2>1 DEF LoadIsWhole
  <2> QED BY <2>1, <2>2, RestKeepsWhole
<1>8. ASSUME Done(f), UNCHANGED <<log, gone>>
      PROVE  \A g \in LoadIds : LoadIsWhole(load'[g], log', gone')
  <2>1. load'[f].pc = "idle" /\ \A g \in LoadIds \ {f} : load'[g] = load[g]
    BY <1>1, <1>8, DoneKeepsType
  <2>2. LoadIsWhole(load'[f], log, gone)
    BY <2>1 DEF LoadIsWhole
  <2> QED BY <1>8, <2>1, <2>2 DEF WholeInv
<1>9. CASE Loaded(f)
  <2>1. /\ Done(f) /\ UNCHANGED <<log, gone>> /\ load[f].pc = "loaded"
        /\ snapshot' = AfterFullLoad(load[f].got, load[f].rev, load[f].doubt)
    BY <1>9 DEF Loaded, storeVars
  <2>2. /\ load[f].got \in SUBSET Items /\ load[f].rev \in Nat /\ load[f].doubt \in SUBSET Nat
        /\ load[f].rev <= Len(log)
        /\ \A i \in Present(log, gone) : Latest(log, i) <= load[f].rev /\ Latest(log, i) \notin load[f].doubt
              => i \in load[f].got
    BY <1>1, <1>2, <2>1 DEF LoadIsWhole, LoadRec
  <2>3. ViewIsWhole(snapshot', log', gone')
    BY <2>1, <2>2, FullLoadIsWhole
  <2> QED BY <1>8, <2>1, <2>3 DEF WholeInv
<1>10. CASE Missing(f)
  <2>1. /\ Done(f) /\ UNCHANGED <<log, gone>>
        /\ snapshot' \in {snapshot, AfterFullLoad({}, 0, {})}
    BY <1>10 DEF Missing, storeVars
  <2>2. ViewIsWhole(AfterFullLoad({}, 0, {}), log, gone)
    <3>1. /\ {} \in SUBSET Items /\ 0 \in Nat /\ {} \in SUBSET Nat /\ 0 <= Len(log)
          /\ \A i \in Present(log, gone) : ~(Latest(log, i) <= 0)
      BY <1>1, LatestIsLast
    <3> QED BY <3>1, FullLoadIsWhole
  <2>3. ViewIsWhole(snapshot', log', gone')
    BY <2>1, <2>2 DEF WholeInv
  <2> QED BY <1>8, <2>1, <2>3 DEF WholeInv
<1>11. CASE SliceFails(f)
  <2>1. Done(f) /\ UNCHANGED <<log, gone>> /\ snapshot'.st # "ready"
    BY <1>11, EmptyViewIsAView DEF SliceFails, storeVars
  <2>2. ViewIsWhole(snapshot', log', gone')
    BY <2>1, EmptyViewIsWhole
  <2> QED BY <1>8, <2>1, <2>2 DEF WholeInv
<1> QED BY <1>4, <1>5, <1>6, <1>7, <1>9, <1>10, <1>11 DEF Advance

(* A view that was loaded at some revision and shows no warning has what    *)
(* the store has up to the revision it claims, for any items, page size,    *)
(* number of writers, loads in flight and retries, except what was written  *)
(* or deleted around while it loaded (buildRevsInForDeltas,                 *)
(* applyPagGraphTraceDelta, list_nodes, list_edges).                        *)
THEOREM SilentIsWhole == GraphSpec => []SilentViewIsWhole
<1>1. GraphInit /\ TracedInv => WholeInv
  <2> SUFFICES ASSUME GraphInit, TracedInv PROVE WholeInv
    OBVIOUS
  <2>1. ASSUME NEW f \in LoadIds
        PROVE  LoadIsWhole(load[f], log, gone)
    <3>1. load[f] = NoLoad \/ (load[f].pc = "nodes" /\ load[f].off = 0)
      <4>1. [g \in LoadIds |-> NoLoad] \in [LoadIds -> LoadRec] /\ NoLoad.off = 0
        BY LoadsAreRecords DEF NoLoad
      <4> QED BY <4>1 DEF GraphInit, LoadRec
    <3>2. load[f].off = 0 => HasFirst(load[f], Nodes, log, gone)
      BY NothingIsBehind DEF TracedInv, ViewShape
    <3> QED BY <3>1, <3>2, FreshLoadsAreWhole DEF LoadIsWhole
  <2>2. ViewIsWhole(snapshot, log, gone)
    BY EmptyViewIsAView, EmptyViewIsWhole DEF GraphInit
  <2> QED BY <2>1, <2>2 DEF WholeInv
<1>2. TracedInv /\ WholeInv /\ [GraphNext]_graphVars => WholeInv'
  <2> SUFFICES ASSUME TracedInv, WholeInv, [GraphNext]_graphVars PROVE WholeInv'
    OBVIOUS
  <2>0. /\ load \in [LoadIds -> LoadRec] /\ Own \subseteq Items /\ Others \subseteq Items
        /\ 1 \in LoadIds
        /\ LoadIsWhole(NoLoad, log, gone) /\ LoadIsWhole(Fresh, log, gone)
    BY FreshLoadsAreWhole, GraphAssumption DEF TracedInv, ViewShape, LoadIds
  <2>1. ASSUME NEW i \in Own, TracedUpsert(i) PROVE WholeInv'
    BY <2>0, <2>1, UpsertKeepsWhole DEF TracedUpsert
  <2>2. ASSUME NEW i \in Others, UntracedUpsert(i) PROVE WholeInv'
    BY <2>0, <2>2, UpsertKeepsWhole DEF UntracedUpsert
  <2>3. ASSUME NEW i \in Others, Delete(i) PROVE WholeInv'
    BY <2>0, <2>3, DeleteKeepsWhole
  <2>4. CASE Publish \/ MemoryDies \/ ReadFile \/ UNCHANGED graphVars
    <3>1. UNCHANGED <<log, gone, snapshot, load>>
      BY <2>4 DEF Publish, MemoryDies, ReadFile, graphVars, storeVars
    <3> QED BY <3>1, RestKeepsWhole
  <2>5. CASE Incremental
    <3> DEFINE from == snapshot.last + 1
    <3>1. /\ snapshot.st = "ready" /\ snapshot' = ApplyDeltas(snapshot, from, snapshot.last = 0)
          /\ UNCHANGED <<log, gone, load>>
      BY <2>5 DEF Incremental, storeVars
    <3>2. ViewShape /\ snapshot \in ViewRec /\ from \in Nat \ {0} /\ (snapshot.last = 0) \in BOOLEAN
      BY DEF TracedInv, ViewShape, ViewRec
    <3> HIDE DEF from
    <3>3. ViewIsWhole(snapshot', log', gone')
      BY <3>1, <3>2, DeltasKeepView DEF WholeInv
    <3> QED BY <3>1, <3>3 DEF WholeInv
  <2>6. CASE Refresh \/ Open
    <3>1. snapshot'.st # "ready" /\ UNCHANGED <<log, gone>>
      BY <2>6, EmptyViewIsAView DEF Refresh, Open, storeVars
    <3>2. \A f \in LoadIds : load'[f] \in {load[f], NoLoad, Fresh}
      BY <2>0, <2>6 DEF Refresh, Open
    <3>3. \A f \in LoadIds : LoadIsWhole(load'[f], log', gone')
      BY <2>0, <3>1, <3>2 DEF WholeInv
    <3>4. ViewIsWhole(snapshot', log', gone')
      BY <3>1, EmptyViewIsWhole
    <3> QED BY <3>3, <3>4 DEF WholeInv
  <2>7. ASSUME NEW f \in Retries, Retry(f) PROVE WholeInv'
    <3>1. \A g \in LoadIds : load'[g] = load[g] \/ load'[g] = Fresh
      BY <2>0, <2>7 DEF Retry, Retries
    <3>2. UNCHANGED <<log, gone, snapshot>>
      BY <2>7 DEF Retry, storeVars
    <3> QED BY <2>0, <3>1, <3>2, RestKeepsWhole
  <2>8. CASE CancelRetries
    <3>1. \A g \in LoadIds : load'[g] = load[g] \/ load'[g] = NoLoad
      BY <2>0, <2>8 DEF CancelRetries
    <3>2. UNCHANGED <<log, gone, snapshot>>
      BY <2>8 DEF CancelRetries, storeVars
    <3> QED BY <2>0, <3>1, <3>2, RestKeepsWhole
  <2> QED BY <2>1, <2>2, <2>3, <2>4, <2>5, <2>6, <2>7, <2>8, LoadStepKeepsWhole DEF GraphNext
<1>3. TracedInv /\ WholeInv => SilentViewIsWhole
  <2> SUFFICES ASSUME TracedInv, WholeInv, snapshot.st = "ready" /\ ~snapshot.warned /\ snapshot.at > 0,
                      NEW i \in Stored, Stamp(i) \in (1..snapshot.known) \ snapshot.doubt
               PROVE  i \in snapshot.items
    BY DEF SilentViewIsWhole
  <2>1. i \in Present(log, gone) /\ Stamp(i) = Latest(log, i) /\ log \in Seq(Items)
    BY DEF Stored, Present, Stamp, Latest, Rev, TracedInv, ViewShape
  <2>2. Latest(log, i) \in 1..Len(log) /\ log[Latest(log, i)] = i
    BY <2>1, LatestIsLast
  <2>3. /\ Latest(log, i) <= snapshot.at => i \in snapshot.items
        /\ \A r \in (snapshot.at + 1)..snapshot.known : log[r] \in snapshot.items
    BY <2>1 DEF WholeInv, ViewIsWhole
  <2>4. snapshot.at \in Nat /\ snapshot.known \in Nat
    BY DEF TracedInv, ViewShape, ViewRec
  <2>5. Latest(log, i) <= snapshot.at \/ Latest(log, i) \in (snapshot.at + 1)..snapshot.known
    BY <2>1, <2>2, <2>4
  <2> QED BY <2>2, <2>3, <2>5
<1> QED BY <1>1, <1>2, <1>3, TracedInvHolds, PTL DEF GraphSpec

=============================================================================
