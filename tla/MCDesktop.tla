------------------------------ MODULE MCDesktop ------------------------------
(* The chat on the Desktop's screen and its copy of the graph.  They share   *)
(* no state here: each behaviour is one's, with the state of the other at    *)
(* rest.                                                                     *)
EXTENDS MCDesktopSession, MCGraphView

VARIABLE part

desktopVars == <<vars, graphVars, part>>

(* An empty graph whose first load is back. *)
GraphAtRest ==
    /\ db = TRUE /\ log = <<>> /\ gone = {}
    /\ alive = TRUE /\ pending = 0 /\ trace = <<>> /\ feed = <<>>
    /\ snapshot = EmptyView("ready") /\ awaiting = FALSE
    /\ load = [l \in LoadIds |-> NoLoad]
    /\ graphBudget = [write |-> MaxWrites, delete |-> MaxDeletes, load |-> MaxLoads]

DesktopInit ==
    /\ part \in {"screen", "graph"}
    /\ Init
    /\ IF part = "graph" THEN GraphInit ELSE GraphAtRest
    (* The chats are alike. *)
    /\ active = alpha

Only(p) ==
    /\ part = p /\ part' = p
    /\ IF p = "screen" THEN TRUE ELSE UNCHANGED vars
    /\ IF p = "graph" THEN TRUE ELSE UNCHANGED graphVars

DesktopNext ==
    \/ \E f \in Flows :
        \/ Only("screen") /\ StopBroker(f)
        \/ Only("screen") /\ ConnectStart(f)
        \/ Only("screen") /\ ConnectCreate(f)
        \/ Only("screen") /\ ResubscribeStart(f)
        \/ Only("screen") /\ ReadDurable(f)
        \/ Only("screen") /\ Subscribe(f)
    \/ \E s \in Sockets :
        \/ Only("screen") /\ Connected(s)
        \/ Only("screen") /\ Refused(s)
        \/ Only("screen") /\ Closes(s)
        \/ Only("screen") /\ CloseEvent(s)
    \/ \E c \in Chats :
        \/ Only("screen") /\ BrokerUp(c)
        \/ Only("screen") /\ BrokerCrash(c)
        \/ Only("screen") /\ AppendRow(c)
        \/ Only("screen") /\ Switch(c)
    \/ Only("screen") /\ Stop
    \/ \E i \in Own : Only("graph") /\ TracedUpsert(i)
    \/ \E i \in Others : Only("graph") /\ UntracedUpsert(i)
    \/ \E i \in Others : Only("graph") /\ Delete(i)
    \/ Only("graph") /\ Publish
    \/ Only("graph") /\ MemoryDies
    \/ Only("graph") /\ ReadFile
    \/ Only("graph") /\ Incremental
    \/ Only("graph") /\ Refresh
    \/ Only("graph") /\ Open
    \/ Only("graph") /\ CancelRetries
    \/ \E l \in Retries : Only("graph") /\ Retry(l)
    \/ \E l \in LoadIds :
        \/ Only("graph") /\ ReadNodes(l)
        \/ Only("graph") /\ ReadEdges(l)
        \/ Only("graph") /\ ReadRev(l)
        \/ Only("graph") /\ NoDatabase(l)
        \/ Only("graph") /\ Loaded(l)
        \/ Only("graph") /\ Missing(l)
        \/ Only("graph") /\ SliceFails(l)

(* As FairSpec and GraphFairSpec have it.                          *)
DesktopSpec ==
    /\ DesktopInit /\ [][DesktopNext]_desktopVars
    /\ \A f \in Flows : WF_desktopVars(Only("screen") /\ FlowStep(f))
    /\ \A s \in Sockets : WF_desktopVars(Only("screen") /\ SocketStep(s))
    /\ \A c \in Chats : WF_desktopVars(Only("screen") /\ BrokerUp(c))
    /\ \A l \in LoadIds : WF_desktopVars(Only("graph") /\ Advance(l))
    /\ \A l \in Retries : WF_desktopVars(Only("graph") /\ Retry(l))

=============================================================================
