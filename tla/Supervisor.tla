----------------------------- MODULE Supervisor -----------------------------
(***************************************************************************)
(* The runtime supervisor (tools/agent_core/runtime/supervisor.py) and the *)
(* life of the broker processes it spawns, up to the socket each of them   *)
(* serves (broker.py:496-528).                                             *)
(*                                                                         *)
(* The supervisor serves one connection at a time, so a command is one     *)
(* step.  A broker starts in two steps, unlink and bind, and may die       *)
(* between them.  SIGTERM has its default action in a broker: it dies at   *)
(* once and its socket file stays.  A process is known by the order of its *)
(* creation; a pid the kernel gives out again is not modelled.             *)
(***************************************************************************)
EXTENDS Naturals

CONSTANTS
    Chats,
    NoChat,
    Paths,          \* socket files
    SocketOf,       \* the file of a chat: its id without the odd characters
    MaxSpawns,      \* bound: broker processes
    MaxRestarts     \* bound: restarts of the supervisor

ASSUME SupervisorAssumption ==
    /\ NoChat \notin Chats
    /\ SocketOf \in [Chats -> Paths]
    /\ MaxSpawns \in Nat
    /\ MaxRestarts \in Nat

VARIABLES
    systemd,   \* whether the supervisor is a unit of systemd, which takes
               \* its brokers along with it, or was started by hand
    record,    \* what _brokers holds of a chat
    spawned,   \* how many brokers were spawned
    proc,      \* the state of each process
    chatOf,    \* the chat a process was spawned for
    children,  \* processes whose parent is the supervisor that runs now
    bound,     \* the process whose socket the file is, 0 without a file
    refused,   \* processes that found their address in use
    restarts

supervisorVars == <<systemd, record, spawned, chatOf, children, restarts>>
supervisionVars == <<supervisorVars, proc, bound, refused>>

Pids == 1..MaxSpawns

Live == {"starting", "unlinked", "serving"}

Record == [pid : 0..MaxSpawns, state : {"absent", "running", "failed"}]

SupervisorTypeOK ==
    /\ systemd \in BOOLEAN
    /\ record \in [Chats -> Record]
    /\ spawned \in 0..MaxSpawns
    /\ proc \in [Pids -> Live \cup {"unborn", "zombie", "reaped"}]
    /\ chatOf \in [Pids -> Chats \cup {NoChat}]
    /\ children \in SUBSET Pids
    /\ bound \in [Paths -> 0..MaxSpawns]
    /\ refused \in SUBSET Pids
    /\ restarts \in 0..MaxRestarts

NoRecord == [pid |-> 0, state |-> "absent"]

SupervisorInit ==
    /\ systemd \in BOOLEAN
    /\ record = [c \in Chats |-> NoRecord]
    /\ spawned = 0
    /\ proc = [p \in Pids |-> "unborn"]
    /\ chatOf = [p \in Pids |-> NoChat]
    /\ children = {}
    /\ bound = [f \in Paths |-> 0]
    /\ refused = {}
    /\ restarts = 0

-----------------------------------------------------------------------------
(* Commands of the supervisor.                                              *)

(* os.kill(pid, 0) succeeds on a zombie. *)
IsAlive(p) == proc[p] # "reaped"

Refreshed(rec) ==
    IF rec.state = "running" /\ ~IsAlive(rec.pid) THEN [rec EXCEPT !.state = "failed"] ELSE rec

(* Popen polls the children dropped before it, which reaps the zombies. *)
Spawn(c) ==
    LET p == spawned + 1 IN
    /\ spawned < MaxSpawns
    /\ spawned' = p
    /\ proc' = [q \in Pids |-> IF q = p THEN "starting"
                               ELSE IF proc[q] = "zombie" THEN "reaped" ELSE proc[q]]
    /\ chatOf' = [chatOf EXCEPT ![p] = c]
    /\ children' = children \cup {p}
    /\ record' = [record EXCEPT ![c] = [pid |-> p, state |-> "running"]]

(* Mutant: a broker that is not reachable yet is not trusted. *)
CreateOrGet_Impatient(c) ==
    /\ \/ /\ Refreshed(record[c]).state = "running"
          /\ proc[record[c].pid] = "serving"
          /\ UNCHANGED <<supervisorVars, proc>>
       \/ /\ Refreshed(record[c]).state = "running" => proc[record[c].pid] # "serving"
          /\ Spawn(c)
    /\ UNCHANGED <<systemd, bound, refused, restarts>>

(* The record is handed out at once, before the broker serves its socket. *)
CreateOrGet(c) ==
    /\ \/ /\ Refreshed(record[c]).state = "running"
          /\ UNCHANGED <<supervisorVars, proc>>
       \/ /\ Refreshed(record[c]).state # "running"
          /\ Spawn(c)
    /\ UNCHANGED <<systemd, bound, refused, restarts>>

(* What becomes of a process that ends: init reaps an orphan. *)
Corpse(p) == IF p \in children THEN "zombie" ELSE "reaped"

(* Mutant: the record is marked and the process is left to itself. *)
StopBroker_MarkOnly(c) ==
    /\ record[c].state # "absent"
    /\ record' = [record EXCEPT ![c].state = "failed"]
    /\ UNCHANGED <<systemd, spawned, proc, chatOf, children, restarts, bound, refused>>

StopBroker(c) ==
    LET p == record[c].pid IN
    /\ record[c].state # "absent"
    /\ proc' = [proc EXCEPT ![p] = IF @ \in Live THEN Corpse(p) ELSE @]
    /\ record' = [record EXCEPT ![c].state = "failed"]
    /\ UNCHANGED <<systemd, spawned, chatOf, children, restarts, bound, refused>>

ListBrokers ==
    /\ record' = [c \in Chats |-> Refreshed(record[c])]
    /\ UNCHANGED <<systemd, spawned, proc, chatOf, children, restarts, bound, refused>>

(* The registry is in memory only: the next supervisor starts without it. *)
Restart ==
    /\ restarts < MaxRestarts
    /\ restarts' = restarts + 1
    /\ record' = [c \in Chats |-> NoRecord]
    /\ children' = {}
    /\ proc' = [p \in Pids |->
                  IF proc[p] = "zombie" \/ (systemd /\ proc[p] \in Live)
                  THEN "reaped" ELSE proc[p]]
    /\ UNCHANGED <<systemd, spawned, chatOf, bound, refused>>

-----------------------------------------------------------------------------
(* Broker processes.                                                        *)

PathOf(p) == SocketOf[chatOf[p]]

(* Mutant: the file a dead broker left is not removed. *)
Unlink_KeepsFile(p) ==
    /\ proc[p] = "starting"
    /\ proc' = [proc EXCEPT ![p] = "unlinked"]
    /\ UNCHANGED <<supervisorVars, bound, refused>>

Unlink(p) ==
    /\ proc[p] = "starting"
    /\ proc' = [proc EXCEPT ![p] = "unlinked"]
    /\ bound' = [bound EXCEPT ![PathOf(p)] = 0]
    /\ UNCHANGED <<supervisorVars, refused>>

Bind(p) ==
    /\ proc[p] = "unlinked"
    /\ bound[PathOf(p)] = 0
    /\ proc' = [proc EXCEPT ![p] = "serving"]
    /\ bound' = [bound EXCEPT ![PathOf(p)] = p]
    /\ UNCHANGED <<supervisorVars, refused>>

(* TCPServer's constructor closes the server when bind raises, and          *)
(* server_close unlinks the path, whoever bound it.                         *)
BindRefused(p) ==
    /\ proc[p] = "unlinked"
    /\ bound[PathOf(p)] # 0
    /\ proc' = [proc EXCEPT ![p] = Corpse(p)]
    /\ bound' = [bound EXCEPT ![PathOf(p)] = 0]
    /\ refused' = refused \cup {p}
    /\ UNCHANGED supervisorVars

(* Killed, or out of serve_forever with an exception: the with statement    *)
(* then closes the server, which unlinks the path.                          *)
BrokerDies(p) ==
    /\ proc[p] \in Live
    /\ proc' = [proc EXCEPT ![p] = Corpse(p)]
    /\ \/ UNCHANGED bound
       \/ /\ proc[p] = "serving"
          /\ bound' = [bound EXCEPT ![PathOf(p)] = 0]
    /\ UNCHANGED <<supervisorVars, refused>>

-----------------------------------------------------------------------------
Startup(p) == Unlink(p) \/ Bind(p) \/ BindRefused(p)

SupervisorNext ==
    \/ \E c \in Chats : CreateOrGet(c) \/ StopBroker(c)
    \/ ListBrokers
    \/ Restart
    \/ \E p \in Pids : Startup(p) \/ BrokerDies(p)

SupervisorSpec == SupervisorInit /\ [][SupervisorNext]_supervisionVars

(* Brokers start up, and clients keep asking for theirs. *)
SupervisorFairSpec ==
    /\ SupervisorSpec
    /\ \A p \in Pids : WF_supervisionVars(Startup(p))
    /\ \A c \in Chats : WF_supervisionVars(CreateOrGet(c))
    /\ WF_supervisionVars(ListBrokers)

-----------------------------------------------------------------------------
(* Properties.                                                              *)

IsRunning(c) == record[c].state = "running"

(* plan/8-agents-runtime.md:16: one chat has one broker.  No sequence of     *)
(* commands and crashes leaves two live processes of one chat, however slow  *)
(* the first one is (supervisor.py:156-215), as long as the supervisor does  *)
(* not leave orphans behind; and even where it does, the one that runs now   *)
(* has at most one live child per chat.                                      *)
OneBrokerPerChat ==
    \A p, q \in Pids :
        /\ systemd \/ {p, q} \subseteq children
        /\ proc[p] \in Live /\ proc[q] \in Live /\ chatOf[p] = chatOf[q]
        => p = q

(* A broker that serves is the one its chat's record names, and the chat's   *)
(* socket file leads to it, though any broker that starts for the file       *)
(* removes what it finds there; and what a killed one leaves there never     *)
(* keeps the next from starting (broker.py:521-528).                         *)
EndpointLeadsHome ==
    systemd =>
        /\ refused = {}
        /\ \A p \in Pids : proc[p] = "serving" =>
              /\ record[chatOf[p]] = [pid |-> p, state |-> "running"]
              /\ bound[PathOf(p)] = p

(* plan/8-agents-runtime.md:390: a crashed broker is marked failed and the   *)
(* next request of a client creates a new one.                               *)
CrashedBrokerIsReplaced ==
    \A c \in Chats :
        IsRunning(c) /\ proc[record[c].pid] \notin Live
            ~> ~IsRunning(c) \/ proc[record[c].pid] \in Live
=============================================================================
