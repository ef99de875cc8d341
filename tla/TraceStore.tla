----------------------------- MODULE TraceStore -----------------------------
(***************************************************************************)
(* AgentBroker.append_trace: a row goes to the chat's JSONL file           *)
(* (trace_store.py) and then to the live subscribers (_LiveSubscribers in  *)
(* broker.py).  Every thread of the broker - one per connection, one per   *)
(* agent - calls it, and no lock covers the call.                          *)
(*                                                                         *)
(* A row that does not fit the file object's buffer of 8192 bytes reaches  *)
(* the file in two writes, its text and the line feed, and reaches a       *)
(* socket in more than one piece.  A stream is a sequence of pieces:       *)
(* "whole" is a line with its line feed, "head" is the text up to some     *)
(* point and "rest" what follows, line feed included.                      *)
(***************************************************************************)
EXTENDS Naturals, Sequences

CONSTANTS
    Threads,
    Clients,      \* subscribers
    NoClient,
    MaxRows,      \* bound: rows each thread appends
    Capacity      \* pieces a socket takes before it is not writable

ASSUME TraceAssumption ==
    /\ NoClient \notin Clients
    /\ MaxRows \in [Threads -> Nat]
    /\ Capacity \in Nat \ {0}

VARIABLES
    long,     \* the threads whose rows do not fit the buffer
    alive,    \* whether the broker runs
    pc,       \* where each thread is in append_trace
    count,    \* the number of the row each thread is at
    targets,  \* subscribers a thread has still to send its row to
    half,     \* the subscriber that has got half of the thread's row
    file,     \* the trace file
    subs,     \* the registered subscribers
    conn,     \* the subscriber's end: "new", "open" or "gone"
    wire,     \* the pieces sent to each subscriber
    read      \* how many of them it has read

threadVars == <<pc, count, targets, half>>
clientVars == <<conn, wire, read>>
traceVars == <<long, alive, threadVars, file, subs, clientVars>>

Piece == [thread : Threads, n : Nat, part : {"whole", "head", "rest"}]

TraceTypeOK ==
    /\ long \in SUBSET Threads
    /\ alive \in BOOLEAN
    /\ pc \in [Threads -> {"idle", "linefeed", "snapshot", "send"}]
    /\ count \in [Threads -> Nat]
    /\ targets \in [Threads -> SUBSET Clients]
    /\ half \in [Threads -> Clients \cup {NoClient}]
    /\ file \in Seq(Piece)
    /\ subs \in SUBSET Clients
    /\ conn \in [Clients -> {"new", "open", "gone"}]
    /\ wire \in [Clients -> Seq(Piece)]
    /\ read \in [Clients -> Nat]

TraceInit ==
    /\ long \in SUBSET Threads
    /\ alive = TRUE
    /\ pc = [t \in Threads |-> "idle"]
    /\ count = [t \in Threads |-> 0]
    /\ targets = [t \in Threads |-> {}]
    /\ half = [t \in Threads |-> NoClient]
    /\ file = <<>>
    /\ subs = {}
    /\ conn = [c \in Clients |-> "new"]
    /\ wire = [c \in Clients |-> <<>>]
    /\ read = [c \in Clients |-> 0]

-----------------------------------------------------------------------------
(* Threads.                                                                 *)

piece(t, n, part) == [thread |-> t, n |-> n, part |-> part]

Goto(t, l) == pc' = [pc EXCEPT ![t] = l]

(* Mutant: the line feed is written on its own, whatever the row's length. *)
Append_TwoWrites(t) ==
    /\ alive
    /\ pc[t] = "idle"
    /\ count[t] < MaxRows[t]
    /\ count' = [count EXCEPT ![t] = @ + 1]
    /\ file' = Append(file, piece(t, count[t] + 1, "head"))
    /\ Goto(t, "linefeed")
    /\ UNCHANGED <<long, alive, targets, half, subs, clientVars>>

(* Mutant: the row is sent out first and written when the thread is done. *)
Append_SendFirst(t) ==
    /\ alive
    /\ pc[t] = "idle"
    /\ count[t] < MaxRows[t]
    /\ count' = [count EXCEPT ![t] = @ + 1]
    /\ file' = IF count[t] = 0 THEN file ELSE Append(file, piece(t, count[t], "whole"))
    /\ Goto(t, "snapshot")
    /\ UNCHANGED <<long, alive, targets, half, subs, clientVars>>

(* Mutant: a long row goes without its line feed. *)
Append_NoLineFeed(t) ==
    /\ alive
    /\ pc[t] = "idle"
    /\ count[t] < MaxRows[t]
    /\ count' = [count EXCEPT ![t] = @ + 1]
    /\ file' = Append(file, piece(t, count[t] + 1, IF t \in long THEN "head" ELSE "whole"))
    /\ Goto(t, "snapshot")
    /\ UNCHANGED <<long, alive, targets, half, subs, clientVars>>

AppendRow(t) ==
    /\ alive
    /\ pc[t] = "idle"
    /\ count[t] < MaxRows[t]
    /\ count' = [count EXCEPT ![t] = @ + 1]
    /\ \/ /\ t \notin long
          /\ file' = Append(file, piece(t, count[t] + 1, "whole"))
          /\ Goto(t, "snapshot")
       \/ /\ t \in long
          /\ file' = Append(file, piece(t, count[t] + 1, "head"))
          /\ Goto(t, "linefeed")
    /\ UNCHANGED <<long, alive, targets, half, subs, clientVars>>

LineFeed(t) ==
    /\ alive
    /\ pc[t] = "linefeed"
    /\ file' = Append(file, piece(t, count[t], "rest"))
    /\ Goto(t, "snapshot")
    /\ UNCHANGED <<long, alive, count, targets, half, subs, clientVars>>

(* broadcast works on a copy of the list, taken under its lock. *)
Snapshot(t) ==
    /\ alive
    /\ pc[t] = "snapshot"
    /\ targets' = [targets EXCEPT ![t] = subs]
    /\ Goto(t, "send")
    /\ UNCHANGED <<long, alive, count, half, file, subs, clientVars>>

Done(t) ==
    /\ alive
    /\ pc[t] = "send"
    /\ targets[t] = {}
    /\ Goto(t, "idle")
    /\ UNCHANGED <<long, alive, count, targets, half, file, subs, clientVars>>

HasRoom(c) == Len(wire[c]) - read[c] < Capacity

Put(c, p) == wire' = [wire EXCEPT ![c] = Append(@, p)]

DropTarget(t, c) == targets' = [targets EXCEPT ![t] = @ \ {c}]

(* select says writable and sendall begins. *)
Send(t, c) ==
    /\ alive
    /\ pc[t] = "send"
    /\ c \in targets[t]
    /\ half[t] = NoClient
    /\ conn[c] = "open"
    /\ HasRoom(c)
    /\ \/ /\ t \notin long
          /\ Put(c, piece(t, count[t], "whole"))
          /\ DropTarget(t, c)
          /\ UNCHANGED half
       \/ /\ t \in long
          /\ Put(c, piece(t, count[t], "head"))
          /\ half' = [half EXCEPT ![t] = c]
          /\ UNCHANGED targets
    /\ UNCHANGED <<long, alive, pc, count, file, subs, conn, read>>

SendRest(t, c) ==
    /\ alive
    /\ half[t] = c
    /\ conn[c] = "open"
    /\ HasRoom(c)
    /\ Put(c, piece(t, count[t], "rest"))
    /\ DropTarget(t, c)
    /\ half' = [half EXCEPT ![t] = NoClient]
    /\ UNCHANGED <<long, alive, pc, count, file, subs, conn, read>>

(* select says not writable: this subscriber does without the row. *)
Skip(t, c) ==
    /\ alive
    /\ pc[t] = "send"
    /\ c \in targets[t]
    /\ half[t] = NoClient
    /\ conn[c] = "open"
    /\ ~HasRoom(c)
    /\ DropTarget(t, c)
    /\ UNCHANGED <<long, alive, pc, count, half, file, subs, clientVars>>

(* OSError: the peer is gone, or 0.2 s have passed in the middle of a row.  *)
(* The subscriber is removed; its connection stays as it is.                *)
SendFails(t, c) ==
    /\ alive
    /\ pc[t] = "send"
    /\ c \in targets[t]
    /\ \/ conn[c] = "gone" /\ half[t] \in {c, NoClient}
       \/ half[t] = c /\ ~HasRoom(c)
    /\ subs' = subs \ {c}
    /\ DropTarget(t, c)
    /\ half' = [half EXCEPT ![t] = NoClient]
    /\ UNCHANGED <<long, alive, pc, count, file, clientVars>>

(* The whole process: what is written stays, connections close. *)
Crash ==
    /\ alive
    /\ alive' = FALSE
    /\ conn' = [c \in Clients |-> "gone"]
    /\ UNCHANGED <<long, threadVars, file, subs, wire, read>>

-----------------------------------------------------------------------------
(* Subscribers.                                                             *)

Subscribe(c) ==
    /\ alive
    /\ conn[c] = "new"
    /\ conn' = [conn EXCEPT ![c] = "open"]
    /\ subs' = subs \cup {c}
    /\ UNCHANGED <<long, alive, threadVars, file, wire, read>>

ClientReads(c) ==
    /\ read[c] < Len(wire[c])
    /\ read' = [read EXCEPT ![c] = @ + 1]
    /\ UNCHANGED <<long, alive, threadVars, file, subs, conn, wire>>

ClientCloses(c) ==
    /\ conn[c] = "open"
    /\ conn' = [conn EXCEPT ![c] = "gone"]
    /\ UNCHANGED <<long, alive, threadVars, file, subs, wire, read>>

-----------------------------------------------------------------------------
Thread(t) ==
    \/ AppendRow(t) \/ LineFeed(t) \/ Snapshot(t) \/ Done(t)
    \/ \E c \in Clients : Send(t, c) \/ SendRest(t, c) \/ Skip(t, c) \/ SendFails(t, c)

TraceNext ==
    \/ \E t \in Threads : Thread(t)
    \/ \E c \in Clients : Subscribe(c) \/ ClientReads(c) \/ ClientCloses(c)
    \/ Crash

TraceSpec == TraceInit /\ [][TraceNext]_traceVars

-----------------------------------------------------------------------------
(* Properties.                                                              *)

(* a line begins at piece i of the stream *)
LineStart(stream, i) == i = 1 \/ stream[i - 1].part # "head"

(* A line of the stream holds the row and nothing else: both readers, the    *)
(* Python one and the Desktop's, fail on any other line with text in it.     *)
Readable(stream, t, n) ==
    \E i \in DOMAIN stream :
        /\ LineStart(stream, i)
        /\ \/ stream[i] = piece(t, n, "whole")
           \/ /\ stream[i] = piece(t, n, "head")
              /\ i < Len(stream)
              /\ stream[i + 1] = piece(t, n, "rest")

(* the rows a thread has handed to the file *)
Written(t) == IF pc[t] = "linefeed" THEN 1..(count[t] - 1) ELSE 1..count[t]

(* no row that takes two writes has been appended beside another thread's *)
Undisturbed == long = {} \/ \E t \in Threads : \A u \in Threads \ {t} : count[u] = 0

(* plan/8-agents-runtime.md:372: the durable trace brings the history back.  *)
(* Every row whose append has returned can be read from the file, with any   *)
(* number of threads appending short rows, or one appending long ones        *)
(* (trace_store.py:38-49).                                                   *)
RowsAreReadable ==
    Undisturbed =>
        \A t \in Threads : \A n \in Written(t) : Readable(file, t, n)

(* What a subscriber has seen of the chat is in the file by then, so a crash *)
(* takes back nothing that was on screen (broker.py:331-334).                *)
SeenIsDurable ==
    Undisturbed =>
    \A c \in Clients : \A t \in Threads : \A n \in 1..MaxRows[t] :
        Readable(SubSeq(wire[c], 1, read[c]), t, n) => Readable(file, t, n)

=============================================================================
