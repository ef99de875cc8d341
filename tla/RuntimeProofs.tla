--------------------------- MODULE RuntimeProofs ----------------------------
(***************************************************************************)
(* Proofs about what the chats' processes share on disk: the supervisor's  *)
(* registry and socket files, the trace file, and the teams' inboxes.      *)
(***************************************************************************)
EXTENDS Supervisor, TraceStore, Mailbox, SequenceTheorems, FiniteSetTheorems, TLAPS

-----------------------------------------------------------------------------

(***************************************************************************)
(* The supervisor, for any chats, socket files, number of brokers and      *)
(* number of restarts.                                                     *)
(***************************************************************************)

(* OneBrokerPerChat says nothing of the registry, so it is not inductive:    *)
(* what keeps a second broker from being spawned is that the registry still  *)
(* names the first.                                                          *)
Names(rec, p) == rec.pid = p /\ rec.state = "running"

ChildrenAreRecorded ==
    \A p \in children :
        proc[p] \in Live => Names(record[chatOf[p]], p)

LiveAreChildren == systemd => \A p \in Pids : proc[p] \in Live => p \in children

RegistryShape ==
    /\ systemd \in BOOLEAN
    /\ record \in [Chats -> Record]
    /\ spawned \in 0..MaxSpawns
    /\ proc \in [Pids -> Live \cup {"unborn", "zombie", "reaped"}]
    /\ chatOf \in [Pids -> Chats \cup {NoChat}]
    /\ children \in SUBSET {p \in Pids : chatOf[p] \in Chats}

RegistryInv == RegistryShape /\ ChildrenAreRecorded /\ LiveAreChildren

(* A spawn keeps the invariant when the chat's record does not count as     *)
(* running: no live child of the chat is left.                              *)
LEMMA SpawnKeepsInv ==
    ASSUME RegistryInv, NEW c \in Chats, Refreshed(record[c]).state # "running", Spawn(c),
           UNCHANGED systemd
    PROVE  RegistryInv'
<1> DEFINE n == spawned + 1
<1> USE SupervisorAssumption DEF RegistryInv, RegistryShape, Pids
<1>1. n \in Pids
  BY DEF Spawn
<1>2. \A p \in children : proc[p] \in Live => chatOf[p] # c
  <2> SUFFICES ASSUME NEW p \in children, proc[p] \in Live, chatOf[p] = c
               PROVE  FALSE
    OBVIOUS
  <2>1. record[c].state = "running" /\ record[c].pid = p
    BY DEF ChildrenAreRecorded, Names
  <2>2. IsAlive(p)
    BY DEF IsAlive, Live
  <2> QED BY <2>1, <2>2 DEF Refreshed
<1>3. RegistryShape'
  BY <1>1 DEF Spawn, Record, Live
<1>4. ChildrenAreRecorded'
  <2> SUFFICES ASSUME NEW p \in children', proc'[p] \in Live
               PROVE  Names(record'[chatOf'[p]], p)
    BY DEF ChildrenAreRecorded
  <2>1. CASE p = n
    BY <1>1, <2>1 DEF Spawn, Names
  <2>2. CASE p # n
    <3>1. p \in children /\ proc[p] \in Live /\ chatOf'[p] = chatOf[p]
      BY <1>1, <2>2 DEF Spawn, Live
    <3>2. Names(record[chatOf[p]], p) /\ chatOf[p] # c
      BY <1>2, <3>1 DEF ChildrenAreRecorded
    <3> QED BY <3>1, <3>2 DEF Spawn, Names
  <2> QED BY <2>1, <2>2
<1>5. LiveAreChildren'
  BY <1>1 DEF LiveAreChildren, Spawn, Live
<1> QED BY <1>3, <1>4, <1>5

(* stop_broker kills the only live child the chat can have. *)
LEMMA StopKeepsInv ==
    ASSUME RegistryInv, NEW c \in Chats, StopBroker(c)
    PROVE  RegistryInv'
<1> USE DEF RegistryInv, RegistryShape, Pids
<1>1. RegistryShape'
  BY DEF StopBroker, Record, Live, Corpse
<1>2. ChildrenAreRecorded'
  <2> SUFFICES ASSUME NEW p \in children, proc'[p] \in Live
               PROVE  Names(record'[chatOf[p]], p)
    BY DEF ChildrenAreRecorded, StopBroker
  <2>1. p # record[c].pid /\ proc[p] \in Live
    BY DEF StopBroker, Corpse, Live
  <2>2. Names(record[chatOf[p]], p) /\ chatOf[p] # c
    BY <2>1 DEF ChildrenAreRecorded, Names
  <2> QED BY <2>2 DEF StopBroker, Names
<1>3. LiveAreChildren'
  BY DEF LiveAreChildren, StopBroker, Corpse, Live
<1> QED BY <1>1, <1>2, <1>3

(* Steps that spawn nothing and leave the records of live children alone. *)
LEMMA OtherStepsKeepRegistry ==
    ASSUME RegistryInv, ListBrokers \/ Restart \/ \E p \in Pids : Startup(p) \/ BrokerDies(p)
    PROVE  RegistryInv'
<1> USE DEF RegistryInv, RegistryShape, Pids
<1>1. CASE ListBrokers
  <2>1. RegistryShape'
    BY <1>1, SMTT(30) DEF ListBrokers, Refreshed, Record
  <2>2. ChildrenAreRecorded'
    BY <1>1 DEF ListBrokers, Refreshed, IsAlive, ChildrenAreRecorded, Names, Live
  <2>3. LiveAreChildren'
    BY <1>1 DEF ListBrokers, LiveAreChildren
  <2> QED BY <2>1, <2>2, <2>3
<1>2. CASE Restart
  <2>1. RegistryShape'
    BY <1>2, SupervisorAssumption DEF Restart, NoRecord, Record, Live
  <2>2. ChildrenAreRecorded' /\ LiveAreChildren'
    BY <1>2 DEF Restart, ChildrenAreRecorded, LiveAreChildren, Live
  <2> QED BY <2>1, <2>2
<1>3. ASSUME NEW p \in Pids, Startup(p) \/ BrokerDies(p)
      PROVE  RegistryInv'
  <2>1. /\ UNCHANGED supervisorVars
        /\ proc[p] \in Live
        /\ \E s \in Live \cup {"zombie", "reaped"} : proc' = [proc EXCEPT ![p] = s]
    BY <1>3 DEF Startup, Unlink, Bind, BindRefused, BrokerDies, Corpse, Live
  <2>2. RegistryShape'
    BY <2>1 DEF supervisorVars, Live
  <2>3. ChildrenAreRecorded'
    BY <2>1 DEF supervisorVars, ChildrenAreRecorded
  <2>4. LiveAreChildren'
    BY <2>1 DEF supervisorVars, LiveAreChildren
  <2> QED BY <2>2, <2>3, <2>4
<1> QED BY <1>1, <1>2, <1>3

LEMMA RegistryInvHolds == SupervisorSpec => []RegistryInv
<1>1. SupervisorInit => RegistryInv
  BY SupervisorAssumption
  DEF SupervisorInit, RegistryInv, RegistryShape, ChildrenAreRecorded, LiveAreChildren, NoRecord, Record, Live, Pids
<1>2. RegistryInv /\ [SupervisorNext]_supervisionVars => RegistryInv'
  <2> SUFFICES ASSUME RegistryInv, [SupervisorNext]_supervisionVars
               PROVE  RegistryInv'
    OBVIOUS
  <2>1. ASSUME NEW c \in Chats, CreateOrGet(c)
        PROVE  RegistryInv'
    <3>1. CASE Spawn(c) /\ Refreshed(record[c]).state # "running"
      BY <2>1, <3>1, SpawnKeepsInv DEF CreateOrGet, supervisorVars
    <3>2. CASE UNCHANGED <<supervisorVars, proc>>
      BY <3>2 DEF supervisorVars, RegistryInv, RegistryShape, ChildrenAreRecorded, LiveAreChildren
    <3> QED BY <2>1, <3>1, <3>2 DEF CreateOrGet
  <2>2. CASE UNCHANGED supervisionVars
    BY <2>2 DEF supervisionVars, supervisorVars, RegistryInv, RegistryShape, ChildrenAreRecorded, LiveAreChildren
  <2> QED BY <2>1, <2>2, StopKeepsInv, OtherStepsKeepRegistry DEF SupervisorNext
<1> QED BY <1>1, <1>2, PTL DEF SupervisorSpec

(* Where a restart of the supervisor takes its brokers along, as under      *)
(* systemd, a chat never has two live brokers; where it does not, no two    *)
(* live ones that the supervisor of today has spawned belong to one chat,   *)
(* whatever commands, crashes and restarts there were                       *)
(* (supervisor.py:156-231).                                                 *)
THEOREM OneBroker == SupervisorSpec => []OneBrokerPerChat
<1>1. RegistryInv => OneBrokerPerChat
  BY DEF RegistryInv, RegistryShape, ChildrenAreRecorded, LiveAreChildren, Names, OneBrokerPerChat
<1> QED BY <1>1, RegistryInvHolds, PTL
(* The two chats of two files are two, when no two ids differ only in the   *)
(* characters the file name leaves out.                                     *)
FilesAreApart == \A c, d \in Chats : SocketOf[c] = SocketOf[d] => c = d

(* What a starting broker relies on: nobody binds the file it has unlinked  *)
(* before it does, and nobody removes the file it has bound.                *)
FilesAreOwn ==
    /\ bound \in [Paths -> 0..MaxSpawns]
    /\ systemd =>
         /\ refused = {}
         /\ \A p \in Pids :
              /\ proc[p] = "unlinked" => bound[PathOf(p)] = 0
              /\ proc[p] = "serving" => bound[PathOf(p)] = p

(* Under systemd two live brokers have two files. *)
LEMMA LiveHaveOwnFiles ==
    ASSUME FilesAreApart, RegistryInv, systemd,
           NEW p \in Pids, NEW q \in Pids, proc[p] \in Live, proc[q] \in Live, p # q
    PROVE  PathOf(p) # PathOf(q)
<1>1. chatOf[p] \in Chats /\ chatOf[q] \in Chats /\ chatOf[p] # chatOf[q]
  BY DEF RegistryInv, RegistryShape, ChildrenAreRecorded, LiveAreChildren, Names
<1> QED BY <1>1 DEF FilesAreApart, PathOf

(* A broker that starts or dies touches the file of its own chat only. *)
LEMMA BrokerStepKeepsFiles ==
    ASSUME FilesAreApart, RegistryInv, FilesAreOwn, NEW p \in Pids, Startup(p) \/ BrokerDies(p)
    PROVE  FilesAreOwn'
<1> USE SupervisorAssumption DEF Pids
<1>1. /\ UNCHANGED <<systemd, chatOf>>
      /\ proc \in [Pids -> Live \cup {"unborn", "zombie", "reaped"}]
      /\ bound \in [Paths -> 0..MaxSpawns]
  BY DEF Startup, Unlink, Bind, BindRefused, BrokerDies, supervisorVars, RegistryInv, RegistryShape, FilesAreOwn
<1>2. proc[p] \in Live
  BY DEF Startup, Unlink, Bind, BindRefused, BrokerDies, Live
<1>3. bound' = bound \/ \E v \in {0, p} : bound' = [bound EXCEPT ![PathOf(p)] = v]
  BY DEF Startup, Unlink, Bind, BindRefused, BrokerDies
<1>4. bound' \in [Paths -> 0..MaxSpawns]
  BY <1>1, <1>3
<1>5. ASSUME systemd
      PROVE  /\ refused' = {}
             /\ \A q \in Pids :
                  /\ proc'[q] = "unlinked" => bound'[PathOf(q)] = 0
                  /\ proc'[q] = "serving" => bound'[PathOf(q)] = q
  <2>1. ~BindRefused(p)
    BY <1>5 DEF BindRefused, FilesAreOwn
  <2>2. refused' = {}
    BY <1>5, <2>1 DEF Startup, Unlink, Bind, BrokerDies, FilesAreOwn
  <2>3. ASSUME NEW q \in Pids, q # p
        PROVE  /\ proc'[q] = "unlinked" => bound'[PathOf(q)] = 0
               /\ proc'[q] = "serving" => bound'[PathOf(q)] = q
    <3>1. proc'[q] = proc[q]
      BY <2>3, <1>1 DEF Startup, Unlink, Bind, BindRefused, BrokerDies
    <3>2. proc[q] \in Live => bound'[PathOf(q)] = bound[PathOf(q)]
      <4> SUFFICES ASSUME proc[q] \in Live
                   PROVE  bound'[PathOf(q)] = bound[PathOf(q)]
        OBVIOUS
      <4>1. PathOf(q) # PathOf(p)
        BY <1>2, <1>5, <2>3, LiveHaveOwnFiles
      <4>2. PathOf(q) \in Paths
        BY <1>5 DEF RegistryInv, RegistryShape, LiveAreChildren, PathOf
      <4> QED BY <1>1, <1>3, <4>1, <4>2
    <3> QED BY <1>5, <3>1, <3>2 DEF FilesAreOwn, Live
  <2>4. /\ proc'[p] = "unlinked" => bound'[PathOf(p)] = 0
        /\ proc'[p] = "serving" => bound'[PathOf(p)] = p
    <3>1. PathOf(p) \in Paths
      BY <1>2, <1>5 DEF RegistryInv, RegistryShape, LiveAreChildren, PathOf
    <3>2. CASE Unlink(p)
      BY <1>1, <3>1, <3>2 DEF Unlink
    <3>3. CASE Bind(p)
      BY <1>1, <3>1, <3>3 DEF Bind
    <3>4. CASE BrokerDies(p)
      BY <1>1, <3>4 DEF BrokerDies, Corpse
    <3> QED BY <2>1, <3>2, <3>3, <3>4 DEF Startup
  <2> QED BY <2>2, <2>3, <2>4
<1> QED BY <1>1, <1>4, <1>5 DEF FilesAreOwn, PathOf

(* No command of the supervisor makes a broker serve or touches a file. *)
LEMMA CommandKeepsFiles ==
    ASSUME RegistryInv, FilesAreOwn,
           ListBrokers \/ Restart \/ \E c \in Chats : CreateOrGet(c) \/ StopBroker(c)
    PROVE  FilesAreOwn'
<1> USE DEF Pids
<1>1. UNCHANGED <<systemd, bound, refused>>
  BY DEF ListBrokers, Restart, CreateOrGet, StopBroker
<1>2. \A q \in Pids : proc'[q] \in {"unlinked", "serving"} =>
                          proc'[q] = proc[q] /\ chatOf'[q] = chatOf[q]
  <2> USE DEF RegistryInv, RegistryShape
  <2>1. CASE ListBrokers
    BY <2>1 DEF ListBrokers
  <2>2. CASE Restart
    BY <2>2 DEF Restart
  <2>3. ASSUME NEW c \in Chats, CreateOrGet(c)
        PROVE  \A q \in Pids : proc'[q] \in {"unlinked", "serving"} =>
                            proc'[q] = proc[q] /\ chatOf'[q] = chatOf[q]
    BY <2>3, ZenonT(30) DEF CreateOrGet, Spawn, supervisorVars
  <2>4. ASSUME NEW c \in Chats, StopBroker(c)
        PROVE  \A q \in Pids : proc'[q] \in {"unlinked", "serving"} =>
                            proc'[q] = proc[q] /\ chatOf'[q] = chatOf[q]
    BY <2>4 DEF StopBroker, Corpse
  <2> QED BY <2>1, <2>2, <2>3, <2>4
<1> QED BY <1>1, <1>2 DEF FilesAreOwn, PathOf

(* Under systemd a broker that serves is the one its chat's record names    *)
(* and the one its chat's socket file leads to, and no broker ever finds    *)
(* its address in use, whatever the sockets that killed brokers have left   *)
(* behind (supervisor.py:156-231, broker.py:496-528), as long as no two     *)
(* chats share a file.                                                      *)
THEOREM EndpointsLeadHome ==
    ASSUME FilesAreApart
    PROVE  SupervisorSpec => []EndpointLeadsHome
<1>1. SupervisorInit => FilesAreOwn
  BY SupervisorAssumption DEF SupervisorInit, FilesAreOwn, Pids
<1>2. RegistryInv /\ FilesAreOwn /\ [SupervisorNext]_supervisionVars => FilesAreOwn'
  <2> SUFFICES ASSUME RegistryInv, FilesAreOwn, [SupervisorNext]_supervisionVars
               PROVE  FilesAreOwn'
    OBVIOUS
  <2>1. CASE UNCHANGED supervisionVars
    BY <2>1 DEF supervisionVars, supervisorVars, FilesAreOwn, PathOf
  <2> QED BY <2>1, FilesAreApart, BrokerStepKeepsFiles, CommandKeepsFiles DEF SupervisorNext
<1>3. RegistryInv /\ FilesAreOwn => EndpointLeadsHome
  <2> SUFFICES ASSUME RegistryInv, FilesAreOwn, systemd, NEW p \in Pids, proc[p] = "serving"
               PROVE  /\ record[chatOf[p]] = [pid |-> p, state |-> "running"]
                      /\ bound[PathOf(p)] = p
    BY DEF EndpointLeadsHome, FilesAreOwn
  <2>1. record[chatOf[p]] \in Record /\ Names(record[chatOf[p]], p)
    BY DEF RegistryInv, RegistryShape, ChildrenAreRecorded, LiveAreChildren, Live
  <2> QED BY <2>1 DEF Names, Record, FilesAreOwn
<1> QED BY <1>1, <1>2, <1>3, RegistryInvHolds, PTL DEF SupervisorSpec

-----------------------------------------------------------------------------

(***************************************************************************)
(* The trace file, for any threads, subscribers and numbers of rows: as    *)
(* long as no row of two writes is appended beside the rows of another     *)
(* thread, every row stays a line of its own.                              *)
(***************************************************************************)

(* What every step keeps, whoever appends.                                 *)
TraceShape ==
    /\ long \subseteq Threads
    /\ pc \in [Threads -> {"idle", "linefeed", "snapshot", "send"}]
    /\ count \in [Threads -> Nat]
    /\ file \in Seq(Piece)
    /\ \A t \in Threads : pc[t] = "linefeed" => t \in long /\ count[t] > 0

Open == file # <<>> /\ file[Len(file)].part = "head"

(* The file ends with half a row exactly when its writer is at the line     *)
(* feed, and that half began a line.                                       *)
HalfRow ==
    /\ Open => \E t \in Threads : pc[t] = "linefeed"
    /\ \A t \in Threads : pc[t] = "linefeed" =>
          /\ file # <<>>
          /\ file[Len(file)] = piece(t, count[t], "head")
          /\ LineStart(file, Len(file))

AllReadable == \A t \in Threads : \A n \in Written(t) : Readable(file, t, n)

TraceInv == TraceShape /\ (Undisturbed => HalfRow /\ AllReadable)

(* Nothing that is appended makes a readable row unreadable.               *)
LEMMA ReadableStays ==
    ASSUME NEW S, NEW s \in Seq(S), NEW e \in S, NEW t, NEW n, Readable(s, t, n)
    PROVE  Readable(Append(s, e), t, n)
<1>1. /\ Append(s, e) \in Seq(S)
      /\ Len(Append(s, e)) = Len(s) + 1
      /\ \A i \in 1..Len(s) : Append(s, e)[i] = s[i]
  BY AppendProperties
<1>2. DOMAIN s = 1..Len(s) /\ DOMAIN Append(s, e) = 1..(Len(s) + 1) /\ Len(s) \in Nat
  BY <1>1, LenProperties
<1>3. PICK i \in 1..Len(s) :
        /\ LineStart(s, i)
        /\ \/ s[i] = piece(t, n, "whole")
           \/ s[i] = piece(t, n, "head") /\ i < Len(s) /\ s[i + 1] = piece(t, n, "rest")
  BY <1>2 DEF Readable
<1>4. LineStart(Append(s, e), i)
  BY <1>1, <1>2, <1>3 DEF LineStart
<1>5. i \in DOMAIN Append(s, e) /\ Append(s, e)[i] = s[i]
  BY <1>1, <1>2
<1>6. i < Len(s) => i < Len(Append(s, e)) /\ Append(s, e)[i + 1] = s[i + 1]
  BY <1>1, <1>2
<1> QED BY <1>3, <1>4, <1>5, <1>6 DEF Readable

(* A step that leaves the file, the counts and the line feeds alone.       *)
LEMMA QuietStep ==
    ASSUME TraceInv, UNCHANGED <<long, file, count>>,
           pc' \in [Threads -> {"idle", "linefeed", "snapshot", "send"}],
           \A t \in Threads : pc'[t] = "linefeed" <=> pc[t] = "linefeed"
    PROVE  TraceInv'
BY ZenonT(30) DEF TraceInv, TraceShape, Undisturbed, HalfRow, Open, AllReadable, Written, Readable, LineStart, piece

LEMMA AppendKeepsInv ==
    ASSUME TraceInv, NEW t \in Threads, AppendRow(t)
    PROVE  TraceInv'
<1> DEFINE n == count[t] + 1
           p == piece(t, n, IF t \in long THEN "head" ELSE "whole")
<1>1. /\ n \in Nat \ {0}
      /\ count' = [count EXCEPT ![t] = n]
      /\ long' = long
      /\ pc[t] = "idle"
      /\ pc' = [pc EXCEPT ![t] = IF t \in long THEN "linefeed" ELSE "snapshot"]
      /\ file' = Append(file, p)
  BY DEF AppendRow, TraceInv, TraceShape, Goto
<1>2. p \in Piece
  BY <1>1 DEF Piece, piece
<1>3. /\ file' \in Seq(Piece)
      /\ Len(file) \in Nat
      /\ Len(file') = Len(file) + 1
      /\ DOMAIN file' = 1..(Len(file) + 1)
      /\ \A i \in 1..Len(file) : file'[i] = file[i]
      /\ file'[Len(file) + 1] = p
      /\ file' # <<>>
  BY <1>1, <1>2, AppendProperties, LenProperties DEF TraceInv, TraceShape
<1>4. TraceShape'
  BY <1>1, <1>3 DEF TraceInv, TraceShape
<1>5. ASSUME Undisturbed'
      PROVE  HalfRow' /\ AllReadable'
  <2>1. Undisturbed
    BY <1>1, <1>5 DEF Undisturbed, TraceInv, TraceShape
  <2>2. \A u \in Threads : pc[u] # "linefeed"
    <3> SUFFICES ASSUME NEW u \in Threads, pc[u] = "linefeed" PROVE FALSE
      OBVIOUS
    <3>1. u # t /\ u \in long /\ count[u] > 0
      BY <1>1 DEF TraceInv, TraceShape
    <3>2. count'[u] > 0 /\ count'[t] > 0
      BY <1>1, <3>1 DEF TraceInv, TraceShape
    <3> QED BY <1>1, <1>5, <3>1, <3>2 DEF Undisturbed
  <2>3. ~Open
    BY <2>1, <2>2 DEF TraceInv, HalfRow
  <2>4. LineStart(file', Len(file) + 1)
    BY <1>3, <2>3 DEF LineStart, Open
  <2>5. HalfRow'
    BY <1>1, <1>3, <2>2, <2>4 DEF HalfRow, Open, piece, TraceInv, TraceShape
  <2>6. AllReadable'
    <3> SUFFICES ASSUME NEW u \in Threads, NEW m \in Written(u)'
                 PROVE  Readable(file', u, m)
      BY DEF AllReadable
    <3>1. CASE u = t /\ m = n
      <4>1. t \notin long
        BY <1>1, <3>1 DEF Written, TraceInv, TraceShape
      <4> QED BY <1>3, <2>4, <3>1, <4>1 DEF Readable
    <3>2. CASE ~(u = t /\ m = n)
      <4>1. m \in Written(u)
        BY <1>1, <2>2, <3>2 DEF Written, TraceInv, TraceShape
      <4>2. Readable(file, u, m)
        BY <2>1, <4>1 DEF TraceInv, AllReadable
      <4> QED BY <1>1, <1>2, <4>2, ReadableStays DEF TraceInv, TraceShape
    <3> QED BY <3>1, <3>2
  <2> QED BY <2>5, <2>6
<1> QED BY <1>4, <1>5 DEF TraceInv

LEMMA LineFeedKeepsInv ==
    ASSUME TraceInv, NEW t \in Threads, LineFeed(t)
    PROVE  TraceInv'
<1> DEFINE p == piece(t, count[t], "rest")
<1>1. /\ pc[t] = "linefeed"
      /\ pc' = [pc EXCEPT ![t] = "snapshot"]
      /\ UNCHANGED <<long, count>>
      /\ file' = Append(file, p)
      /\ count[t] \in Nat \ {0}
  BY DEF LineFeed, TraceInv, TraceShape, Goto
<1>2. p \in Piece
  BY <1>1 DEF Piece, piece
<1>3. /\ file' \in Seq(Piece)
      /\ Len(file) \in Nat
      /\ Len(file') = Len(file) + 1
      /\ DOMAIN file' = 1..(Len(file) + 1)
      /\ \A i \in 1..Len(file) : file'[i] = file[i]
      /\ file'[Len(file) + 1] = p
  BY <1>1, <1>2, AppendProperties, LenProperties DEF TraceInv, TraceShape
<1>4. TraceShape'
  BY <1>1, <1>3 DEF TraceInv, TraceShape
<1>5. ASSUME Undisturbed'
      PROVE  HalfRow' /\ AllReadable'
  <2>1. Undisturbed
    BY <1>1, <1>5 DEF Undisturbed
  <2>2. /\ file # <<>>
        /\ file[Len(file)] = piece(t, count[t], "head")
        /\ LineStart(file, Len(file))
    BY <1>1, <2>1 DEF TraceInv, HalfRow
  <2>3. Len(file) \in 1..Len(file)
    <3>1. file \in Seq(Piece) /\ file # <<>>
      BY <2>2 DEF TraceInv, TraceShape
    <3>2. Len(file) # 0
      BY <3>1, EmptySeq
    <3> QED BY <1>3, <3>2
  <2>4. \A u \in Threads \ {t} : pc[u] # "linefeed"
    <3> SUFFICES ASSUME NEW u \in Threads, pc[u] = "linefeed" PROVE u = t
      OBVIOUS
    <3>1. piece(u, count[u], "head") = piece(t, count[t], "head")
      BY <2>1, <2>2 DEF TraceInv, HalfRow
    <3> QED BY <3>1 DEF piece
  <2>5. HalfRow'
    BY <1>1, <1>3, <2>4 DEF HalfRow, Open, piece, TraceInv, TraceShape
  <2>6. Readable(file', t, count[t])
    <3>1. LineStart(file', Len(file))
      <4>1. CASE Len(file) = 1
        BY <4>1 DEF LineStart
      <4>2. CASE Len(file) # 1
        <5>1. Len(file) - 1 \in 1..Len(file)
          BY <2>3, <4>2
        <5>2. file'[Len(file) - 1] = file[Len(file) - 1]
          BY <1>3, <5>1
        <5> QED BY <2>2, <4>2, <5>2 DEF LineStart
      <4> QED BY <4>1, <4>2
    <3>2. file'[Len(file)] = piece(t, count[t], "head") /\ file'[Len(file) + 1] = p
      BY <1>3, <2>2, <2>3
    <3>3. Len(file) \in DOMAIN file' /\ Len(file) < Len(file')
      BY <1>3, <2>3
    <3> QED BY <3>1, <3>2, <3>3 DEF Readable
  <2>7. AllReadable'
    <3> SUFFICES ASSUME NEW u \in Threads, NEW m \in Written(u)'
                 PROVE  Readable(file', u, m)
      BY DEF AllReadable
    <3>1. CASE u = t /\ m = count[t]
      BY <2>6, <3>1
    <3>2. CASE ~(u = t /\ m = count[t])
      <4>1. m \in Written(u)
        BY <1>1, <3>2 DEF Written, TraceInv, TraceShape
      <4>2. Readable(file, u, m)
        BY <2>1, <4>1 DEF TraceInv, AllReadable
      <4> QED BY <1>1, <1>2, <4>2, ReadableStays DEF TraceInv, TraceShape
    <3> QED BY <3>1, <3>2
  <2> QED BY <2>5, <2>7
<1> QED BY <1>4, <1>5 DEF TraceInv

LEMMA OtherStepsKeepTrace ==
    ASSUME TraceInv, [TraceNext]_traceVars, \A t \in Threads : ~AppendRow(t) /\ ~LineFeed(t)
    PROVE  TraceInv'
<1>1. ASSUME NEW t \in Threads, Thread(t)
      PROVE  TraceInv'
  <2>1. UNCHANGED <<long, file, count>>
    BY <1>1 DEF Thread, Snapshot, Done, Send, SendRest, Skip, SendFails
  <2>2. \/ pc' = pc
        \/ pc[t] = "snapshot" /\ pc' = [pc EXCEPT ![t] = "send"]
        \/ pc[t] = "send" /\ pc' = [pc EXCEPT ![t] = "idle"]
    BY <1>1 DEF Thread, Snapshot, Done, Send, SendRest, Skip, SendFails, Goto
  <2>3. /\ pc' \in [Threads -> {"idle", "linefeed", "snapshot", "send"}]
        /\ \A u \in Threads : pc'[u] = "linefeed" <=> pc[u] = "linefeed"
    BY <2>2 DEF TraceInv, TraceShape
  <2> QED BY <2>1, <2>3, QuietStep
<1>2. ASSUME NEW c \in Clients, Subscribe(c) \/ ClientReads(c) \/ ClientCloses(c)
      PROVE  TraceInv'
  <2>1. UNCHANGED <<long, file, count, pc>>
    BY <1>2 DEF Subscribe, ClientReads, ClientCloses, threadVars
  <2> QED BY <2>1, QuietStep DEF TraceInv, TraceShape
<1>3. CASE Crash \/ UNCHANGED traceVars
  <2>1. UNCHANGED <<long, file, count, pc>>
    BY <1>3 DEF Crash, traceVars, threadVars
  <2> QED BY <2>1, QuietStep DEF TraceInv, TraceShape
<1> QED BY <1>1, <1>2, <1>3 DEF TraceNext

(* Whatever the threads do at the same time, a row is a readable line of    *)
(* the file once its append has returned, and stays one, a crash of the     *)
(* broker included (trace_store.py:38-49), as long as rows that take two    *)
(* writes have the file to themselves.                                      *)
THEOREM AppendedRowsAreReadable == TraceSpec => []RowsAreReadable
<1>1. TraceInit => TraceInv
  <2> SUFFICES ASSUME TraceInit PROVE TraceInv
    OBVIOUS
  <2>1. TraceShape /\ ~Open /\ \A t \in Threads : pc[t] # "linefeed" /\ Written(t) = {}
    BY TraceAssumption DEF TraceInit, TraceShape, Open, Written
  <2> QED BY <2>1 DEF TraceInv, HalfRow, AllReadable
<1>2. TraceInv /\ [TraceNext]_traceVars => TraceInv'
  BY AppendKeepsInv, LineFeedKeepsInv, OtherStepsKeepTrace
<1>3. TraceInv => RowsAreReadable
  BY DEF TraceInv, AllReadable, RowsAreReadable
<1> QED BY <1>1, <1>2, <1>3, PTL DEF TraceSpec

(***************************************************************************)
(* Subscribers.  A piece is only sent of a row whose append has returned.  *)
(***************************************************************************)
AllSent ==
    \A c \in Clients : \A i \in 1..Len(wire[c]) : wire[c][i].n \in Written(wire[c][i].thread)

SentInv ==
    /\ subs \subseteq Clients
    /\ targets \in [Threads -> SUBSET Clients]
    /\ half \in [Threads -> Clients \cup {NoClient}]
    /\ wire \in [Clients -> Seq(Piece)]
    /\ read \in [Clients -> Nat]
    /\ \A c \in Clients : read[c] <= Len(wire[c])
    /\ \A t \in Threads :
          /\ pc[t] # "idle" => count[t] > 0
          /\ half[t] # NoClient => pc[t] = "send" /\ half[t] \in targets[t]
    /\ AllSent

(* Rows are never taken back.                                              *)
LEMMA WrittenGrows ==
    ASSUME TraceShape, [TraceNext]_traceVars, NEW t \in Threads
    PROVE  Written(t) \subseteq Written(t)'
<1>1. ASSUME NEW u \in Threads, Thread(u)
      PROVE  \/ UNCHANGED <<pc, count>>
             \/ /\ pc[u] = "idle" /\ count' = [count EXCEPT ![u] = @ + 1]
                /\ pc' = [pc EXCEPT ![u] = "snapshot"] \/ pc' = [pc EXCEPT ![u] = "linefeed"]
             \/ /\ UNCHANGED count /\ pc[u] = "linefeed" /\ pc' = [pc EXCEPT ![u] = "snapshot"]
             \/ /\ UNCHANGED count /\ pc[u] = "snapshot" /\ pc' = [pc EXCEPT ![u] = "send"]
             \/ /\ UNCHANGED count /\ pc[u] = "send" /\ pc' = [pc EXCEPT ![u] = "idle"]
  BY <1>1 DEF Thread, AppendRow, LineFeed, Snapshot, Done, Send, SendRest, Skip, SendFails, Goto
<1>2. ASSUME NEW u \in Threads, Thread(u)
      PROVE  Written(t) \subseteq Written(t)'
  <2>1. count \in [Threads -> Nat] /\ pc = [v \in Threads |-> pc[v]] /\ count[t] \in Nat
    BY DEF TraceShape
  <2>2. CASE pc'[t] = pc[t] /\ count'[t] = count[t]
    BY <2>2 DEF Written
  <2>3. CASE u = t /\ pc[t] = "idle" /\ count'[t] = count[t] + 1
    BY <2>1, <2>3 DEF Written
  <2>4. CASE u = t /\ count'[t] = count[t] /\ pc'[t] # "linefeed"
    BY <2>1, <2>4 DEF Written
  <2> QED BY <1>1, <1>2, <2>1, <2>2, <2>3, <2>4
<1>3. CASE ~\E u \in Threads : Thread(u)
  BY <1>3 DEF TraceNext, Subscribe, ClientReads, ClientCloses, Crash, traceVars, threadVars, Written
<1> QED BY <1>2, <1>3

(* A step that sends nothing.                                              *)
LEMMA NothingSent ==
    ASSUME TraceShape, SentInv, [TraceNext]_traceVars, UNCHANGED wire
    PROVE  AllSent'
<1> SUFFICES ASSUME NEW c \in Clients, NEW i \in 1..Len(wire[c])
             PROVE  (wire[c][i].n \in Written(wire[c][i].thread))'
  BY DEF AllSent
<1>1. wire[c][i] \in Piece
  <2>1. wire[c] \in Seq(Piece)
    BY DEF SentInv
  <2> QED BY <2>1, ElementOfSeq
<1>2. wire[c][i].thread \in Threads
  BY <1>1 DEF Piece
<1>3. wire[c][i].n \in Written(wire[c][i].thread)
  BY DEF SentInv, AllSent
<1> QED BY <1>2, <1>3, WrittenGrows

(* A thread sends a piece of the row it is at.                             *)
LEMMA SentByThread ==
    ASSUME TraceShape, SentInv, NEW t \in Threads, NEW d \in Clients, NEW part \in {"whole", "head", "rest"},
           pc[t] = "send", Put(d, piece(t, count[t], part)), UNCHANGED <<pc, count>>
    PROVE  /\ wire' \in [Clients -> Seq(Piece)]
           /\ \A c \in Clients : Len(wire[c]) <= Len(wire'[c])
           /\ AllSent'
<1> DEFINE p == piece(t, count[t], part)
<1>1. p \in Piece /\ p.n = count[t] /\ p.thread = t
  BY DEF Piece, piece, TraceShape
<1>2. p.n \in Written(p.thread)
  BY <1>1 DEF Written, TraceShape, SentInv
<1>3. wire' = [wire EXCEPT ![d] = Append(wire[d], p)]
  BY DEF Put
<1>4. wire[d] \in Seq(Piece)
  BY DEF SentInv
<1>5. /\ Append(wire[d], p) \in Seq(Piece)
      /\ Len(Append(wire[d], p)) = Len(wire[d]) + 1
      /\ \A i \in 1..Len(wire[d]) : Append(wire[d], p)[i] = wire[d][i]
      /\ Append(wire[d], p)[Len(wire[d]) + 1] = p
      /\ Len(wire[d]) \in Nat
  BY <1>1, <1>4, AppendProperties, LenProperties
<1>6. \A c \in Clients : Len(wire[c]) \in Nat
  BY LenProperties DEF SentInv
<1>7. wire' \in [Clients -> Seq(Piece)] /\ \A c \in Clients : Len(wire[c]) <= Len(wire'[c])
  BY <1>3, <1>5, <1>6 DEF SentInv
<1>8. ASSUME NEW c \in Clients, NEW i \in 1..Len(wire'[c])
      PROVE  wire'[c][i].n \in Written(wire'[c][i].thread)
  <2>1. CASE c = d /\ i = Len(wire[d]) + 1
    BY <1>2, <1>3, <1>5, <2>1 DEF SentInv
  <2>2. CASE ~(c = d /\ i = Len(wire[d]) + 1)
    <3>1. i \in 1..Len(wire[c]) /\ wire'[c][i] = wire[c][i]
      BY <1>3, <1>5, <1>6, <2>2 DEF SentInv
    <3> QED BY <3>1 DEF SentInv, AllSent
  <2> QED BY <2>1, <2>2
<1>9. AllSent'
  BY <1>8 DEF AllSent, Written
<1> QED BY <1>7, <1>9

LEMMA ThreadKeepsSent ==
    ASSUME TraceShape, SentInv, NEW t \in Threads, Thread(t)
    PROVE  SentInv'
<1>0. [TraceNext]_traceVars
  BY DEF TraceNext
<1>1. CASE AppendRow(t) \/ LineFeed(t) \/ Snapshot(t) \/ Done(t)
  <2>1. UNCHANGED <<wire, read, half, subs>>
    BY <1>1 DEF AppendRow, LineFeed, Snapshot, Done, clientVars
  <2>2. targets' \in [Threads -> SUBSET Clients] /\ \A u \in Threads \ {t} : targets'[u] = targets[u]
    BY <1>1 DEF AppendRow, LineFeed, Snapshot, Done, SentInv
  <2>3. half[t] = NoClient
    <3>1. pc[t] = "send" => targets[t] = {}
      BY <1>1 DEF AppendRow, LineFeed, Snapshot, Done
    <3> QED BY <3>1 DEF SentInv
  <2>4. \A u \in Threads \ {t} : pc'[u] = pc[u] /\ count'[u] = count[u]
    BY <1>1 DEF AppendRow, LineFeed, Snapshot, Done, Goto, TraceShape
  <2>5. count'[t] > 0
    BY <1>1 DEF AppendRow, LineFeed, Snapshot, Done, TraceShape, SentInv
  <2>6. \A u \in Threads :
           /\ pc'[u] # "idle" => count'[u] > 0
           /\ half[u] # NoClient => pc'[u] = "send" /\ half[u] \in targets'[u]
    BY <2>2, <2>3, <2>4, <2>5 DEF SentInv
  <2> QED BY <1>0, <2>1, <2>2, <2>6, NothingSent DEF SentInv
<1>2. ASSUME NEW c \in Clients, Send(t, c) \/ SendRest(t, c)
      PROVE  SentInv'
  <2>1. /\ UNCHANGED <<pc, count, subs, read>>
        /\ pc[t] = "send" /\ c \in targets[t]
        /\ \E part \in {"whole", "head", "rest"} : Put(c, piece(t, count[t], part))
    BY <1>2, TraceAssumption DEF Send, SendRest, SentInv
  <2>2. /\ wire' \in [Clients -> Seq(Piece)]
        /\ \A d \in Clients : Len(wire[d]) <= Len(wire'[d])
        /\ AllSent'
    BY <2>1, SentByThread
  <2>3. \/ half' = [half EXCEPT ![t] = c] /\ UNCHANGED targets
        \/ /\ half[t] \in {c, NoClient}
           /\ half' = [half EXCEPT ![t] = NoClient] /\ DropTarget(t, c)
    BY <1>2 DEF Send, SendRest, SentInv
  <2>4. /\ targets' \in [Threads -> SUBSET Clients]
        /\ half' \in [Threads -> Clients \cup {NoClient}]
        /\ \A u \in Threads : half'[u] # NoClient => pc[u] = "send" /\ half'[u] \in targets'[u]
    BY <2>1, <2>3 DEF SentInv, DropTarget
  <2>5. \A d \in Clients : read'[d] <= Len(wire'[d])
    <3> SUFFICES ASSUME NEW d \in Clients PROVE read[d] <= Len(wire'[d])
      BY <2>1
    <3>1. read[d] \in Nat /\ Len(wire[d]) \in Nat /\ Len(wire'[d]) \in Nat
      BY <2>2, LenProperties DEF SentInv
    <3> QED BY <2>2, <3>1 DEF SentInv
  <2> QED BY <2>1, <2>2, <2>4, <2>5 DEF SentInv
<1>3. ASSUME NEW c \in Clients, Skip(t, c) \/ SendFails(t, c)
      PROVE  SentInv'
  <2>1. /\ UNCHANGED <<pc, count, wire, read>>
        /\ subs' \subseteq subs
        /\ half[t] \in {c, NoClient}
        /\ half' = [half EXCEPT ![t] = NoClient]
        /\ DropTarget(t, c)
    BY <1>3 DEF Skip, SendFails, clientVars, SentInv
  <2>2. /\ targets' \in [Threads -> SUBSET Clients]
        /\ half' \in [Threads -> Clients \cup {NoClient}]
        /\ \A u \in Threads : half'[u] # NoClient => pc[u] = "send" /\ half'[u] \in targets'[u]
    BY <2>1 DEF SentInv, DropTarget
  <2> QED BY <1>0, <2>1, <2>2, NothingSent DEF SentInv
<1> QED BY <1>1, <1>2, <1>3 DEF Thread

LEMMA OthersKeepSent ==
    ASSUME TraceShape, SentInv, [TraceNext]_traceVars, ~\E t \in Threads : Thread(t)
    PROVE  SentInv'
<1>1. /\ UNCHANGED <<pc, count, targets, half, wire>>
      /\ subs' \subseteq Clients
      /\ \/ UNCHANGED read
         \/ \E c \in Clients : read[c] < Len(wire[c]) /\ read' = [read EXCEPT ![c] = @ + 1]
  BY DEF TraceNext, Subscribe, ClientReads, ClientCloses, Crash, traceVars, threadVars, clientVars, SentInv
<1>2. read' \in [Clients -> Nat] /\ \A c \in Clients : read'[c] <= Len(wire[c])
  <2>1. \A c \in Clients : read[c] \in Nat /\ Len(wire[c]) \in Nat /\ read[c] <= Len(wire[c])
    BY LenProperties DEF SentInv
  <2>2. CASE UNCHANGED read
    BY <2>1, <2>2 DEF SentInv
  <2>3. ASSUME NEW c \in Clients, read[c] < Len(wire[c]), read' = [read EXCEPT ![c] = @ + 1]
        PROVE  read' \in [Clients -> Nat] /\ \A d \in Clients : read'[d] <= Len(wire[d])
    <3>1. read[c] + 1 \in Nat /\ read[c] + 1 <= Len(wire[c])
      BY <2>1, <2>3
    <3>2. \A d \in Clients : read'[d] = IF d = c THEN read[c] + 1 ELSE read[d]
      BY <2>3 DEF SentInv
    <3>3. read' \in [Clients -> Nat]
      BY <2>3, <3>1 DEF SentInv
    <3> QED BY <2>1, <3>1, <3>2, <3>3
  <2> QED BY <1>1, <2>2, <2>3
<1> QED BY <1>1, <1>2, NothingSent DEF SentInv

(* What a reader of its socket can make out is a row that was appended.    *)
LEMMA SeenIsWritten ==
    ASSUME SentInv, NEW c \in Clients, NEW t, NEW n,
           Readable(SubSeq(wire[c], 1, read[c]), t, n)
    PROVE  n \in Written(t)
<1>1. /\ wire[c] \in Seq(Piece) /\ read[c] \in Nat
      /\ Len(wire[c]) \in Nat /\ read[c] <= Len(wire[c])
  BY LenProperties DEF SentInv
<1>2. \A i \in 1..read[c] : wire[c][i] \in Piece
  BY <1>1, ElementOfSeq
<1> DEFINE seen == SubSeq(wire[c], 1, read[c])
<1>3. /\ seen \in Seq(Piece)
      /\ Len(seen) = read[c]
      /\ \A i \in 1..read[c] : seen[i] = wire[c][i]
  BY <1>1, <1>2, SubSeqProperties
<1>4. DOMAIN seen = 1..read[c]
  BY <1>3, LenProperties
<1>5. PICK i \in 1..read[c] : \E part \in {"whole", "head"} : seen[i] = piece(t, n, part)
  BY <1>4 DEF Readable
<1>6. wire[c][i].thread = t /\ wire[c][i].n = n
  BY <1>3, <1>5 DEF piece
<1> HIDE DEF seen
<1>7. i \in 1..Len(wire[c])
  BY <1>1
<1>8. AllSent
  BY DEF SentInv
<1>9. wire[c][i].n \in Written(wire[c][i].thread)
  BY <1>7, <1>8 DEF AllSent
<1> QED BY <1>6, <1>9

LEMMA TraceStarts == TraceInit => TraceInv /\ SentInv
<1> SUFFICES ASSUME TraceInit PROVE TraceInv /\ SentInv
  OBVIOUS
<1>1. TraceShape /\ ~Open /\ \A t \in Threads : pc[t] # "linefeed" /\ Written(t) = {}
  BY TraceAssumption DEF TraceInit, TraceShape, Open, Written
<1>2. SentInv
  BY EmptySeq DEF TraceInit, SentInv, AllSent
<1> QED BY <1>1, <1>2 DEF TraceInv, HalfRow, AllReadable

LEMMA TraceGoesOn ==
    ASSUME TraceInv, SentInv, [TraceNext]_traceVars
    PROVE  TraceInv' /\ SentInv'
BY AppendKeepsInv, LineFeedKeepsInv, OtherStepsKeepTrace, ThreadKeepsSent, OthersKeepSent DEF TraceInv

(* What a subscriber has seen is a readable line of the file by then, so    *)
(* that a crash takes nothing back, however the sends to it go: skipped,    *)
(* failed or cut short (broker.py:331-334), under the same condition.       *)
THEOREM SeenRowsAreDurable == TraceSpec => []SeenIsDurable
<1>1. TraceInv /\ SentInv => SeenIsDurable
  BY SeenIsWritten DEF TraceInv, AllReadable, SeenIsDurable
<1> QED BY <1>1, TraceStarts, TraceGoesOn, PTL DEF TraceSpec

(***************************************************************************)
(* The order in which a subscriber is sent what one thread appends.        *)
(***************************************************************************)
Before(p, q) == p.n < q.n \/ (p.n = q.n /\ p.part = "head" /\ q.part = "rest")

SentInOrder ==
    \A c \in Clients : \A i, j \in 1..Len(wire[c]) :
        i < j /\ wire[c][i].thread = wire[c][j].thread => Before(wire[c][i], wire[c][j])

(* What has been sent to c is of earlier rows than its thread has still to  *)
(* send to it, but for the first half of the row that it is sending.       *)
Past(c, p) ==
    /\ p.n <= count[p.thread]
    /\ p.n = count[p.thread] =>
          /\ pc[p.thread] \in {"send", "idle"}
          /\ pc[p.thread] = "send" /\ c \in targets[p.thread] => half[p.thread] = c /\ p.part = "head"

StillPast(c, p) ==
    /\ p.n <= count'[p.thread]
    /\ p.n = count'[p.thread] =>
          /\ pc'[p.thread] \in {"send", "idle"}
          /\ pc'[p.thread] = "send" /\ c \in targets'[p.thread] => half'[p.thread] = c /\ p.part = "head"

OrderInv == SentInOrder /\ \A c \in Clients : \A i \in 1..Len(wire[c]) : Past(c, wire[c][i])

LEMMA PastStays ==
    ASSUME TraceShape, SentInv, TraceNext, NEW c \in Clients, NEW p \in Piece, Past(c, p)
    PROVE  StillPast(c, p)
<1> DEFINE u == p.thread
<1>1. /\ u \in Threads /\ p.n \in Nat /\ count \in [Threads -> Nat]
      /\ pc \in [Threads -> {"idle", "linefeed", "snapshot", "send"}]
      /\ targets \in [Threads -> SUBSET Clients]
      /\ half \in [Threads -> Clients \cup {NoClient}] /\ c # NoClient
  BY TraceAssumption DEF Piece, TraceShape, SentInv
<1>2. /\ p.n <= count[u]
      /\ p.n = count[u] =>
            /\ pc[u] \in {"send", "idle"}
            /\ pc[u] = "send" /\ c \in targets[u] => half[u] = c /\ p.part = "head"
  BY DEF Past, u
<1> HIDE DEF u
<1>3. SUFFICES /\ p.n <= count'[u]
               /\ p.n = count'[u] =>
                     /\ pc'[u] \in {"send", "idle"}
                     /\ pc'[u] = "send" /\ c \in targets'[u] => half'[u] = c /\ p.part = "head"
  BY DEF StillPast, u
<1>4. CASE count'[u] = count[u] /\ pc'[u] = pc[u] /\ targets'[u] = targets[u] /\ half'[u] = half[u]
  BY <1>2, <1>4
<1>5. CASE AppendRow(u)
  BY <1>1, <1>2, <1>5 DEF AppendRow
<1>6. CASE LineFeed(u) \/ Snapshot(u)
  BY <1>1, <1>2, <1>6 DEF LineFeed, Snapshot
<1>7. CASE Done(u)
  BY <1>1, <1>2, <1>7 DEF Done, Goto
<1>8. ASSUME NEW d \in Clients, Send(u, d)
      PROVE  /\ p.n <= count'[u]
             /\ p.n = count'[u] =>
                   /\ pc'[u] \in {"send", "idle"}
                   /\ pc'[u] = "send" /\ c \in targets'[u] => half'[u] = c /\ p.part = "head"
  BY <1>1, <1>2, <1>8 DEF Send, DropTarget
<1>9. ASSUME NEW d \in Clients, SendRest(u, d) \/ Skip(u, d) \/ SendFails(u, d)
      PROVE  /\ p.n <= count'[u]
             /\ p.n = count'[u] =>
                   /\ pc'[u] \in {"send", "idle"}
                   /\ pc'[u] = "send" /\ c \in targets'[u] => half'[u] = c /\ p.part = "head"
  <2>1. /\ UNCHANGED <<count, pc>>
        /\ half[u] \in {d, NoClient}
        /\ targets'[u] = targets[u] \ {d}
    BY <1>1, <1>9 DEF SendRest, Skip, SendFails, DropTarget
  <2> QED BY <1>1, <1>2, <2>1
<1>10. ASSUME NEW t \in Threads \ {u}, Thread(t)
       PROVE  count'[u] = count[u] /\ pc'[u] = pc[u] /\ targets'[u] = targets[u] /\ half'[u] = half[u]
  BY <1>1, <1>10 DEF Thread, AppendRow, LineFeed, Snapshot, Done, Send, SendRest, Skip, SendFails, Goto, DropTarget
<1>11. CASE ~\E t \in Threads : Thread(t)
  BY <1>4, <1>11 DEF TraceNext, Subscribe, ClientReads, ClientCloses, Crash, threadVars
<1> QED BY <1>1, <1>4, <1>5, <1>6, <1>7, <1>8, <1>9, <1>10, <1>11 DEF Thread

(* What was sent before stays in its place.                                *)
LEMMA EarlierStays ==
    ASSUME TraceShape, SentInv, OrderInv, TraceNext, NEW c \in Clients, NEW i \in 1..Len(wire[c]),
           wire'[c][i] = wire[c][i]
    PROVE  Past(c, wire[c][i])'
<1>1. wire[c][i] \in Piece
  BY ElementOfSeq DEF SentInv
<1>2. StillPast(c, wire[c][i])
  BY <1>1, PastStays DEF OrderInv
<1> QED BY <1>2 DEF StillPast, Past

(* A piece goes to the end of what was sent to d, after all of its thread.  *)
LEMMA NextInOrder ==
    ASSUME TraceShape, SentInv, OrderInv, TraceNext, NEW d \in Clients, NEW p \in Piece, Put(d, p), StillPast(d, p),
           \A i \in 1..Len(wire[d]) : wire[d][i].thread = p.thread => Before(wire[d][i], p)
    PROVE  OrderInv'
<1>1. wire' = [wire EXCEPT ![d] = Append(wire[d], p)] /\ wire \in [Clients -> Seq(Piece)]
  BY DEF Put, SentInv
<1>2. /\ Len(wire'[d]) = Len(wire[d]) + 1
      /\ \A i \in 1..Len(wire[d]) : wire'[d][i] = wire[d][i]
      /\ wire'[d][Len(wire[d]) + 1] = p
      /\ Len(wire[d]) \in Nat
  BY <1>1, AppendProperties, LenProperties
<1>3. \A c \in Clients \ {d} : wire'[c] = wire[c]
  BY <1>1
<1>4. ASSUME NEW c \in Clients, NEW i \in 1..Len(wire'[c])
      PROVE  \/ i \in 1..Len(wire[c]) /\ wire'[c][i] = wire[c][i]
             \/ c = d /\ i = Len(wire[d]) + 1
  BY <1>2, <1>3
<1>5. ASSUME NEW c \in Clients, NEW i \in 1..Len(wire'[c])
      PROVE  Past(c, wire[c][i])'
  <2>1. CASE i \in 1..Len(wire[c]) /\ wire'[c][i] = wire[c][i]
    BY <2>1, EarlierStays
  <2>2. CASE c = d /\ i = Len(wire[d]) + 1
    BY <1>2, <2>2 DEF StillPast, Past
  <2> QED BY <1>4, <2>1, <2>2
<1>6. ASSUME NEW c \in Clients, NEW i \in 1..Len(wire'[c]), NEW j \in 1..Len(wire'[c]),
             i < j, wire'[c][i].thread = wire'[c][j].thread
      PROVE  Before(wire'[c][i], wire'[c][j])
  <2>1. CASE c = d /\ j = Len(wire[d]) + 1
    <3>1. i \in 1..Len(wire[d]) /\ wire'[c][i] = wire[d][i] /\ wire'[c][j] = p
      BY <1>2, <1>6, <2>1, SMTT(30)
    <3>2. wire[d][i].thread = p.thread
      BY <1>6, <3>1
    <3>3. Before(wire[d][i], p)
      BY <3>1, <3>2
    <3> QED BY <3>1, <3>3
  <2>2. CASE ~(c = d /\ j = Len(wire[d]) + 1)
    <3>1. j \in 1..Len(wire[c]) /\ wire'[c][j] = wire[c][j]
      BY <1>4, <2>2
    <3>2. i \in 1..Len(wire[c]) /\ wire'[c][i] = wire[c][i]
      <4>1. Len(wire[c]) \in Nat
        BY <1>1, LenProperties
      <4> QED BY <1>2, <1>3, <1>6, <3>1, <4>1
    <3>3. Before(wire[c][i], wire[c][j])
      BY <1>6, <3>1, <3>2 DEF OrderInv, SentInOrder
    <3> QED BY <3>1, <3>2, <3>3
  <2> QED BY <2>1, <2>2
<1>7. SentInOrder'
  BY <1>6 DEF SentInOrder, Before
<1> QED BY <1>5, <1>7 DEF OrderInv

LEMMA SendKeepsOrder ==
    ASSUME TraceShape, SentInv, OrderInv, TraceNext, NEW t \in Threads, NEW d \in Clients,
           Send(t, d) \/ SendRest(t, d)
    PROVE  OrderInv'
<1>1. /\ UNCHANGED <<pc, count>> /\ pc[t] = "send" /\ count[t] \in Nat
      /\ d # NoClient /\ half \in [Threads -> Clients \cup {NoClient}] /\ targets \in [Threads -> SUBSET Clients]
      /\ d \in targets[t]
  BY TraceAssumption DEF Send, SendRest, TraceShape, SentInv
<1>2. ASSUME NEW i \in 1..Len(wire[d]), wire[d][i].thread = t
      PROVE  /\ wire[d][i].n \in Nat /\ wire[d][i].n <= count[t]
             /\ wire[d][i].n = count[t] => half[t] = d /\ wire[d][i].part = "head"
  <2>1. wire[d][i] \in Piece
    BY ElementOfSeq DEF SentInv
  <2>2. Past(d, wire[d][i])
    BY DEF OrderInv
  <2> QED BY <1>1, <1>2, <2>1, <2>2 DEF Past, Piece
<1>3. CASE SendRest(t, d)
  <2> DEFINE p == piece(t, count[t], "rest")
  <2>1. p \in Piece /\ p.thread = t /\ p.n = count[t] /\ p.part = "rest"
    BY <1>1 DEF Piece, piece
  <2>2. Put(d, p) /\ d \notin targets'[t]
    BY <1>1, <1>3 DEF SendRest, DropTarget
  <2> HIDE DEF p
  <2>3. StillPast(d, p)
    BY <1>1, <2>1, <2>2 DEF StillPast
  <2>4. \A i \in 1..Len(wire[d]) : wire[d][i].thread = p.thread => Before(wire[d][i], p)
    BY <1>1, <1>2, <2>1 DEF Before
  <2> QED BY <2>1, <2>2, <2>3, <2>4, NextInOrder
<1>4. ASSUME Send(t, d), NEW part \in {"whole", "head"}, Put(d, piece(t, count[t], part)),
             d \notin targets'[t] \/ (half'[t] = d /\ part = "head")
      PROVE  OrderInv'
  <2> DEFINE p == piece(t, count[t], part)
  <2>1. p \in Piece /\ p.thread = t /\ p.n = count[t] /\ p.part = part
    BY <1>1 DEF Piece, piece
  <2>2. Put(d, p) /\ half[t] = NoClient
    BY <1>4 DEF Send
  <2> HIDE DEF p
  <2>3. StillPast(d, p)
    BY <1>1, <1>4, <2>1 DEF StillPast
  <2>4. \A i \in 1..Len(wire[d]) : wire[d][i].thread = p.thread => Before(wire[d][i], p)
    BY <1>1, <1>2, <2>1, <2>2 DEF Before
  <2> QED BY <2>1, <2>2, <2>3, <2>4, NextInOrder
<1>5. CASE Send(t, d)
  <2>1. \E part \in {"whole", "head"} :
           /\ Put(d, piece(t, count[t], part))
           /\ d \notin targets'[t] \/ (half'[t] = d /\ part = "head")
    BY <1>1, <1>5 DEF Send, DropTarget
  <2> QED BY <1>4, <1>5, <2>1
<1> QED BY <1>3, <1>5

(* A subscriber is sent the rows of one thread in the order in which they   *)
(* were appended and none of them twice, whatever is skipped, cut short or  *)
(* fails, and however many threads share its socket: a thread has sent a    *)
(* row to everybody, or given up, before it appends its next one            *)
(* (broker.py, append_trace and _LiveSubscribers.broadcast).                *)
THEOREM RowsAreSentInOrder == TraceSpec => []SentInOrder
<1>1. TraceInit => TraceInv /\ SentInv /\ OrderInv
  BY TraceStarts, LenProperties DEF TraceInit, OrderInv, SentInOrder
<1>2. TraceInv /\ SentInv /\ OrderInv /\ [TraceNext]_traceVars => TraceInv' /\ SentInv' /\ OrderInv'
  <2> SUFFICES ASSUME TraceInv, SentInv, OrderInv, [TraceNext]_traceVars
               PROVE  OrderInv'
    BY TraceGoesOn
  <2>1. TraceShape
    BY DEF TraceInv
  <2>2. CASE UNCHANGED traceVars
    BY <2>2 DEF traceVars, threadVars, clientVars, OrderInv, SentInOrder, Past
  <2>3. ASSUME NEW t \in Threads, NEW d \in Clients, Send(t, d) \/ SendRest(t, d), TraceNext
        PROVE  OrderInv'
    BY <2>1, <2>3, SendKeepsOrder
  <2>4. CASE TraceNext /\ UNCHANGED wire
    <3>1. \A c \in Clients : \A i \in 1..Len(wire[c]) : Past(c, wire[c][i])'
      BY <2>1, <2>4, EarlierStays
    <3> QED BY <2>4, <3>1 DEF OrderInv, SentInOrder, Before
  <2>5. TraceNext => UNCHANGED wire \/ \E t \in Threads, d \in Clients : Send(t, d) \/ SendRest(t, d)
    BY DEF TraceNext, Thread, AppendRow, LineFeed, Snapshot, Done, Skip, SendFails,
           Subscribe, ClientReads, ClientCloses, Crash, clientVars
  <2> QED BY <2>2, <2>3, <2>4, <2>5
<1> QED BY <1>1, <1>2, PTL DEF TraceSpec, OrderInv

-----------------------------------------------------------------------------

(***************************************************************************)
(* An agent's inbox, for any number of processes that send, mark and die:  *)
(* what was reported as done is in the file.                               *)
(***************************************************************************)

(* Who has the lock works on a copy that is as good as the inbox it will    *)
(* replace: each letter once, what was sent and shown in it, and no letter  *)
(* that somebody else is still about to add.                                *)
Letters == [id : Nat, read : BOOLEAN]

Ids(ms) == {ms[i].id : i \in DOMAIN ms}

Once(ms) == \A i, j \in DOMAIN ms : ms[i].id = ms[j].id => i = j

Sending(c) == doing[c].op = "send"

MailShape ==
    /\ mail \in Nat
    /\ mailStep = [c \in MailClients |-> mailStep[c]]
    /\ doing = [c \in MailClients |-> doing[c]]
    /\ copy = [c \in MailClients |-> copy[c]]
    /\ \A c \in MailClients :
          /\ doing[c] \in [op : {"none", "mark"}] \cup [op : {"send"}, id : 1..mail]
          /\ mailStep[c] \in {"lock", "load", "write", "replace", "unlock"}
                => doing[c].op \in {"send", "mark"}
          /\ mailStep[c] \in {"idle", "dead"} => ~Sending(c)

LockIsHeld ==
    \A c \in MailClients : mailStep[c] \in {"load", "write", "replace", "unlock"} => holder = c

NumbersAreOwn ==
    \A c, d \in MailClients : Sending(c) /\ Sending(d) /\ doing[c].id = doing[d].id => c = d

(* ms may stand as the inbox, but for what the clients in S are adding. *)
Keeps(ms, S) ==
    /\ ms \in Seq(Letters)
    /\ Once(ms)
    /\ sent \cup shown \subseteq Ids(ms)
    /\ \A i \in DOMAIN ms : ms[i].id <= mail /\ (ms[i].id \in shown => ms[i].read)
    /\ \A c \in MailClients \ S : Sending(c) => doing[c].id \notin Ids(ms)

Carries(ms, c) ==
    /\ Sending(c) => doing[c].id \in Ids(ms)
    /\ ~Sending(c) => \A i \in DOMAIN ms : ms[i].read

Unlocking == {c \in MailClients : mailStep[c] = "unlock"}

CopyIsGood ==
    \A c \in MailClients :
        /\ mailStep[c] \in {"write", "replace"} => Keeps(copy[c], {c}) /\ Carries(copy[c], c)
        /\ mailStep[c] = "replace" => tmpFile = copy[c]
        /\ mailStep[c] = "unlock" => inbox = copy[c] /\ Carries(inbox, c)

MailInv == MailShape /\ LockIsHeld /\ NumbersAreOwn /\ Keeps(inbox, Unlocking) /\ CopyIsGood

LEMMA AppendKeeps ==
    ASSUME NEW ms \in Seq(Letters), NEW x \in Letters, Once(ms), x.id \notin Ids(ms)
    PROVE  /\ Append(ms, x) \in Seq(Letters)
           /\ Append(ms, x) # ms
           /\ Once(Append(ms, x))
           /\ Ids(Append(ms, x)) = Ids(ms) \cup {x.id}
           /\ \A i \in DOMAIN Append(ms, x) : Append(ms, x)[i] = x \/ \E j \in DOMAIN ms : Append(ms, x)[i] = ms[j]
<1>1. /\ Len(ms) \in Nat /\ DOMAIN ms = 1..Len(ms)
      /\ Append(ms, x) \in Seq(Letters)
      /\ DOMAIN Append(ms, x) = 1..(Len(ms) + 1)
      /\ Len(Append(ms, x)) = Len(ms) + 1
      /\ \A i \in 1..Len(ms) : Append(ms, x)[i] = ms[i]
      /\ Append(ms, x)[Len(ms) + 1] = x
  <2>1. Len(ms) \in Nat /\ DOMAIN ms = 1..Len(ms)
    BY LenProperties
  <2>2. /\ Append(ms, x) \in Seq(Letters) /\ Len(Append(ms, x)) = Len(ms) + 1
        /\ \A i \in 1..Len(ms) : Append(ms, x)[i] = ms[i]
        /\ Append(ms, x)[Len(ms) + 1] = x
    BY AppendProperties
  <2>3. DOMAIN Append(ms, x) = 1..Len(Append(ms, x))
    BY <2>2, LenProperties
  <2> QED BY <2>1, <2>2, <2>3
<1>2. Append(ms, x) # ms
  <2> DEFINE n == Len(ms)
             m == Len(Append(ms, x))
  <2>1. n \in Nat /\ m = n + 1
    BY <1>1
  <2> HIDE DEF n, m
  <2>2. m # n
    BY <2>1
  <2> QED BY <2>2, Zenon DEF n, m
<1>3. Once(Append(ms, x))
  BY <1>1 DEF Once, Ids
<1>4. Ids(Append(ms, x)) = Ids(ms) \cup {x.id}
  BY <1>1 DEF Ids
<1>5. \A i \in DOMAIN Append(ms, x) : Append(ms, x)[i] = x \/ \E j \in DOMAIN ms : Append(ms, x)[i] = ms[j]
  BY <1>1
<1> QED BY <1>1, <1>2, <1>3, <1>4, <1>5, Zenon

LEMMA MarkKeeps ==
    ASSUME NEW ms \in Seq(Letters)
    PROVE  /\ Marked(ms) \in Seq(Letters)
           /\ DOMAIN Marked(ms) = DOMAIN ms
           /\ \A i \in DOMAIN ms : Marked(ms)[i].id = ms[i].id /\ Marked(ms)[i].read
           /\ Ids(Marked(ms)) = Ids(ms)
<1>1. Len(ms) \in Nat /\ DOMAIN ms = 1..Len(ms) /\ \A i \in 1..Len(ms) : ms[i] \in Letters
  OBVIOUS
<1>3. Marked(ms) = [i \in 1..Len(ms) |-> [id |-> ms[i].id, read |-> TRUE]]
  BY <1>1 DEF Marked
<1>4. \A i \in 1..Len(ms) : [id |-> ms[i].id, read |-> TRUE] \in Letters
  BY <1>1 DEF Letters
<1>5. Marked(ms) \in Seq(Letters)
  BY <1>1, <1>3, <1>4
<1>6. \A i \in DOMAIN ms : Marked(ms)[i].id = ms[i].id /\ Marked(ms)[i].read
  BY <1>1, <1>3
<1>7. DOMAIN Marked(ms) = DOMAIN ms
  BY <1>1, <1>3
<1> QED BY <1>5, <1>6, <1>7 DEF Ids

(* ms is good after the step.                                              *)
KeepsNext(ms, T) ==
    /\ ms \in Seq(Letters)
    /\ Once(ms)
    /\ sent' \cup shown' \subseteq Ids(ms)
    /\ \A i \in DOMAIN ms : ms[i].id <= mail' /\ (ms[i].id \in shown' => ms[i].read)
    /\ \A c \in MailClients \ T : doing'[c].op = "send" => doing'[c].id \notin Ids(ms)

CarriesNext(ms, c) ==
    /\ doing'[c].op = "send" => doing'[c].id \in Ids(ms)
    /\ doing'[c].op # "send" => \A i \in DOMAIN ms : ms[i].read

LEMMA NextIsGood ==
    ASSUME MailShape', LockIsHeld', NumbersAreOwn',
           KeepsNext(inbox', Unlocking'),
           \A c \in MailClients :
             /\ mailStep'[c] \in {"write", "replace"} => KeepsNext(copy'[c], {c}) /\ CarriesNext(copy'[c], c)
             /\ mailStep'[c] = "replace" => tmpFile' = copy'[c]
             /\ mailStep'[c] = "unlock" => inbox' = copy'[c] /\ CarriesNext(inbox', c)
    PROVE  MailInv'
<1>1. Keeps(inbox, Unlocking)'
  BY DEF Keeps, KeepsNext, Once, Ids, Sending
<1>2. CopyIsGood'
  BY DEF CopyIsGood, Keeps, KeepsNext, Carries, CarriesNext, Once, Ids, Sending
<1> QED BY <1>1, <1>2 DEF MailInv

(* A step that changes nothing of what is known of letters.                *)
LEMMA KeepsOn ==
    ASSUME NEW ms, NEW S, NEW T, Keeps(ms, S),
           UNCHANGED <<sent, shown>>, mail' >= mail, mail \in Nat, mail' \in Nat,
           \A c \in MailClients \ T :
              doing'[c].op = "send" =>
                \/ doing'[c].id = mail + 1
                \/ c \notin S /\ Sending(c) /\ doing'[c].id = doing[c].id
    PROVE  KeepsNext(ms, T)
<1>1. \A i \in DOMAIN ms : ms[i].id \in Nat /\ ms[i].id <= mail
  <2>1. ms \in Seq(Letters)
    BY DEF Keeps
  <2>2. \A i \in DOMAIN ms : ms[i] \in Letters
    BY <2>1
  <2> QED BY <2>2 DEF Keeps, Letters
<1>2. \A i \in DOMAIN ms : ms[i].id <= mail' /\ ms[i].id # mail + 1
  BY <1>1
<1> QED BY <1>2 DEF Keeps, KeepsNext, Ids, Sending

(* What a step of c leaves alone, and how it goes on for c.                *)
OnlyClient(c) ==
    \A d \in MailClients \ {c} :
        doing'[d] = doing[d] /\ mailStep'[d] = mailStep[d] /\ copy'[d] = copy[d]

Starts(c) == SendMail(c) \/ MarkRead(c)

LEMMA OneClientMoves ==
    ASSUME MailShape, NEW c \in MailClients,
           SendMail(c) \/ MarkRead(c) \/ Lock(c) \/ Load(c) \/ WriteTmp(c) \/ Replace(c) \/ Unlock(c) \/ ClientDies(c)
    PROVE  /\ OnlyClient(c)
           /\ mailStep' = [d \in MailClients |-> mailStep'[d]]
           /\ doing' = [d \in MailClients |-> doing'[d]]
           /\ copy' = [d \in MailClients |-> copy'[d]]
<1> USE DEF MailShape, OnlyClient
<1>1. CASE SendMail(c)
  BY <1>1 DEF SendMail
<1>2. CASE MarkRead(c)
  BY <1>2 DEF MarkRead
<1>3. CASE Lock(c)
  BY <1>3 DEF Lock
<1>4. CASE Load(c)
  BY <1>4 DEF Load
<1>5. CASE WriteTmp(c)
  BY <1>5 DEF WriteTmp
<1>6. CASE Replace(c)
  BY <1>6 DEF Replace
<1>7. CASE Unlock(c)
  BY <1>7 DEF Unlock
<1>8. CASE ClientDies(c)
  BY <1>8 DEF ClientDies
<1> QED BY <1>1, <1>2, <1>3, <1>4, <1>5, <1>6, <1>7, <1>8

(* A client that begins: a new number for a letter, or a mark.             *)
LEMMA BeginsWell ==
    ASSUME MailInv, NEW c \in MailClients, Starts(c)
    PROVE  MailInv'
<1>1. /\ OnlyClient(c)
      /\ mailStep' = [d \in MailClients |-> mailStep'[d]]
      /\ doing' = [d \in MailClients |-> doing'[d]]
      /\ copy' = [d \in MailClients |-> copy'[d]]
  BY OneClientMoves DEF MailInv, Starts
<1>2. /\ mailStep[c] = "idle" /\ mailStep'[c] = "lock"
      /\ UNCHANGED <<inbox, tmpFile, holder, copy, sent, shown>>
      /\ mail \in Nat /\ mail' \in Nat /\ mail' >= mail
      /\ \/ doing'[c] = [op |-> "send", id |-> mail + 1] /\ mail' = mail + 1
         \/ doing'[c] = [op |-> "mark"] /\ mail' = mail
  BY DEF MailInv, MailShape, Starts, SendMail, MarkRead
<1>3. ~Sending(c)
  BY <1>2 DEF MailInv, MailShape
<1>4. \A d \in MailClients \ {c} : Sending(d)' = Sending(d)
  BY <1>1 DEF OnlyClient, Sending
<1>5. \A d \in MailClients : Sending(d) => doing[d].id \in 1..mail
  BY DEF MailInv, MailShape, Sending
<1>6. Sending(c)' => doing'[c].id = mail + 1 /\ mail' = mail + 1
  BY <1>2 DEF Sending
<1>7. MailShape'
  <2>1. doing'[c] \in [op : {"none", "mark"}] \cup [op : {"send"}, id : 1..mail']
    BY <1>2
  <2>2. \A d \in MailClients \ {c} : doing'[d] \in [op : {"none", "mark"}] \cup [op : {"send"}, id : 1..mail']
    <3>1. 1..mail \subseteq 1..mail'
      BY <1>2
    <3>2. \A d \in MailClients \ {c} : doing'[d] \in [op : {"none", "mark"}] \cup [op : {"send"}, id : 1..mail]
      BY <1>1 DEF OnlyClient, MailInv, MailShape
    <3> QED BY <3>1, <3>2
  <2>3. doing'[c].op \in {"send", "mark"}
    BY <1>2
  <2> QED BY <1>1, <1>2, <1>4, <2>1, <2>2, <2>3 DEF OnlyClient, MailInv, MailShape
<1>8. LockIsHeld'
  BY <1>1, <1>2 DEF OnlyClient, MailInv, LockIsHeld
<1>9. NumbersAreOwn'
  <2>1. \A d \in MailClients : Sending(d) => doing[d].id # mail + 1
    BY <1>2, <1>5
  <2>2. \A d \in MailClients \ {c} : doing'[d].id = doing[d].id
    BY <1>1 DEF OnlyClient
  <2> QED BY <1>4, <1>6, <2>1, <2>2 DEF NumbersAreOwn, MailInv
<1>10. ASSUME NEW ms, NEW S, Keeps(ms, S)
       PROVE  KeepsNext(ms, S)
  <2>1. \A d \in MailClients \ S :
          doing'[d].op = "send" =>
            \/ doing'[d].id = mail + 1
            \/ d \notin S /\ Sending(d) /\ doing'[d].id = doing[d].id
    BY <1>1, <1>4, <1>6 DEF OnlyClient, Sending
  <2> QED BY <1>2, <1>10, <2>1, KeepsOn
<1>11. Unlocking' = Unlocking
  BY <1>1, <1>2 DEF OnlyClient, Unlocking
<1>12. KeepsNext(inbox', Unlocking')
  BY <1>2, <1>10, <1>11 DEF MailInv
<1>13. \A d \in MailClients \ {c} : mailStep'[d] = mailStep[d] /\ copy'[d] = copy[d] /\ doing'[d] = doing[d]
  BY <1>1 DEF OnlyClient
<1>14. \A ms : \A d \in MailClients \ {c} : Carries(ms, d) => CarriesNext(ms, d)
  BY <1>13 DEF Carries, CarriesNext, Sending
<1> QED BY <1>2, <1>7, <1>8, <1>9, <1>10, <1>12, <1>13, <1>14, NextIsGood, ZenonT(30) DEF MailInv, CopyIsGood

(* A step that starts no letter: who had none, has none.                   *)
LEMMA NumbersStay ==
    ASSUME MailInv, NEW c \in MailClients, OnlyClient(c), mail' = mail,
           doing' = [d \in MailClients |-> doing'[d]],
           mailStep' = [d \in MailClients |-> mailStep'[d]],
           copy' = [d \in MailClients |-> copy'[d]],
           \/ /\ doing'[c] = doing[c]
              /\ mailStep[c] \in {"lock", "load", "write", "replace", "unlock"}
              /\ mailStep'[c] \in {"lock", "load", "write", "replace", "unlock"}
           \/ doing'[c] = [op |-> "none"] /\ mailStep'[c] \in {"idle", "dead"}
    PROVE  /\ MailShape'
           /\ NumbersAreOwn'
           /\ \A d \in MailClients : doing'[d].op = "send" => Sending(d) /\ doing'[d].id = doing[d].id
           /\ \A ms, d : d \in MailClients \ {c} /\ Carries(ms, d) => CarriesNext(ms, d)
<1>1. \A d \in MailClients \ {c} : doing'[d] = doing[d] /\ mailStep'[d] = mailStep[d] /\ copy'[d] = copy[d]
  BY DEF OnlyClient
<1>2. \A d \in MailClients : doing'[d].op = "send" => Sending(d) /\ doing'[d].id = doing[d].id
  BY <1>1 DEF Sending
<1>3. NumbersAreOwn'
  BY <1>2 DEF MailInv, NumbersAreOwn, Sending
<1>4. \A ms, d : d \in MailClients \ {c} /\ Carries(ms, d) => CarriesNext(ms, d)
  BY <1>1 DEF Carries, CarriesNext, Sending
<1>5. doing'[c] \in [op : {"none", "mark"}] \cup [op : {"send"}, id : 1..mail']
  BY DEF MailInv, MailShape
<1>6. MailShape'
  BY <1>1, <1>5 DEF MailInv, MailShape, Sending
<1> QED BY <1>2, <1>3, <1>4, <1>6

LEMMA LockKeeps ==
    ASSUME MailInv, NEW c \in MailClients, Lock(c)
    PROVE  MailInv'
<1>1. /\ OnlyClient(c)
      /\ mailStep' = [d \in MailClients |-> mailStep'[d]]
      /\ doing' = [d \in MailClients |-> doing'[d]]
      /\ copy' = [d \in MailClients |-> copy'[d]]
  BY OneClientMoves DEF MailInv
<1>2. /\ mailStep[c] = "lock" /\ mailStep'[c] = "load" /\ holder = Nobody /\ holder' = c
      /\ UNCHANGED <<inbox, tmpFile, doing, copy, sent, shown, mail>>
  BY DEF MailInv, MailShape, Lock
<1>3. /\ MailShape'
      /\ NumbersAreOwn'
      /\ \A d \in MailClients : doing'[d].op = "send" => Sending(d) /\ doing'[d].id = doing[d].id
      /\ \A ms, d : d \in MailClients \ {c} /\ Carries(ms, d) => CarriesNext(ms, d)
  BY <1>1, <1>2, NumbersStay
<1>4. \A d \in MailClients : mailStep[d] \notin {"load", "write", "replace", "unlock"}
  BY <1>2, MailAssumption DEF MailInv, LockIsHeld
<1>5. LockIsHeld'
  BY <1>1, <1>2, <1>4 DEF OnlyClient, LockIsHeld
<1>6. Unlocking = {} /\ Unlocking' = {}
  BY <1>1, <1>2, <1>4 DEF OnlyClient, Unlocking
<1>7. Keeps(inbox, {}) /\ mail \in Nat /\ mail' = mail /\ mail' >= mail
  BY <1>2, <1>6 DEF MailInv, MailShape
<1>8. KeepsNext(inbox, {})
  BY <1>2, <1>3, <1>7, KeepsOn
<1> QED BY <1>1, <1>2, <1>3, <1>4, <1>5, <1>6, <1>8, NextIsGood DEF OnlyClient

LEMMA LoadKeeps ==
    ASSUME MailInv, NEW c \in MailClients, Load(c)
    PROVE  MailInv'
<1> DEFINE x == [id |-> doing[c].id, read |-> FALSE]
           new == IF Sending(c) THEN Append(inbox, x) ELSE Marked(inbox)
<1>1. /\ OnlyClient(c)
      /\ mailStep' = [d \in MailClients |-> mailStep'[d]]
      /\ doing' = [d \in MailClients |-> doing'[d]]
      /\ copy' = [d \in MailClients |-> copy'[d]]
  BY OneClientMoves DEF MailInv
<1>2. /\ mailStep[c] = "load" /\ copy'[c] = new
      /\ mailStep'[c] = IF new = inbox THEN "unlock" ELSE "write"
      /\ UNCHANGED <<inbox, tmpFile, holder, doing, sent, shown, mail>>
  BY DEF MailInv, MailShape, Load, Sending
<1> HIDE DEF new, x
<1>3. /\ MailShape'
      /\ NumbersAreOwn'
      /\ \A d \in MailClients : doing'[d].op = "send" => Sending(d) /\ doing'[d].id = doing[d].id
      /\ \A ms, d : d \in MailClients \ {c} /\ Carries(ms, d) => CarriesNext(ms, d)
  BY <1>1, <1>2, NumbersStay
<1>4. \A d \in MailClients \ {c} : mailStep[d] \notin {"load", "write", "replace", "unlock"}
  BY <1>2 DEF MailInv, LockIsHeld
<1>5. LockIsHeld'
  BY <1>1, <1>2, <1>4 DEF OnlyClient, MailInv, LockIsHeld
<1>6. Unlocking = {} /\ Unlocking' \subseteq {c}
  BY <1>1, <1>2, <1>4 DEF OnlyClient, Unlocking
<1>7. Keeps(inbox, {}) /\ mail \in Nat /\ mail' = mail /\ mail' >= mail
  BY <1>2, <1>6 DEF MailInv, MailShape
<1>8. /\ inbox \in Seq(Letters) /\ Once(inbox)
      /\ \A i \in DOMAIN inbox : inbox[i].id <= mail
  BY <1>7 DEF Keeps
<1>9. Sending(c) => x \in Letters /\ x.id = doing[c].id /\ x.id \in 1..mail /\ x.id \notin Ids(inbox)
  <2>1. Sending(c) => doing[c].id \in 1..mail
    BY DEF MailInv, MailShape, Sending
  <2>2. \A n \in 1..mail : n \in Nat
    BY <1>7
  <2> QED BY <1>7, <2>1, <2>2 DEF Keeps, Letters, x
<1>10. KeepsNext(inbox, {})
  BY <1>2, <1>3, <1>7, KeepsOn
<1>11. KeepsNext(new, {c}) /\ CarriesNext(new, c)
  <2>1. CASE Sending(c)
    <3>1. new = Append(inbox, x)
      BY <2>1 DEF new
    <3>2. /\ new \in Seq(Letters)
          /\ Once(new)
          /\ Ids(new) = Ids(inbox) \cup {x.id}
          /\ \A i \in DOMAIN new : new[i] = x \/ \E j \in DOMAIN inbox : new[i] = inbox[j]
      BY <1>8, <1>9, <2>1, <3>1, AppendKeeps
    <3>3. x.id \notin shown /\ x.id <= mail
      BY <1>7, <1>9, <2>1 DEF Keeps
    <3>4. \A i \in DOMAIN new : new[i].id <= mail /\ (new[i].id \in shown => new[i].read)
      BY <1>7, <3>2, <3>3 DEF Keeps
    <3>5. \A d \in MailClients \ {c} : doing'[d].op = "send" => doing'[d].id \notin Ids(new)
      BY <1>3, <1>7, <1>9, <2>1, <3>2 DEF Keeps, MailInv, NumbersAreOwn
    <3>6. sent \cup shown \subseteq Ids(new)
      BY <1>7, <3>2 DEF Keeps
    <3>7. CarriesNext(new, c)
      BY <1>2, <1>9, <2>1, <3>2 DEF CarriesNext, Sending
    <3> QED BY <1>2, <3>2, <3>4, <3>5, <3>6, <3>7 DEF KeepsNext
  <2>2. CASE ~Sending(c)
    <3>1. new = Marked(inbox)
      BY <2>2 DEF new
    <3>2. /\ new \in Seq(Letters)
          /\ DOMAIN new = DOMAIN inbox
          /\ \A i \in DOMAIN inbox : new[i].id = inbox[i].id /\ new[i].read
          /\ Ids(new) = Ids(inbox)
      BY <1>8, <3>1, MarkKeeps
    <3>3. Once(new)
      BY <1>8, <3>2 DEF Once
    <3>4. KeepsNext(new, {c})
      BY <1>10, <3>2, <3>3 DEF KeepsNext
    <3>5. CarriesNext(new, c)
      BY <1>2, <2>2, <3>2 DEF CarriesNext, Sending
    <3> QED BY <3>4, <3>5
  <2> QED BY <2>1, <2>2
<1>12. new = inbox => ~Sending(c)
  BY <1>8, <1>9, AppendKeeps DEF new
<1>13. mailStep'[c] = "unlock" => Unlocking' = {c} /\ inbox' = copy'[c] /\ CarriesNext(inbox', c)
  <2>1. mailStep'[c] = "unlock" => c \in Unlocking'
    BY DEF Unlocking
  <2>2. mailStep'[c] = "unlock" => new = inbox
    BY <1>2
  <2> QED BY <1>2, <1>6, <1>11, <2>1, <2>2
<1>14. KeepsNext(inbox', Unlocking')
  <2>1. Unlocking' = {} \/ Unlocking' = {c}
    BY <1>6
  <2>2. KeepsNext(inbox, {c})
    BY <1>10 DEF KeepsNext
  <2> QED BY <1>2, <1>10, <2>1, <2>2
<1>15. mailStep'[c] \in {"write", "unlock"}
  BY <1>2
<1>16. \A d \in MailClients :
         /\ mailStep'[d] \in {"write", "replace"} => KeepsNext(copy'[d], {d}) /\ CarriesNext(copy'[d], d)
         /\ mailStep'[d] = "replace" => tmpFile' = copy'[d]
         /\ mailStep'[d] = "unlock" => inbox' = copy'[d] /\ CarriesNext(inbox', d)
  <2>1. \A d \in MailClients \ {c} : mailStep'[d] \notin {"write", "replace", "unlock"}
    BY <1>1, <1>4 DEF OnlyClient
  <2>2. mailStep'[c] # "replace"
    BY <1>15
  <2>3. KeepsNext(copy'[c], {c}) /\ CarriesNext(copy'[c], c)
    BY <1>2, <1>11
  <2> QED BY <1>13, <2>1, <2>2, <2>3
<1> QED BY <1>3, <1>5, <1>14, <1>16, NextIsGood

LEMMA WriteKeeps ==
    ASSUME MailInv, NEW c \in MailClients, WriteTmp(c)
    PROVE  MailInv'
<1>1. /\ OnlyClient(c)
      /\ mailStep' = [d \in MailClients |-> mailStep'[d]]
      /\ doing' = [d \in MailClients |-> doing'[d]]
      /\ copy' = [d \in MailClients |-> copy'[d]]
  BY OneClientMoves DEF MailInv
<1>2. /\ mailStep[c] = "write" /\ mailStep'[c] = "replace" /\ tmpFile' = copy[c]
      /\ UNCHANGED <<inbox, holder, copy, doing, sent, shown, mail>>
  BY DEF MailInv, MailShape, WriteTmp
<1>3. /\ MailShape'
      /\ NumbersAreOwn'
      /\ \A d \in MailClients : doing'[d].op = "send" => Sending(d) /\ doing'[d].id = doing[d].id
      /\ \A ms, d : d \in MailClients \ {c} /\ Carries(ms, d) => CarriesNext(ms, d)
  BY <1>1, <1>2, NumbersStay
<1>4. \A d \in MailClients \ {c} : mailStep[d] \notin {"load", "write", "replace", "unlock"}
  BY <1>2 DEF MailInv, LockIsHeld
<1>5. LockIsHeld'
  BY <1>1, <1>2, <1>4 DEF OnlyClient, MailInv, LockIsHeld
<1>6. Unlocking = {} /\ Unlocking' = {}
  BY <1>1, <1>2, <1>4 DEF OnlyClient, Unlocking
<1>7. mail \in Nat /\ mail' = mail /\ mail' >= mail
  BY <1>2 DEF MailInv, MailShape
<1>8. Keeps(inbox, {}) /\ Keeps(copy[c], {c}) /\ Carries(copy[c], c)
  BY <1>2, <1>6 DEF MailInv, CopyIsGood
<1>9. KeepsNext(inbox, {}) /\ KeepsNext(copy[c], {c})
  BY <1>2, <1>3, <1>7, <1>8, KeepsOn
<1>10. CarriesNext(copy[c], c)
  BY <1>2, <1>8 DEF Carries, CarriesNext, Sending
<1> QED BY <1>1, <1>2, <1>3, <1>4, <1>5, <1>6, <1>9, <1>10, NextIsGood DEF OnlyClient

LEMMA ReplaceKeeps ==
    ASSUME MailInv, NEW c \in MailClients, Replace(c)
    PROVE  MailInv'
<1>1. /\ OnlyClient(c)
      /\ mailStep' = [d \in MailClients |-> mailStep'[d]]
      /\ doing' = [d \in MailClients |-> doing'[d]]
      /\ copy' = [d \in MailClients |-> copy'[d]]
  BY OneClientMoves DEF MailInv
<1>2. /\ mailStep[c] = "replace" /\ mailStep'[c] = "unlock" /\ inbox' = tmpFile
      /\ UNCHANGED <<holder, copy, doing, sent, shown, mail>>
  BY DEF MailInv, MailShape, Replace
<1>3. /\ MailShape'
      /\ NumbersAreOwn'
      /\ \A d \in MailClients : doing'[d].op = "send" => Sending(d) /\ doing'[d].id = doing[d].id
      /\ \A ms, d : d \in MailClients \ {c} /\ Carries(ms, d) => CarriesNext(ms, d)
  BY <1>1, <1>2, NumbersStay
<1>4. \A d \in MailClients \ {c} : mailStep[d] \notin {"load", "write", "replace", "unlock"}
  BY <1>2 DEF MailInv, LockIsHeld
<1>5. LockIsHeld'
  BY <1>1, <1>2, <1>4 DEF OnlyClient, MailInv, LockIsHeld
<1>6. Unlocking' = {c}
  BY <1>1, <1>2, <1>4 DEF OnlyClient, Unlocking
<1>7. mail \in Nat /\ mail' = mail /\ mail' >= mail
  BY <1>2 DEF MailInv, MailShape
<1>8. Keeps(copy[c], {c}) /\ Carries(copy[c], c) /\ tmpFile = copy[c]
  BY <1>2 DEF MailInv, CopyIsGood
<1>9. KeepsNext(copy[c], {c})
  BY <1>2, <1>3, <1>7, <1>8, KeepsOn
<1>10. CarriesNext(copy[c], c)
  BY <1>2, <1>8 DEF Carries, CarriesNext, Sending
<1> QED BY <1>1, <1>2, <1>3, <1>4, <1>5, <1>6, <1>8, <1>9, <1>10, NextIsGood DEF OnlyClient

LEMMA UnlockKeeps ==
    ASSUME MailInv, NEW c \in MailClients, Unlock(c)
    PROVE  MailInv'
<1>1. /\ OnlyClient(c)
      /\ mailStep' = [d \in MailClients |-> mailStep'[d]]
      /\ doing' = [d \in MailClients |-> doing'[d]]
      /\ copy' = [d \in MailClients |-> copy'[d]]
  BY OneClientMoves DEF MailInv
<1>2. /\ mailStep[c] = "unlock" /\ mailStep'[c] = "idle" /\ doing'[c] = [op |-> "none"]
      /\ UNCHANGED <<inbox, tmpFile, mail>>
      /\ Sending(c) => sent' = sent \cup {doing[c].id} /\ shown' = shown
      /\ ~Sending(c) => shown' = shown \cup Ids(copy[c]) /\ sent' = sent
  BY DEF MailInv, MailShape, Unlock, Sending, Ids
<1>3. /\ MailShape'
      /\ NumbersAreOwn'
      /\ \A d \in MailClients : doing'[d].op = "send" => Sending(d) /\ doing'[d].id = doing[d].id
      /\ \A ms, d : d \in MailClients \ {c} /\ Carries(ms, d) => CarriesNext(ms, d)
  BY <1>1, <1>2, NumbersStay
<1>4. \A d \in MailClients \ {c} : mailStep[d] \notin {"load", "write", "replace", "unlock"}
  BY <1>2 DEF MailInv, LockIsHeld
<1>5. \A d \in MailClients : mailStep'[d] \notin {"load", "write", "replace", "unlock"}
  BY <1>1, <1>2, <1>4 DEF OnlyClient
<1>6. LockIsHeld' /\ Unlocking' = {} /\ Unlocking = {c}
  BY <1>2, <1>4, <1>5 DEF LockIsHeld, Unlocking
<1>7. Keeps(inbox, {c}) /\ inbox = copy[c] /\ Carries(inbox, c)
  BY <1>2, <1>6 DEF MailInv, CopyIsGood
<1>8. KeepsNext(inbox, {})
  <2>1. doing'[c].op # "send"
    BY <1>2
  <2>2. \A d \in MailClients : doing'[d].op = "send" => doing'[d].id \notin Ids(inbox)
    BY <1>3, <1>7, <2>1 DEF Keeps
  <2>3. sent' \cup shown' \subseteq Ids(inbox)
    BY <1>2, <1>7 DEF Keeps, Carries
  <2>4. \A i \in DOMAIN inbox : inbox[i].id \in shown' => inbox[i].read
    BY <1>2, <1>7 DEF Keeps, Carries
  <2> QED BY <1>2, <1>7, <2>2, <2>3, <2>4 DEF Keeps, KeepsNext
<1> QED BY <1>2, <1>3, <1>5, <1>6, <1>8, NextIsGood

LEMMA DeathKeeps ==
    ASSUME MailInv, NEW c \in MailClients, ClientDies(c)
    PROVE  MailInv'
<1>1. /\ OnlyClient(c)
      /\ mailStep' = [d \in MailClients |-> mailStep'[d]]
      /\ doing' = [d \in MailClients |-> doing'[d]]
      /\ copy' = [d \in MailClients |-> copy'[d]]
  BY OneClientMoves DEF MailInv
<1>2. /\ mailStep'[c] = "dead" /\ doing'[c] = [op |-> "none"]
      /\ UNCHANGED <<inbox, sent, shown, mail>>
      /\ holder' = IF holder = c THEN Nobody ELSE holder
      /\ tmpFile' = tmpFile \/ mailStep[c] = "write"
  BY DEF MailInv, MailShape, ClientDies
<1>3. /\ MailShape'
      /\ NumbersAreOwn'
      /\ \A d \in MailClients : doing'[d].op = "send" => Sending(d) /\ doing'[d].id = doing[d].id
      /\ \A ms, d : d \in MailClients \ {c} /\ Carries(ms, d) => CarriesNext(ms, d)
  BY <1>1, <1>2, NumbersStay
<1>4. LockIsHeld'
  BY <1>1, <1>2 DEF OnlyClient, MailInv, LockIsHeld
<1>5. Unlocking' = Unlocking \ {c}
  BY <1>1, <1>2 DEF OnlyClient, Unlocking
<1>6. mail \in Nat /\ mail' = mail /\ mail' >= mail
  BY <1>2 DEF MailInv, MailShape
<1>7. KeepsNext(inbox, Unlocking \ {c})
  <2>1. \A d \in MailClients \ (Unlocking \ {c}) :
          doing'[d].op = "send" => d \notin Unlocking /\ Sending(d) /\ doing'[d].id = doing[d].id
    BY <1>2, <1>3
  <2> QED BY <1>2, <1>6, <2>1, KeepsOn DEF MailInv
<1>8. \A d \in MailClients \ {c} : mailStep[d] \in {"write", "replace"} => KeepsNext(copy[d], {d})
  <2>1. ASSUME NEW d \in MailClients \ {c}, mailStep[d] \in {"write", "replace"}
        PROVE  KeepsNext(copy[d], {d})
    <3>1. Keeps(copy[d], {d})
      BY <2>1 DEF MailInv, CopyIsGood
    <3> QED BY <1>2, <1>3, <1>6, <3>1, KeepsOn
  <2> QED BY <2>1
<1>9. \A d \in MailClients \ {c} : mailStep[d] = "replace" => tmpFile' = copy[d]
  BY <1>2 DEF MailInv, LockIsHeld, CopyIsGood
<1> QED BY <1>1, <1>2, <1>3, <1>4, <1>5, <1>7, <1>8, <1>9, NextIsGood, ZenonT(30) DEF OnlyClient, MailInv, CopyIsGood

LEMMA MailInvHolds == MailSpec => []MailInv
<1>1. MailInit => MailInv
  BY DEF MailInit, MailInv, MailShape, LockIsHeld, NumbersAreOwn, Keeps, CopyIsGood, Once, Ids, Sending, Carries
<1>2. MailInv /\ [MailNext]_mailVars => MailInv'
  <2> SUFFICES ASSUME MailInv, [MailNext]_mailVars PROVE MailInv'
    OBVIOUS
  <2>1. CASE UNCHANGED mailVars
    BY <2>1 DEF mailVars, MailInv, MailShape, LockIsHeld, NumbersAreOwn, Keeps, CopyIsGood, Once, Ids, Sending,
                Carries, Unlocking
  <2>2. CASE MailNext
    <3> PICK c \in MailClients : SendMail(c) \/ MarkRead(c) \/ Lock(c) \/ Load(c) \/ WriteTmp(c) \/ Replace(c)
                                 \/ Unlock(c) \/ ClientDies(c)
      BY <2>2 DEF MailNext
    <3> QED BY BeginsWell, LockKeeps, LoadKeeps, WriteKeeps, ReplaceKeeps, UnlockKeeps, DeathKeeps DEF Starts
  <2> QED BY <2>1, <2>2
<1> QED BY <1>1, <1>2, PTL DEF MailSpec

(* Wherever the processes of a team die, what send reported as sent is in  *)
(* the inbox once, and what mark_all_read showed stays read: append under  *)
(* the file lock works on the file itself, and replaces it whole.          *)
THEOREM SentMailIsKept == MailSpec => []MailIsKept
<1>1. MailInv => MailIsKept
  <2> SUFFICES ASSUME MailInv PROVE MailIsKept
    OBVIOUS
  <2>1. sent \subseteq Ids(inbox) /\ Once(inbox)
        /\ \A i \in DOMAIN inbox : inbox[i].id \in shown => inbox[i].read
    BY DEF MailInv, Keeps
  <2>2. ASSUME NEW id \in sent
        PROVE  Cardinality({i \in DOMAIN inbox : inbox[i].id = id}) = 1
    <3>1. PICK i \in DOMAIN inbox : inbox[i].id = id
      BY <2>1 DEF Ids
    <3>2. {j \in DOMAIN inbox : inbox[j].id = id} = {i}
      BY <2>1, <3>1 DEF Once
    <3> QED BY <3>2, FS_Singleton
  <2> QED BY <2>1, <2>2 DEF MailIsKept
<1> QED BY <1>1, MailInvHolds, PTL

(* The inbox once the operation of c has been done to it.                   *)
Applied(c) == IF Sending(c) THEN Append(inbox, [id |-> doing[c].id, read |-> FALSE]) ELSE Marked(inbox)

(* Nobody else replaces the inbox while c works on its copy.                *)
CopyIsApplied ==
    \A c \in MailClients : mailStep[c] \in {"write", "replace"} => copy[c] = Applied(c)

(* The inbox as an object with two operations: a letter that some client is *)
(* sending is appended, or all letters are marked.                          *)
InboxStep ==
    \/ \E c \in MailClients : Sending(c) /\ inbox' = Append(inbox, [id |-> doing[c].id, read |-> FALSE])
    \/ inbox' = Marked(inbox)

LEMMA CopyStaysApplied ==
    ASSUME MailInv, CopyIsApplied, NEW c \in MailClients,
           SendMail(c) \/ MarkRead(c) \/ Lock(c) \/ Load(c) \/ WriteTmp(c) \/ Replace(c) \/ Unlock(c) \/ ClientDies(c)
    PROVE  CopyIsApplied'
<1>1. OnlyClient(c) /\ MailShape
  BY OneClientMoves DEF MailInv
<1>2. ASSUME UNCHANGED inbox, NEW d \in MailClients, UNCHANGED <<copy[d], doing[d]>>,
             mailStep'[d] \in {"write", "replace"} => mailStep[d] \in {"write", "replace"}
      PROVE  mailStep'[d] \in {"write", "replace"} => copy'[d] = Applied(d)'
  BY <1>2 DEF CopyIsApplied, Applied, Sending, Marked
<1>3. CASE Replace(c)
  <2>1. \A d \in MailClients \ {c} : mailStep[d] \notin {"write", "replace"}
    BY <1>3 DEF MailInv, LockIsHeld, Replace
  <2>2. mailStep'[c] = "unlock"
    BY <1>1, <1>3 DEF Replace, MailShape
  <2>3. \A d \in MailClients : mailStep'[d] \notin {"write", "replace"}
    BY <1>1, <2>1, <2>2 DEF OnlyClient
  <2> QED BY <2>3 DEF CopyIsApplied
<1>4. CASE ~Replace(c)
  <2>1. UNCHANGED inbox
    BY <1>4 DEF SendMail, MarkRead, Lock, Load, WriteTmp, Unlock, ClientDies
  <2>2. ASSUME NEW d \in MailClients \ {c}
        PROVE  mailStep'[d] \in {"write", "replace"} => copy'[d] = Applied(d)'
    <3>1. UNCHANGED <<copy[d], doing[d]>> /\ mailStep'[d] = mailStep[d]
      BY <1>1 DEF OnlyClient
    <3> QED BY <1>2, <2>1, <3>1
  <2>3. mailStep'[c] \in {"write", "replace"} => copy'[c] = Applied(c)'
    <3>1. CASE Load(c)
      <4>1. copy'[c] = Applied(c) /\ UNCHANGED <<inbox, doing>>
        BY <1>1, <3>1 DEF Load, Applied, Sending, MailShape
      <4> QED BY <4>1 DEF Applied, Sending, Marked
    <3>2. CASE WriteTmp(c)
      <4>1. UNCHANGED <<copy[c], doing[c]>> /\ mailStep[c] = "write"
        BY <3>2 DEF WriteTmp
      <4> QED BY <1>2, <2>1, <4>1
    <3>3. CASE SendMail(c) \/ MarkRead(c) \/ Lock(c) \/ Unlock(c) \/ ClientDies(c)
      <4>1. mailStep'[c] \in {"lock", "load", "idle", "dead"}
        BY <1>1, <3>3 DEF SendMail, MarkRead, Lock, Unlock, ClientDies, MailShape
      <4> QED BY <4>1
    <3> QED BY <1>4, <3>1, <3>2, <3>3
  <2> QED BY <2>2, <2>3 DEF CopyIsApplied
<1> QED BY <1>3, <1>4

(* The inbox is atomic: though a client reads, edits, writes aside and       *)
(* replaces the file in steps between which others run and anybody dies,    *)
(* each new content is the one that was there with one letter appended or   *)
(* with all of it marked; no operation is lost, torn or applied to a state  *)
(* that is out of date (mailbox.py, append_for_recipient, mark_all_read).   *)
THEOREM InboxIsAtomic == MailSpec => [][InboxStep]_inbox
<1>1. MailInit => CopyIsApplied
  BY DEF MailInit, CopyIsApplied
<1>2. MailInv /\ CopyIsApplied /\ [MailNext]_mailVars => CopyIsApplied'
  <2>1. CASE UNCHANGED mailVars
    BY <2>1 DEF mailVars, CopyIsApplied, Applied, Sending, Marked
  <2>2. CASE MailNext
    BY <2>2, CopyStaysApplied DEF MailNext
  <2> QED BY <2>1, <2>2
<1>3. MailInv /\ CopyIsApplied /\ [MailNext]_mailVars => [InboxStep]_inbox
  <2> SUFFICES ASSUME MailInv, CopyIsApplied, MailNext, inbox' # inbox
               PROVE  InboxStep
    BY DEF mailVars
  <2>1. PICK c \in MailClients : Replace(c)
    BY DEF MailNext, SendMail, MarkRead, Lock, Load, WriteTmp, Unlock, ClientDies
  <2>2. inbox' = tmpFile /\ tmpFile = copy[c] /\ copy[c] = Applied(c)
    BY <2>1 DEF Replace, MailInv, CopyIsGood, CopyIsApplied
  <2> QED BY <2>2 DEF InboxStep, Applied
<1> QED BY <1>1, <1>2, <1>3, MailInvHolds, PTL DEF MailSpec

=============================================================================
