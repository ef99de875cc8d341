------------------------------ MODULE GraphView ------------------------------
(***************************************************************************)
(* The Desktop's copy of the graph of one namespace: a full load through   *)
(* `memory pag-slice' (loadPagGraphMerged.ts, memory_cli.py) and, on top   *)
(* of it, the deltas of the chat's trace (pagGraphSessionStore.ts,         *)
(* pagGraphTraceDeltas.ts, DesktopSessionContext.tsx).                     *)
(*                                                                         *)
(* The store (sqlite_pag.py) counts an upsert in the transaction that      *)
(* makes it.  The chat's AgentMemory publishes a delta after the commit;   *)
(* all other writers, among them the indexer and the AgentMemory of other  *)
(* chats, publish nothing here.  Deletions are not counted.                *)
(*                                                                         *)
(* One session on the screen, one namespace.  The highlight of the last    *)
(* row, which adds bare nodes, is left out.                                *)
(***************************************************************************)
EXTENDS Naturals, Sequences, FiniteSets, FiniteSetsExt

CONSTANTS
    Nodes, Edges,
    Own,         \* the items the chat's AgentMemory writes
    Others,      \* the items somebody else writes or deletes
    Priors,      \* the logs a store may have when the session is opened
    PageSize,    \* 10 000 nodes, 20 000 edges
    MaxAtOnce,    \* bound: loads in flight, the retries but one
    MaxWrites,   \* bound: upserts since the session was opened
    MaxDeletes,  \* bound: deletions
    MaxLoads     \* bound: presses of Refresh and openings of the session

Items == Nodes \cup Edges

ASSUME GraphAssumption ==
    /\ Nodes \cap Edges = {}
    /\ Own \cup Others \subseteq Items
    /\ Priors \subseteq Seq(Items)
    /\ {PageSize, MaxAtOnce} \subseteq Nat \ {0}
    /\ {MaxWrites, MaxDeletes, MaxLoads} \subseteq Nat

VARIABLES
    db,        \* the sqlite file exists
    log,       \* log[r] is the item whose upsert made the revision r
    gone,      \* items deleted since they were last written
    alive,     \* the chat's AgentMemory runs
    pending,   \* the revision it has committed and not published, or 0
    trace,     \* the rows of the chat: the revision of a delta, or 0
    feed,      \* rawTraceRows: places in the trace
    snapshot,  \* the snapshot of the session
    awaiting,  \* awaitingPagSqlite
    load,      \* the loads under way: 1 is the effect's, the others retry
    graphBudget \* what is left of the bounded events

storeVars == <<db, log, gone>>
memoryVars == <<alive, pending>>
feedVars == <<trace, feed>>
graphVars == <<storeVars, memoryVars, feedVars, snapshot, awaiting, load, graphBudget>>

LoadIds == 1..MaxAtOnce
Retries == LoadIds \ {1}

(* doubt: revisions a load may have missed, for they were written while it  *)
(* was under way; at: the revision the slice gave.                          *)
EmptyView(st) ==
    [st |-> st, items |-> {}, known |-> 0, last |-> 0, warned |-> FALSE, at |-> 0, doubt |-> {}]

NoLoad == [pc |-> "idle", off |-> 0, got |-> {}, rev |-> 0, doubt |-> {}]

GraphTypeOK ==
    /\ db \in BOOLEAN
    /\ log \in Seq(Items)
    /\ gone \subseteq Items
    /\ alive \in BOOLEAN
    /\ pending \in 0..Len(log)
    /\ trace \in Seq(0..Len(log))
    /\ feed \in Seq(1..Len(trace))
    /\ snapshot \in [st : {"loading", "ready", "error"}, items : SUBSET Items, known : 0..Len(log),
                 last : 0..Len(feed), warned : BOOLEAN, at : 0..Len(log), doubt : SUBSET (1..Len(log))]
    /\ awaiting \in BOOLEAN
    /\ load \in [LoadIds -> [pc : {"idle", "nodes", "edges", "rev", "loaded", "missing"},
                           off : Nat, got : SUBSET Items, rev : 0..Len(log),
                           doubt : SUBSET (1..Len(log))]]
    /\ graphBudget \in [write : 0..MaxWrites, delete : 0..MaxDeletes, load : 0..MaxLoads]

(* The session has just been opened: its first load is under way.  Rows     *)
(* that are no deltas matter when they come before the first one.           *)
GraphInit ==
    /\ log \in Priors
    /\ db \in BOOLEAN
    /\ log # <<>> => db
    /\ gone = {}
    /\ alive = TRUE
    /\ pending = 0
    /\ trace \in {<<>>, <<0>>}
    /\ feed = <<>>
    /\ snapshot = EmptyView("loading")
    /\ awaiting = FALSE
    /\ load = [[f \in LoadIds |-> NoLoad] EXCEPT ![1].pc = "nodes"]
    /\ graphBudget = [write |-> MaxWrites, delete |-> MaxDeletes, load |-> MaxLoads]

-----------------------------------------------------------------------------
(* The store and its writers.                                               *)

Rev == Len(log)

Stored == {log[r] : r \in 1..Rev} \ gone

Stamp(item) == Max({r \in 1..Rev : log[r] = item})

Doubtful(revs) ==
    load' = [f \in LoadIds |-> IF load[f].pc = "idle" THEN load[f]
                             ELSE [load[f] EXCEPT !.doubt = @ \cup revs]]

(* upsert_node, upsert_edge *)
Upsert(item) ==
    /\ graphBudget.write > 0
    /\ graphBudget' = [graphBudget EXCEPT !.write = @ - 1]
    /\ db' = TRUE
    /\ log' = Append(log, item)
    /\ gone' = gone \ {item}
    /\ Doubtful({Rev + 1})

(* The chat's AgentMemory commits; its callback has yet to run.             *)
TracedUpsert(item) ==
    /\ alive
    /\ pending = 0
    /\ Upsert(item)
    /\ pending' = Rev + 1
    /\ UNCHANGED <<alive, feedVars, snapshot, awaiting>>

(* The row is appended to the trace and arrives, or nobody is subscribed.   *)
Publish ==
    /\ pending # 0
    /\ trace' = Append(trace, pending)
    /\ feed' \in {feed, Append(feed, Len(trace'))}
    /\ pending' = 0
    /\ UNCHANGED <<storeVars, alive, snapshot, awaiting, load, graphBudget>>

MemoryDies ==
    /\ alive
    /\ alive' = FALSE
    /\ pending' = 0
    /\ UNCHANGED <<storeVars, feedVars, snapshot, awaiting, load, graphBudget>>

UntracedUpsert(item) ==
    /\ Upsert(item)
    /\ UNCHANGED <<memoryVars, feedVars, snapshot, awaiting>>

(* Whatever is deleted, pages that are still to be read move up.            *)
Delete(item) ==
    /\ item \in Stored
    /\ graphBudget.delete > 0
    /\ graphBudget' = [graphBudget EXCEPT !.delete = @ - 1]
    /\ gone' = gone \cup {item}
    /\ Doubtful(1..Rev)
    /\ UNCHANGED <<db, log, memoryVars, feedVars, snapshot, awaiting>>

-----------------------------------------------------------------------------
(* The feed of rows.                                                        *)

Shown == {feed[i] : i \in 1..Len(feed)}

(* A connect or a resubscription reads the trace file: what is not there    *)
(* yet comes last, in the order of the file.                                *)
ReadFile ==
    /\ LET unseen == (1..Len(trace)) \ Shown
       IN  /\ unseen # {}
           /\ \E rest \in [1..Cardinality(unseen) -> unseen] :
                /\ \A i, j \in DOMAIN rest : i < j => rest[i] < rest[j]
                /\ feed' = feed \o rest
    /\ UNCHANGED <<storeVars, memoryVars, trace, snapshot, awaiting, load, graphBudget>>

-----------------------------------------------------------------------------
(* Deltas.                                                                  *)

Deltas(from) == {i \in from..Len(feed) : trace[feed[i]] # 0}

RevOf(i) == trace[feed[i]]

(* buildRevsInForDeltas: a trace that begins with revision 1 is replayed    *)
(* from there, whatever the slice said.                                     *)
StartRev(deltas, known, catchUp) ==
    IF catchUp /\ deltas # {} /\ RevOf(Min(deltas)) = 1 THEN 0 ELSE known

(* applyPagGraphTraceDelta: what is known when the delta i is its turn.     *)
KnownAt(i, deltas, start) ==
    LET before == {j \in deltas : j < i}
    IN  IF before = {} THEN start ELSE RevOf(Max(before))

(* Mutant: only a delta that comes late is noticed. *)
OutOfStep_OnlyLate(i, deltas, start) ==
    LET last == KnownAt(i, deltas, start) IN last > 0 /\ RevOf(i) <= last

OutOfStep(i, deltas, start) ==
    LET last == KnownAt(i, deltas, start) IN last > 0 /\ RevOf(i) # last + 1

(* applyDeltasInRange on the rows from the place `from' on. *)
ApplyDeltas(v, from, catchUp) ==
    LET deltas == Deltas(from)
        start  == StartRev(deltas, v.known, catchUp)
    IN  [v EXCEPT !.st = "ready",
                  !.items = @ \cup {log[RevOf(i)] : i \in deltas},
                  !.known = IF deltas = {} THEN start ELSE RevOf(Max(deltas)),
                  !.last = Len(feed),
                  !.warned = @ \/ \E i \in deltas : OutOfStep(i, deltas, start)]

(* Mutant: only rows that come after the load count.                        *)
AfterFullLoad_NoReplay(items, rev, doubt) ==
    [EmptyView("ready") EXCEPT !.items = items, !.known = rev, !.at = rev, !.doubt = doubt,
                               !.last = Len(feed)]

AfterFullLoad(items, rev, doubt) ==
    ApplyDeltas([EmptyView("ready") EXCEPT !.items = items, !.known = rev, !.at = rev, !.doubt = doubt],
                1, TRUE)

(* The effect that follows a change of the rows.                            *)
Incremental ==
    /\ snapshot.st = "ready"
    /\ snapshot.last < Len(feed)
    /\ snapshot' = ApplyDeltas(snapshot, snapshot.last + 1, snapshot.last = 0)
    /\ UNCHANGED <<storeVars, memoryVars, feedVars, awaiting, load, graphBudget>>

-----------------------------------------------------------------------------
(* Full loads.                                                              *)

Fresh == [NoLoad EXCEPT !.pc = "nodes"]

(* The effect's cleanup cancels the load it had under way.                  *)
Refresh ==
    /\ graphBudget.load > 0
    /\ graphBudget' = [graphBudget EXCEPT !.load = @ - 1]
    /\ snapshot' = EmptyView("loading")
    /\ load' = [load EXCEPT ![1] = Fresh]
    /\ UNCHANGED <<storeVars, memoryVars, feedVars, awaiting>>

(* Another session and back: its rows are read again. *)
Open ==
    /\ graphBudget.load > 0
    /\ graphBudget' = [graphBudget EXCEPT !.load = @ - 1]
    /\ snapshot' = EmptyView("loading")
    /\ feed' = <<>>
    /\ awaiting' = FALSE
    /\ load' = [[f \in LoadIds |-> NoLoad] EXCEPT ![1] = Fresh]
    /\ UNCHANGED <<storeVars, memoryVars, trace>>

(* Every 2.5 s, whether or not the last retry is back.                      *)
Retry(f) ==
    /\ awaiting
    /\ load[f].pc = "idle"
    /\ load' = [load EXCEPT ![f] = Fresh]
    /\ UNCHANGED <<storeVars, memoryVars, feedVars, snapshot, awaiting, graphBudget>>

(* The cleanup of the retries' effect, once it has been rendered.           *)
CancelRetries ==
    /\ ~awaiting
    /\ \E f \in Retries : load[f].pc # "idle"
    /\ load' = [f \in LoadIds |-> IF f = 1 THEN load[f] ELSE NoLoad]
    /\ UNCHANGED <<storeVars, memoryVars, feedVars, snapshot, awaiting, graphBudget>>

(* list_nodes, list_edges: the last written first.                          *)
Page(items, off) ==
    LET newer(i) == {j \in items : Stamp(j) > Stamp(i)}
    IN  {i \in items : Cardinality(newer(i)) \in off..off + PageSize - 1}

HasMore(items, off) == off + PageSize < Cardinality(items)

(* The next slice of a load: a page of nodes or of edges.                   *)
ReadPage(f, pc, kind, next) ==
    LET items == Stored \cap kind
    IN  /\ load[f].pc = pc
        /\ db
        /\ load' = [load EXCEPT ![f].got = @ \cup Page(items, load[f].off),
                                ![f].off = IF HasMore(items, @) THEN @ + PageSize ELSE 0,
                                ![f].pc = IF HasMore(items, load[f].off) THEN pc ELSE next]
        /\ UNCHANGED <<storeVars, memoryVars, feedVars, snapshot, awaiting, graphBudget>>

ReadNodes(f) == ReadPage(f, "nodes", Nodes, "edges")

ReadEdges(f) == ReadPage(f, "edges", Edges, "rev")

(* get_graph_rev of the last slice, after its edges *)
ReadRev(f) ==
    /\ load[f].pc = "rev"
    /\ load' = [load EXCEPT ![f].rev = Rev, ![f].pc = "loaded"]
    /\ UNCHANGED <<storeVars, memoryVars, feedVars, snapshot, awaiting, graphBudget>>

NoDatabase(f) ==
    /\ load[f].pc = "nodes"
    /\ ~db
    /\ load' = [load EXCEPT ![f].pc = "missing"]
    /\ UNCHANGED <<storeVars, memoryVars, feedVars, snapshot, awaiting, graphBudget>>

Done(f) == load' = [load EXCEPT ![f] = NoLoad]

(* Mutant: the retries are not told. *)
Loaded_StillAwaiting(f) ==
    /\ load[f].pc = "loaded"
    /\ snapshot' = AfterFullLoad(load[f].got, load[f].rev, load[f].doubt)
    /\ Done(f)
    /\ UNCHANGED <<storeVars, memoryVars, feedVars, awaiting, graphBudget>>

Loaded(f) ==
    /\ load[f].pc = "loaded"
    /\ snapshot' = AfterFullLoad(load[f].got, load[f].rev, load[f].doubt)
    /\ awaiting' = FALSE
    /\ Done(f)
    /\ UNCHANGED <<storeVars, memoryVars, feedVars, graphBudget>>

(* The first load shows what the trace has; a retry leaves it at that.      *)
Missing(f) ==
    /\ load[f].pc = "missing"
    /\ IF f = 1 THEN /\ snapshot' = AfterFullLoad({}, 0, {})
                     /\ awaiting' = TRUE
                ELSE UNCHANGED <<snapshot, awaiting>>
    /\ Done(f)
    /\ UNCHANGED <<storeVars, memoryVars, feedVars, graphBudget>>

SliceFails(f) ==
    /\ load[f].pc \in {"nodes", "edges", "rev"}
    /\ snapshot' = EmptyView("error")
    /\ awaiting' = FALSE
    /\ Done(f)
    /\ UNCHANGED <<storeVars, memoryVars, feedVars, graphBudget>>

Advance(f) ==
    \/ ReadNodes(f)
    \/ ReadEdges(f)
    \/ ReadRev(f)
    \/ NoDatabase(f)
    \/ Loaded(f)
    \/ Missing(f)

GraphNext ==
    \/ \E i \in Own : TracedUpsert(i)
    \/ \E i \in Others : UntracedUpsert(i) \/ Delete(i)
    \/ Publish
    \/ MemoryDies
    \/ ReadFile
    \/ Incremental
    \/ Refresh
    \/ Open
    \/ \E f \in Retries : Retry(f)
    \/ CancelRetries
    \/ \E f \in LoadIds : Advance(f) \/ SliceFails(f)

GraphSpec == GraphInit /\ [][GraphNext]_graphVars

(* Timers fire and slices come back.                                        *)
GraphFairSpec ==
    /\ GraphSpec
    /\ \A f \in LoadIds : WF_graphVars(Advance(f))
    /\ \A f \in Retries : WF_graphVars(Retry(f))

-----------------------------------------------------------------------------
(* Safety.                                                                  *)

(* What the trace has shown is in the view, whether its row came before,    *)
(* during or after the load, late or in order (afterFullLoad,               *)
(* applyIncremental, mergeRows).                                            *)
NothingTracedIsMissed ==
    snapshot.st = "ready" => \A i \in 1..snapshot.last : RevOf(i) # 0 => log[RevOf(i)] \in snapshot.items

(* A view loaded at some revision that shows no warning has all that the    *)
(* store has up to the revision it claims; in doubt is only what was        *)
(* written while it loaded (applyPagGraphTraceDelta, buildRevsInForDeltas). *)
SilentViewIsWhole ==
    snapshot.st = "ready" /\ ~snapshot.warned /\ snapshot.at > 0 =>
        \A i \in Stored : Stamp(i) \in (1..snapshot.known) \ snapshot.doubt => i \in snapshot.items

-----------------------------------------------------------------------------
(* Liveness.                                                                *)

(* Every load comes to an end, and a database that appears is found without *)
(* the user's help (the retries' effect of DesktopSessionContext.tsx).      *)
DatabaseIsFound ==
    (snapshot.st = "loading" \/ (awaiting /\ db))
        ~> (snapshot.st \in {"ready", "error"} /\ (db => ~awaiting))

=============================================================================
