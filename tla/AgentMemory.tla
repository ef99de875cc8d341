----------------------------- MODULE AgentMemory -----------------------------
(***************************************************************************)
(* The AgentMemory processes (memory_agent.py and its pipeline) and the    *)
(* writing side of AgentWork, over one PAG store and the files on disk.    *)
(*                                                                         *)
(* A worker reads requests from its standard input and handles one at a    *)
(* time: a query, feedback on changed files, or a bare list of them.  An   *)
(* author is the prompt thread of an AgentWork process: after each file it *)
(* writes it brings the store up to date itself (sync_after_write) and     *)
(* then sends feedback, and it stops waiting for an answer after a while.  *)
(* Both run PagIndexer.sync_changes, whose every read of a file and every  *)
(* transaction is a step here.                                             *)
(***************************************************************************)
EXTENDS PagStore, Sequences

CONSTANTS
    Workers, Authors,
    Serves,       \* the worker each author talks to
    NumFiles,     \* files are numbered in the order of their paths
    Hollow,       \* the versions of files that have no section
    MaxEdits,     \* bound: changes of files
    MaxRequests,  \* bound: requests sent
    MaxSelected,  \* max_selected_b of the configuration
    NoJob, NoNode

ASSUME MemoryAssumption ==
    /\ Workers \cap Authors = {}
    /\ Serves \in [Authors -> Workers]
    /\ NumFiles \in Nat \ {0}
    /\ MaxEdits \in Nat
    /\ MaxRequests \in Nat
    /\ MaxSelected \in Nat \ {0}

Actors  == Workers \cup Authors
Files   == 1..NumFiles
Version == 0..(MaxEdits + 1)   \* 0: there is no such file

VARIABLES
    disk,      \* the version of each file
    edits,     \* how many changes there were
    store,     \* the PAG store
    llm,       \* memory.llm_optimization.enabled
    step,      \* where each actor is
    job,       \* what it is doing
    todo,      \* the files it has still to go through in the present loop
    held,      \* the version it has just read
    node,      \* a node it has just fetched
    listed,    \* the sections a worker has listed
    kept,      \* the sections it has a summary of
    queue,     \* requests a worker has not read yet
    sent,      \* how many requests were sent
    batches,   \* the feedback sent: files and version of each batch
    absent,    \* the files of the present batch a worker did not find
    done,      \* _change_idempotency: the batches a worker knows as applied
    acked,     \* what was announced and answered without an error or an absence
    indexed,   \* the versions the present query has indexed
    answer     \* the results the last query answered with

diskVars == <<disk, edits>>
progress == <<job, todo, held, node, listed, kept>>
mail     == <<queue, sent, batches>>
results  == <<absent, done, acked, indexed, answer>>
vars     == <<diskVars, store, llm, step, progress, mail, results>>

Section(s, f) == IF Has(s, SectionId(f)) THEN s.nodes[SectionId(f)] ELSE NoNode
Sectioned(f, v) == v # 0 /\ <<f, v>> \notin Hollow
First(fs)     == CHOOSE f \in fs : \A g \in fs : f <= g

Request == [kind : {"query"}, hint : SUBSET Files]
      \cup [kind : {"feedback"}, batch : Nat \ {0}]
      \cup [kind : {"changed"}, files : SUBSET Files]

Steps == {"idle", "dead", "plan", "project", "contain", "check", "read", "node", "edges",
          "sections", "reread", "section", "link", "list", "summary", "ask", "write", "look",
          "file", "filewrite", "finish", "hang", "restore", "remap", "remapread", "remapfile",
          "remaplist", "remapsection", "notify", "wait"}

TypeOK ==
    /\ disk \in [Files -> Version]
    /\ edits \in 0..MaxEdits
    /\ store.nodes \in [DOMAIN store.nodes -> NodeData(Version)]
    /\ DOMAIN store.nodes \subseteq {ProjectId, IndexerId} \cup {FileId(f) : f \in Files}
                                    \cup {SectionId(f) : f \in Files}
    /\ \A e \in store.edges : e[2] = IndexerId \/ e[2][1] \in {"B", "C"}
    /\ llm \in BOOLEAN
    /\ step \in [Actors -> Steps]
    /\ todo \in [Actors -> SUBSET Files]
    /\ held \in [Actors -> Version]
    /\ node \in [Actors -> NodeData(Version) \cup {NoNode}]
    /\ listed \in [Workers -> [Files -> NodeData(Version) \cup {NoNode}]]
    /\ kept \in [Workers -> SUBSET Files]
    /\ queue \in [Workers -> Seq(Request)]
    /\ sent \in 0..MaxRequests
    /\ batches \in Seq([files : SUBSET Files, version : Version])
    /\ absent \in [Workers -> SUBSET Files]
    /\ done \in [Workers -> SUBSET [batch : DOMAIN batches, absent : SUBSET Files]]
    /\ acked \subseteq [file : Files, version : Version]
    /\ indexed \in [Workers -> [Files -> Version]]
    /\ answer \in [Workers -> SUBSET [file : Files, text : Version]]

Init ==
    /\ disk \in [Files -> {0, 1}]
    /\ edits = 0
    /\ store \in {EmptyStore, IndexedStore({f \in Files : disk[f] # 0}, disk,
                                          {f \in Files : Sectioned(f, disk[f])})}
    /\ llm \in BOOLEAN
    /\ step = [a \in Actors |-> "idle"]
    /\ job = [a \in Actors |-> NoJob]
    /\ todo = [a \in Actors |-> {}]
    /\ held = [a \in Actors |-> 0]
    /\ node = [a \in Actors |-> NoNode]
    /\ listed = [w \in Workers |-> [f \in Files |-> NoNode]]
    /\ kept = [w \in Workers |-> {}]
    /\ queue = [w \in Workers |-> <<>>]
    /\ sent = 0
    /\ batches = <<>>
    /\ absent = [w \in Workers |-> {}]
    /\ done = [w \in Workers |-> {}]
    /\ acked = {}
    /\ indexed = [w \in Workers |-> [f \in Files |-> 0]]
    /\ answer = [w \in Workers |-> {}]

-----------------------------------------------------------------------------
(* Moving on.                                                              *)

At(a, s)      == step[a] = s
Goto(a, s)    == step' = [step EXCEPT ![a] = s]
Current(a)    == First(todo[a])   \* a loop takes its files in order
AnyLeft(a)    == todo[a] # {Current(a)}

(* What the body of a loop has read is forgotten with it. *)
Forget(a) ==
    /\ held' = [held EXCEPT ![a] = 0]
    /\ node' = [node EXCEPT ![a] = NoNode]

NoList(w) ==
    /\ listed' = [listed EXCEPT ![w] = [f \in Files |-> NoNode]]
    /\ kept' = [kept EXCEPT ![w] = {}]

NoAbsence(w) == absent' = [absent EXCEPT ![w] = {}]

(* Mutant: the loop does not get past its first file. *)
NextFile_Again(a, again, after) ==
    /\ Forget(a)
    /\ todo' = [todo EXCEPT ![a] = @]
    /\ Goto(a, IF AnyLeft(a) THEN again ELSE after)

(* The next file of the loop, from step again; after the last one, step after. *)
NextFile(a, again, after) ==
    /\ Forget(a)
    /\ todo' = [todo EXCEPT ![a] = @ \ {Current(a)}]
    /\ Goto(a, IF AnyLeft(a) THEN again ELSE after)

(* A loop over files begins at step body. *)
Loop(a, files, body, after) ==
    /\ Forget(a)
    /\ todo' = [todo EXCEPT ![a] = files]
    /\ Goto(a, IF files = {} THEN after ELSE body)

Rest(a) ==
    /\ Forget(a)
    /\ todo' = [todo EXCEPT ![a] = {}]
    /\ Goto(a, "idle")
    /\ job' = [job EXCEPT ![a] = NoJob]

-----------------------------------------------------------------------------
(* Requests.  A worker that dies is not started again by its broker; only a  *)
(* new broker of the chat starts a new one, which remembers no batch.        *)

Send(w, request) ==
    /\ sent < MaxRequests
    /\ sent' = sent + 1
    /\ queue' = [queue EXCEPT ![w] = Append(@, request)]

Take(w, kind) ==
    /\ At(w, "idle")
    /\ queue[w] # <<>>
    /\ Head(queue[w]).kind = kind
    /\ queue' = [queue EXCEPT ![w] = Tail(@)]
    /\ UNCHANGED <<sent, batches>>

(* An exception nothing in handle or main catches. *)
Die(w) ==
    /\ Goto(w, "dead")
    /\ Forget(w) /\ NoList(w) /\ NoAbsence(w)
    /\ todo' = [todo EXCEPT ![w] = {}]
    /\ job' = [job EXCEPT ![w] = NoJob]
    /\ queue' = [queue EXCEPT ![w] = <<>>]
    /\ done' = [done EXCEPT ![w] = {}]
    /\ UNCHANGED <<sent, batches, acked, indexed, answer>>

Restart(w) ==
    /\ At(w, "dead")
    /\ Goto(w, "idle")
    /\ queue' = [queue EXCEPT ![w] = <<>>]
    /\ UNCHANGED <<diskVars, store, llm, progress, sent, batches, results>>

-----------------------------------------------------------------------------
(* A query.                                                                *)

Existing == {f \in Files : disk[f] # 0}

Upto(files) == {f \in files : Cardinality({g \in files : g < f}) < MaxSelected}

(* The planner may name any files, in any order: the loops below sort them. *)
Selections(hint) ==
    IF llm
    THEN {Upto(IF hint \cup named = {} THEN Existing
               ELSE (hint \cap Existing) \cup named) : named \in SUBSET Existing}
    ELSE IF hint \cap Existing # {} THEN {hint}
         ELSE {Upto(named) : named \in SUBSET Existing}

Mechanical(hint) ==
    /\ llm
    /\ hint # {}
    /\ Has(store, ProjectId)
    /\ store.nodes[ProjectId].fresh
    /\ FreshFiles(store, Files) # {}

ReceiveQuery(w) ==
    /\ Take(w, "query")
    /\ LET hint == Head(queue[w]).hint
       IN  /\ Goto(w, IF Mechanical(hint) THEN "idle" ELSE IF llm THEN "plan" ELSE "project")
           /\ \E files \in Selections(hint) :
                 job' = [job EXCEPT ![w] = IF Mechanical(hint) THEN NoJob
                                           ELSE [kind |-> "query", hint |-> hint,
                                                 files |-> IF llm THEN {} ELSE files]]
    /\ indexed' = [indexed EXCEPT ![w] = [f \in Files |-> 0]]
    /\ answer' = [answer EXCEPT ![w] = {}]
    /\ UNCHANGED <<diskVars, store, llm, todo, held, node, listed, kept, absent, done, acked>>

(* What FinishDecisionResultAssembler returns for the sections asked for. *)
Assembled(fs) ==
    {[file |-> f, text |-> store.nodes[SectionId(f)].text] :
        f \in {g \in fs : Has(store, SectionId(g))}}

Respond(w, found) ==
    /\ answer' = [answer EXCEPT ![w] = found]
    /\ Rest(w)
    /\ NoList(w)
    /\ UNCHANGED <<diskVars, store, llm, mail, absent, done, acked, indexed>>

PlannerFails(w) == At(w, "plan") /\ Die(w) /\ UNCHANGED <<diskVars, store, llm>>

(* Output that cannot be read, even after the repair. *)
PlanRejected(w) == At(w, "plan") /\ Respond(w, {})

PlanFinishes(w) ==
    /\ At(w, "plan")
    /\ \E fs \in SUBSET Files : Respond(w, Assembled(fs))

PlanTraversal(w) ==
    /\ At(w, "plan")
    /\ \E files \in Selections(job[w].hint) :
          job' = [job EXCEPT ![w] = [kind |-> "query", hint |-> job[w].hint, files |-> files]]
    /\ Goto(w, "project")
    /\ UNCHANGED <<diskVars, store, llm, todo, held, node, listed, kept, mail, results>>

(* The planner of the growth finds no file. *)
NothingToGrow(w) ==
    /\ At(w, "project")
    /\ ~llm
    /\ job[w].files = {}
    /\ Respond(w, {})

UpsertProject(w) ==
    /\ At(w, "project")
    /\ llm \/ job[w].files # {}
    /\ store' = UpsertNode(store, ProjectId, Plain(0))
    /\ IF llm THEN Loop(w, job[w].files, "contain", "list")
              ELSE Loop(w, job[w].files, "check", "list")
    /\ UNCHANGED <<diskVars, llm, job, listed, kept, mail, results>>

(* _materialize_b_paths: the file hangs from its project. *)
Contain(w) ==
    /\ At(w, "contain")
    /\ store' = UpsertEdge(store, ProjectId, FileId(Current(w)))
    /\ IF AnyLeft(w) THEN NextFile(w, "contain", "check")
                          ELSE Loop(w, job[w].files, "check", "list")
    /\ UNCHANGED <<diskVars, llm, job, listed, kept, mail, results>>

-----------------------------------------------------------------------------
(* PagIndexer.sync_changes, run by workers and authors.                    *)

Synced(a) ==
    IF a \in Workers /\ ~llm /\ ~AnyLeft(a)
    THEN Loop(a, job[a].files, "hang", "idle")
    ELSE NextFile(a, "check", IF a \in Authors THEN "notify" ELSE "list")

SyncMissing(a) ==
    /\ At(a, "check")
    /\ disk[Current(a)] = 0
    /\ store' = MarkStale(store, {FileId(Current(a))})
    /\ Synced(a)
    /\ UNCHANGED <<diskVars, llm, job, listed, kept, mail, results>>

SyncExists(a) ==
    /\ At(a, "check")
    /\ disk[Current(a)] # 0
    /\ Goto(a, "read")
    /\ UNCHANGED <<diskVars, store, llm, progress, mail, results>>

ReadFile(a) ==
    /\ At(a, "read")
    /\ disk[Current(a)] # 0
    /\ held' = [held EXCEPT ![a] = disk[Current(a)]]
    /\ Goto(a, "node")
    /\ indexed' = IF a \in Workers THEN [indexed EXCEPT ![a][Current(a)] = disk[Current(a)]]
                                    ELSE indexed
    /\ UNCHANGED <<diskVars, store, llm, job, todo, node, listed, kept, mail,
                   absent, done, acked, answer>>

(* The file has gone since it was seen: stat raises.  The growth's caller    *)
(* catches everything, the pipeline nothing; an author's turn fails.         *)
FileVanished(a) ==
    /\ At(a, "read")
    /\ disk[Current(a)] = 0
    /\ IF a \in Workers /\ llm THEN Die(a) ELSE Rest(a) /\ UNCHANGED <<listed, kept, mail, results>>
    /\ UNCHANGED <<diskVars, store, llm>>

UpsertFile(a) ==
    /\ At(a, "node")
    /\ store' = UpsertNode(store, FileId(Current(a)), Plain(held[a]))
    /\ Goto(a, "edges")
    /\ UNCHANGED <<diskVars, llm, progress, mail, results>>

(* Every edge of the file goes, the one it hangs from as well. *)
DropEdges(a) ==
    /\ At(a, "edges")
    /\ store' = DeleteEdgesTouching(store, {FileId(Current(a))})
    /\ Goto(a, "sections")
    /\ UNCHANGED <<diskVars, llm, progress, mail, results>>

DropSections(a) ==
    /\ At(a, "sections")
    /\ store' = DeleteSections(store, Current(a))
    /\ Goto(a, "reread")
    /\ UNCHANGED <<diskVars, llm, progress, mail, results>>

(* The sections come from a second reading of the file. *)
ReadSections(a) ==
    /\ At(a, "reread")
    /\ IF Sectioned(Current(a), disk[Current(a)])
       THEN /\ held' = [held EXCEPT ![a] = disk[Current(a)]]
            /\ Goto(a, "section")
            /\ UNCHANGED <<todo, node>>
       ELSE Synced(a)
    /\ UNCHANGED <<diskVars, store, llm, job, listed, kept, mail, results>>

UpsertSection(a) ==
    /\ At(a, "section")
    /\ store' = UpsertNode(store, SectionId(Current(a)), Plain(held[a]))
    /\ Goto(a, "link")
    /\ UNCHANGED <<diskVars, llm, progress, mail, results>>

LinkSection(a) ==
    /\ At(a, "link")
    /\ store' = UpsertEdge(store, FileId(Current(a)), SectionId(Current(a)))
    /\ Synced(a)
    /\ UNCHANGED <<diskVars, llm, job, listed, kept, mail, results>>

(* _ensure_edges_and_branch_attrs of the growth: the edge, then the file's  *)
(* node as it was fetched.                                                  *)
HangFile(w) ==
    /\ At(w, "hang")
    /\ store' = UpsertEdge(store, ProjectId, FileId(Current(w)))
    /\ node' = [node EXCEPT ![w] = IF Has(store, FileId(Current(w)))
                                   THEN store.nodes[FileId(Current(w))] ELSE NoNode]
    /\ Goto(w, "restore")
    /\ UNCHANGED <<diskVars, llm, job, todo, held, listed, kept, mail, results>>

RestoreFile(w) ==
    /\ At(w, "restore")
    /\ store' = IF node[w] = NoNode THEN store ELSE UpsertNode(store, FileId(Current(w)), node[w])
    /\ NextFile(w, "hang", "idle")
    /\ job' = [job EXCEPT ![w] = IF AnyLeft(w) THEN @ ELSE NoJob]
    /\ UNCHANGED <<diskVars, llm, listed, kept, mail, results>>

-----------------------------------------------------------------------------
(* The rest of the pipeline: summaries of the sections, of their files, and  *)
(* the answer.  Nothing here is traced, and no error leaves a loop.          *)

Listing(files) == [f \in Files |-> IF f \in files THEN Section(store, f) ELSE NoNode]

ListSections(w) ==
    /\ At(w, "list")
    /\ listed' = [listed EXCEPT ![w] = Listing(job[w].files)]
    /\ kept' = [kept EXCEPT ![w] = {}]
    /\ LET found == {f \in job[w].files : Section(store, f) # NoNode}
       IN  Loop(w, found, "summary", "finish")
    /\ UNCHANGED <<diskVars, store, llm, job, mail, results>>

(* After the sections come the files. *)
NextSection(w) ==
    IF AnyLeft(w) THEN NextFile(w, "summary", "file")
                       ELSE Loop(w, job[w].files, "file", "finish")

KeepSummary(w) ==
    /\ At(w, "summary")
    /\ listed[w][Current(w)].text # 0
    /\ kept' = [kept EXCEPT ![w] = @ \cup {Current(w)}]
    /\ NextSection(w)
    /\ UNCHANGED <<diskVars, store, llm, job, listed, mail, results>>

ReadSection(w) ==
    /\ At(w, "summary")
    /\ listed[w][Current(w)].text = 0
    /\ held' = [held EXCEPT ![w] = disk[Current(w)]]
    /\ Goto(w, "ask")
    /\ UNCHANGED <<diskVars, store, llm, job, todo, node, listed, kept, mail, results>>

(* apply_summarize_c fetches the node when the provider has answered ...    *)
SectionSummarized(w) ==
    /\ At(w, "ask")
    /\ node' = [node EXCEPT ![w] = Section(store, Current(w))]
    /\ Goto(w, IF Section(store, Current(w)) = NoNode THEN "look" ELSE "write")
    /\ UNCHANGED <<diskVars, store, llm, job, todo, held, listed, kept, mail, results>>

SummaryFails(w) ==
    /\ At(w, "ask")
    /\ Goto(w, "look")
    /\ UNCHANGED <<diskVars, store, llm, progress, mail, results>>

(* ... and writes it back, with the summary or as it was if it was refused. *)
WriteSummary(w) ==
    /\ At(w, "write")
    /\ \E text \in {held[w], node[w].text} :
          store' = UpsertNode(store, SectionId(Current(w)),
                              [print |-> node[w].print, text |-> text, fresh |-> TRUE])
    /\ Goto(w, "look")
    /\ UNCHANGED <<diskVars, llm, progress, mail, results>>

LookAgain(w) ==
    /\ At(w, "look")
    /\ LET section == Section(store, Current(w))
       IN  kept' = IF section = NoNode \/ section.text = 0 THEN kept
                   ELSE [kept EXCEPT ![w] = @ \cup {Current(w)}]
    /\ NextSection(w)
    /\ UNCHANGED <<diskVars, store, llm, job, listed, mail, results>>

(* Enough of the file's sections have a summary (min_child_summary_coverage). *)
Covered(f) == Section(store, f) # NoNode /\ Section(store, f).text # 0

SkipFileSummary(w) ==
    /\ At(w, "file")
    /\ NextFile(w, "file", "finish")
    /\ UNCHANGED <<diskVars, store, llm, job, listed, kept, mail, results>>

FileSummarized(w) ==
    /\ At(w, "file")
    /\ Has(store, FileId(Current(w)))
    /\ Covered(Current(w))
    /\ node' = [node EXCEPT ![w] = store.nodes[FileId(Current(w))]]
    /\ Goto(w, "filewrite")
    /\ UNCHANGED <<diskVars, store, llm, job, todo, held, listed, kept, mail, results>>

WriteFileSummary(w) ==
    /\ At(w, "filewrite")
    /\ store' = UpsertNode(store, FileId(Current(w)),
                           [print |-> node[w].print, text |-> node[w].text, fresh |-> TRUE])
    /\ NextFile(w, "file", "finish")
    /\ UNCHANGED <<diskVars, llm, job, listed, kept, mail, results>>

(* The provider selects among the candidates; without it all are taken.     *)
FinishQuery(w) ==
    /\ At(w, "finish")
    /\ \E fs \in SUBSET kept[w] : Respond(w, Assembled(fs))

-----------------------------------------------------------------------------
(* Feedback on changed files, and the bare list of them: SemanticCRemapService. *)

Announced(batch, without) ==
    {[file |-> f, version |-> batches[batch].version] : f \in batches[batch].files \ without}

(* A batch the worker knows is answered with the decisions of then. *)
TakeKnown(w) ==
    /\ Take(w, "feedback")
    /\ \E d \in done[w] :
          /\ d.batch = Head(queue[w]).batch
          /\ acked' = acked \cup Announced(d.batch, d.absent)
    /\ UNCHANGED <<diskVars, store, llm, step, progress, absent, done, indexed, answer>>

TakeFeedback(w) ==
    /\ Take(w, "feedback")
    /\ LET batch == Head(queue[w]).batch
       IN  /\ \A d \in done[w] : d.batch # batch
           /\ Loop(w, batches[batch].files, "remap", "idle")
           /\ job' = [job EXCEPT ![w] = [kind |-> "feedback", batch |-> batch]]
    /\ UNCHANGED <<diskVars, store, llm, listed, kept, results>>

TakeChanged(w) ==
    /\ Take(w, "changed")
    /\ Loop(w, Head(queue[w]).files, "remap", "idle")
    /\ job' = [job EXCEPT ![w] = [kind |-> "changed"]]
    /\ UNCHANGED <<diskVars, store, llm, listed, kept, results>>

(* The batch is recorded when its last file has been gone through. *)
FileDone(w, without) ==
    /\ NextFile(w, "remap", "idle")
    /\ IF AnyLeft(w)
       THEN absent' = [absent EXCEPT ![w] = without] /\ UNCHANGED <<job, done, acked>>
       ELSE /\ NoAbsence(w)
            /\ job' = [job EXCEPT ![w] = NoJob]
            /\ IF job[w].kind = "feedback"
               THEN /\ done' = [done EXCEPT ![w] =
                                  @ \cup {[batch |-> job[w].batch, absent |-> without]}]
                    /\ acked' = acked \cup Announced(job[w].batch, without)
               ELSE UNCHANGED <<done, acked>>

(* delete_or_stale writes nothing. *)
RemapMissing(w) ==
    /\ At(w, "remap")
    /\ disk[Current(w)] = 0
    /\ FileDone(w, absent[w] \cup {Current(w)})
    /\ UNCHANGED <<diskVars, store, llm, listed, kept, mail, indexed, answer>>

RemapExists(w) ==
    /\ At(w, "remap")
    /\ disk[Current(w)] # 0
    /\ Goto(w, "remapread")
    /\ UNCHANGED <<diskVars, store, llm, progress, mail, results>>

RemapRead(w) ==
    /\ At(w, "remapread")
    /\ disk[Current(w)] # 0
    /\ held' = [held EXCEPT ![w] = disk[Current(w)]]
    /\ node' = [node EXCEPT ![w] = IF Has(store, FileId(Current(w)))
                                   THEN store.nodes[FileId(Current(w))] ELSE NoNode]
    /\ Goto(w, "remapfile")
    /\ UNCHANGED <<diskVars, store, llm, job, todo, listed, kept, mail, results>>

(* The file has gone since: nothing is done for it. *)
RemapVanished(w) ==
    /\ At(w, "remapread")
    /\ disk[Current(w)] = 0
    /\ FileDone(w, absent[w] \cup {Current(w)})
    /\ UNCHANGED <<diskVars, store, llm, listed, kept, mail, indexed, answer>>

(* An exception: the file has gone between two reads, the store is locked.   *)
(* Feedback answers with an error and forgets the batch.                     *)
RemapFails(w) ==
    /\ step[w] \in {"remapread", "remapfile", "remaplist", "remapsection"}
    /\ IF job[w].kind = "feedback"
       THEN Rest(w) /\ NoAbsence(w) /\ UNCHANGED <<listed, kept, mail, done, acked, indexed, answer>>
       ELSE Die(w)
    /\ UNCHANGED <<diskVars, store, llm>>

(* Mutant: a file the store knows keeps its fingerprint. *)
RemapFile_KeepsPrint(w) ==
    /\ At(w, "remapfile")
    /\ store' = UpsertNode(store, FileId(Current(w)),
                           IF node[w] = NoNode THEN Plain(held[w])
                                               ELSE [node[w] EXCEPT !.fresh = TRUE])
    /\ Goto(w, "remaplist")
    /\ UNCHANGED <<diskVars, llm, progress, mail, results>>

RemapFile(w) ==
    /\ At(w, "remapfile")
    /\ store' = UpsertNode(store, FileId(Current(w)),
                           [print |-> held[w], fresh |-> TRUE,
                            text |-> IF node[w] = NoNode THEN 0 ELSE node[w].text])
    /\ Goto(w, "remaplist")
    /\ UNCHANGED <<diskVars, llm, progress, mail, results>>

RemapList(w) ==
    /\ At(w, "remaplist")
    /\ IF Section(store, Current(w)) = NoNode
       THEN FileDone(w, absent[w])
       ELSE /\ node' = [node EXCEPT ![w] = Section(store, Current(w))]
            /\ Goto(w, "remapsection")
            /\ UNCHANGED <<job, todo, held, absent, done, acked>>
    /\ UNCHANGED <<diskVars, store, llm, listed, kept, mail, indexed, answer>>

(* The section is found again, or is left for the provider; its summary      *)
(* stays.  In a text it was taken from it is always found.                   *)
RemapSection(w) ==
    /\ At(w, "remapsection")
    /\ \E found \in IF held[w] = node[w].print THEN {TRUE} ELSE BOOLEAN :
          store' = UpsertNode(store, SectionId(Current(w)),
                              [print |-> IF found THEN held[w] ELSE node[w].print,
                               text |-> node[w].text, fresh |-> found])
    /\ FileDone(w, absent[w])
    /\ UNCHANGED <<diskVars, llm, listed, kept, mail, indexed, answer>>

-----------------------------------------------------------------------------
(* AgentWork, and everyone else who changes files.                         *)

Ask(a, hint) ==
    /\ At(a, "idle")
    /\ Send(Serves[a], [kind |-> "query", hint |-> hint])
    /\ Goto(a, "wait")
    /\ UNCHANGED <<diskVars, store, llm, progress, batches, results>>

(* The write_file calls of one turn, after which the store is brought up to  *)
(* date in the author's own process.                                         *)
WriteFiles(a, files) ==
    /\ At(a, "idle")
    /\ edits < MaxEdits
    /\ edits' = edits + 1
    /\ disk' = [f \in Files |-> IF f \in files THEN edits + 2 ELSE disk[f]]
    /\ job' = [job EXCEPT ![a] = [kind |-> "turn", files |-> files, version |-> edits + 2]]
    /\ Loop(a, files, "check", "notify")
    /\ UNCHANGED <<store, llm, listed, kept, mail, results>>

Notify(a) ==
    /\ At(a, "notify")
    /\ Send(Serves[a], [kind |-> "feedback", batch |-> Len(batches) + 1])
    /\ batches' = Append(batches, [files |-> job[a].files, version |-> job[a].version])
    /\ Goto(a, "wait")
    /\ job' = [job EXCEPT ![a] = NoJob]
    /\ UNCHANGED <<diskVars, store, llm, todo, held, node, listed, kept, results>>

(* The answer has come, or the author waits for it no longer. *)
GoOn(a) ==
    /\ At(a, "wait")
    /\ Goto(a, "idle")
    /\ UNCHANGED <<diskVars, store, llm, progress, mail, results>>

(* Clients of the service that list changed files, or send a batch again. *)
SendChanged(w, files) ==
    /\ Send(w, [kind |-> "changed", files |-> files])
    /\ UNCHANGED <<diskVars, store, llm, step, progress, batches, results>>

SendAgain(w, batch) ==
    /\ Send(w, [kind |-> "feedback", batch |-> batch])
    /\ UNCHANGED <<diskVars, store, llm, step, progress, batches, results>>

(* A user, a shell command or a checkout. *)
ChangeOnDisk(f, there) ==
    /\ edits < MaxEdits
    /\ edits' = edits + 1
    /\ disk' = [disk EXCEPT ![f] = IF there THEN edits + 2 ELSE 0]
    /\ UNCHANGED <<store, llm, step, progress, mail, results>>

-----------------------------------------------------------------------------

Sync(a) ==
    \/ SyncMissing(a) \/ SyncExists(a) \/ ReadFile(a) \/ FileVanished(a) \/ UpsertFile(a)
    \/ DropEdges(a) \/ DropSections(a) \/ ReadSections(a) \/ UpsertSection(a) \/ LinkSection(a)

Query(w) ==
    \/ ReceiveQuery(w) \/ PlannerFails(w) \/ PlanRejected(w) \/ PlanFinishes(w) \/ PlanTraversal(w)
    \/ NothingToGrow(w) \/ UpsertProject(w) \/ Contain(w) \/ HangFile(w) \/ RestoreFile(w)
    \/ ListSections(w) \/ KeepSummary(w) \/ ReadSection(w) \/ SectionSummarized(w)
    \/ SummaryFails(w) \/ WriteSummary(w) \/ LookAgain(w) \/ SkipFileSummary(w)
    \/ FileSummarized(w) \/ WriteFileSummary(w) \/ FinishQuery(w)

Remap(w) ==
    \/ TakeKnown(w) \/ TakeFeedback(w) \/ TakeChanged(w) \/ RemapMissing(w) \/ RemapExists(w) \/ RemapRead(w)
    \/ RemapVanished(w) \/ RemapFails(w) \/ RemapFile(w) \/ RemapList(w) \/ RemapSection(w)

Work(w) == Sync(w) \/ Query(w) \/ Remap(w)

Author(a) ==
    \/ \E hint \in {{}} \cup {{f} : f \in Files} : Ask(a, hint)
    \/ \E files \in (SUBSET Files) \ {{}} : WriteFiles(a, files)
    \/ Sync(a) \/ Notify(a) \/ GoOn(a)

Outside ==
    \/ \E w \in Workers, f \in Files : SendChanged(w, {f})
    \/ \E w \in Workers, batch \in DOMAIN batches : SendAgain(w, batch)
    \/ \E f \in Files, there \in BOOLEAN : ChangeOnDisk(f, there)

Next ==
    \/ \E w \in Workers : Work(w) \/ Restart(w)
    \/ \E a \in Authors : Author(a)
    \/ Outside

Spec == Init /\ [][Next]_vars

(* A worker goes on as long as it lives; providers and sqlite answer or fail. *)
FairSpec == Spec /\ \A w \in Workers : WF_vars(Work(w))

-----------------------------------------------------------------------------
(* Properties.                                                             *)

(* A summary a query answers with was made from a text no older than the one  *)
(* the query has indexed: what an earlier text said is never an answer, with  *)
(* one worker on the database (agent_memory_query_pipeline.py).               *)
AnswersUseIndexedText ==
    \A w \in Workers : \A r \in answer[w] : r.text = 0 \/ r.text >= indexed[w][r.file]

(* What an answered feedback batch announced has reached the node of the file  *)
(* and is not taken back, whatever failed, was sent again or was forgotten in  *)
(* a restart on the way (memory_change_update_service.py).  This is for a      *)
(* project with one chat, one worker and one author: a second one that read an *)
(* older text may write it after the batch was answered.                       *)
AnsweredBatchIsApplied ==
    \A r \in acked : /\ Has(store, FileId(r.file))
                     /\ store.nodes[FileId(r.file)].print >= r.version

(* A file that the last query has read hangs from its project when nobody is *)
(* at work: the planner's contract forbids a file without a path to A.       *)
FilesHangFromProject ==
    (\A a \in Actors : step[a] \in {"idle", "wait"}) =>
        \A w \in Workers, f \in Files :
            indexed[w][f] # 0 => <<ProjectId, FileId(f)>> \in store.edges

(* A worker gets through its requests unless it dies. *)
RequestsAreHandled ==
    \A w \in Workers : []<>(\/ step[w] = "dead"
                            \/ step[w] = "idle" /\ queue[w] = <<>>)

=============================================================================
