---------------------------- MODULE MemoryProofs ----------------------------
(***************************************************************************)
(* Proofs about AgentMemory with one worker: what an answer is made from,  *)
(* and that an answered batch of changes stays applied.                    *)
(*                                                                         *)
(* A query indexes the files it chose, in a loop over what is left of      *)
(* them, and fetches their summaries; a batch of changed files is synced   *)
(* and then gone through in a loop of its own. The steps of each are told  *)
(* apart by how they move the worker (LoopMoves, NextMoves, RestMoves) and *)
(* by what they do to the nodes of a file and of its section (FilesStay,   *)
(* OneFileWritten, SectionsStay, OneSectionWritten); MemShape is the type  *)
(* invariant.                                                              *)
(***************************************************************************)
EXTENDS AgentMemory, SequenceTheorems, WellFoundedInduction, TLAPS

(* The least number of a set: the files of a loop have a first one.        *)
LEMMA LeastNatural ==
    ASSUME NEW T \in SUBSET Nat, T # {}
    PROVE  \E x \in T : \A y \in T : x <= y
<1>1. \E x \in T : \A y \in T : ~ (<<y, x>> \in OpToRel(<, Nat))
  BY NatLessThanWellFounded, WFMin
<1>2. ASSUME NEW x \in T, NEW y \in T, ~ (<<y, x>> \in OpToRel(<, Nat))
      PROVE  x <= y
  <2>1. ~ (y < x)
    BY <1>2 DEF OpToRel
  <2> QED BY <2>1
<1> QED BY <1>1, <1>2

LEMMA FirstIsThere ==
    ASSUME NEW S \in SUBSET Files, S # {}
    PROVE  First(S) \in S
<1>1. \E f \in S : \A g \in S : f <= g
  BY LeastNatural, MemoryAssumption DEF Files
<1> QED BY <1>1 DEF First

-----------------------------------------------------------------------------
(* The operations of the store.                                            *)

IsStore(s) ==
    /\ s = [nodes |-> s.nodes, edges |-> s.edges]
    /\ s.nodes \in [DOMAIN s.nodes -> NodeData(Nat)]

LEMMA StoreUpdates ==
    ASSUME NEW s, IsStore(s), NEW new
    PROVE  /\ [s EXCEPT !.nodes = new] = [nodes |-> new, edges |-> s.edges]
           /\ [s EXCEPT !.edges = new] = [nodes |-> s.nodes, edges |-> new]
<1>1. ASSUME NEW n, NEW e
      PROVE  /\ [[nodes |-> n, edges |-> e] EXCEPT !.nodes = new] = [nodes |-> new, edges |-> e]
             /\ [[nodes |-> n, edges |-> e] EXCEPT !.edges = new] = [nodes |-> n, edges |-> new]
  OBVIOUS
<1>2. s = [nodes |-> s.nodes, edges |-> s.edges]
  BY DEF IsStore
<1> QED BY <1>1, <1>2

LEMMA UpsertedNode ==
    ASSUME NEW s, IsStore(s), NEW id, NEW data \in NodeData(Nat)
    PROVE  LET t == UpsertNode(s, id, data)
           IN  /\ IsStore(t)
               /\ t.nodes = [n \in DOMAIN s.nodes \cup {id} |-> IF n = id THEN data ELSE s.nodes[n]]
<1>1. UpsertNode(s, id, data) =
        [nodes |-> [n \in DOMAIN s.nodes \cup {id} |-> IF n = id THEN data ELSE s.nodes[n]], edges |-> s.edges]
  BY StoreUpdates DEF UpsertNode
<1> QED BY <1>1 DEF IsStore

LEMMA EdgesOnly ==
    ASSUME NEW s, IsStore(s), NEW x, NEW y
    PROVE  /\ IsStore(UpsertEdge(s, x, y)) /\ UpsertEdge(s, x, y).nodes = s.nodes
           /\ IsStore(DeleteEdgesTouching(s, x)) /\ DeleteEdgesTouching(s, x).nodes = s.nodes
<1>1. /\ UpsertEdge(s, x, y) = [nodes |-> s.nodes, edges |-> s.edges \cup {<<x, y>>}]
      /\ DeleteEdgesTouching(s, x) = [nodes |-> s.nodes, edges |-> {e \in s.edges : ~Touches(e, x)}]
  BY StoreUpdates DEF UpsertEdge, DeleteEdgesTouching
<1> QED BY <1>1 DEF IsStore

LEMMA StaleNodes ==
    ASSUME NEW s, IsStore(s), NEW ids
    PROVE  LET t == MarkStale(s, ids)
           IN  /\ IsStore(t)
               /\ DOMAIN t.nodes = DOMAIN s.nodes
               /\ \A n \in DOMAIN s.nodes : t.nodes[n].print = s.nodes[n].print /\ t.nodes[n].text = s.nodes[n].text
<1> DEFINE new == [n \in DOMAIN s.nodes |-> [print |-> s.nodes[n].print, text |-> s.nodes[n].text,
                                            fresh |-> s.nodes[n].fresh /\ ~(ids = {} \/ n \in ids)]]
<1>1. MarkStale(s, ids) = [nodes |-> new, edges |-> s.edges]
  BY StoreUpdates DEF MarkStale
<1>2. \A n \in DOMAIN s.nodes : new[n] \in NodeData(Nat)
  BY DEF NodeData, IsStore
<1>3. \A n \in DOMAIN s.nodes : new[n].print = s.nodes[n].print /\ new[n].text = s.nodes[n].text
  OBVIOUS
<1>4. new = [n \in DOMAIN s.nodes |-> new[n]] /\ DOMAIN new = DOMAIN s.nodes
  OBVIOUS
<1> HIDE DEF new
<1> QED BY <1>1, <1>2, <1>3, <1>4 DEF IsStore

LEMMA SectionsDropped ==
    ASSUME NEW s, IsStore(s), NEW f
    PROVE  LET t == DeleteSections(s, f)
           IN  /\ IsStore(t)
               /\ DOMAIN t.nodes = DOMAIN s.nodes \ {SectionId(f)}
               /\ \A n \in DOMAIN t.nodes : t.nodes[n] = s.nodes[n]
<1>1. DeleteSections(s, f) = [nodes |-> [n \in DOMAIN s.nodes \ {SectionId(f)} |-> s.nodes[n]], edges |-> s.edges]
  BY StoreUpdates DEF DeleteSections
<1> QED BY <1>1 DEF IsStore

LEMMA IdsDiffer ==
    \A f, g : /\ FileId(f) # SectionId(g) /\ FileId(f) # ProjectId /\ SectionId(f) # ProjectId
              /\ FileId(f) = FileId(g) => f = g
              /\ SectionId(f) = SectionId(g) => f = g
BY DEF FileId, SectionId, ProjectId

(* What a step does to the files' and the sections' nodes.                 *)
FilesStay ==
    \A f \in Files : Has(store, FileId(f)) =>
        Has(store', FileId(f)) /\ store'.nodes[FileId(f)].print = store.nodes[FileId(f)].print

SectionsStay ==
    \A f \in Files : Has(store', SectionId(f)) =>
        Has(store, SectionId(f)) /\ store'.nodes[SectionId(f)].text = store.nodes[SectionId(f)].text

OneFileWritten(f, data) ==
    /\ Has(store', FileId(f)) /\ store'.nodes[FileId(f)] = data
    /\ \A g \in Files \ {f} : Has(store, FileId(g)) =>
          Has(store', FileId(g)) /\ store'.nodes[FileId(g)].print = store.nodes[FileId(g)].print

OneSectionWritten(f, data) ==
    /\ Has(store', SectionId(f)) /\ store'.nodes[SectionId(f)] = data
    /\ \A g \in Files \ {f} : Has(store', SectionId(g)) =>
          Has(store, SectionId(g)) /\ store'.nodes[SectionId(g)].text = store.nodes[SectionId(g)].text

LEMMA WritesFile ==
    ASSUME IsStore(store), NEW f \in Files, NEW data \in NodeData(Nat),
           store' = UpsertNode(store, FileId(f), data)
    PROVE  IsStore(store') /\ SectionsStay /\ OneFileWritten(f, data)
<1>1. /\ IsStore(store')
      /\ store'.nodes = [n \in DOMAIN store.nodes \cup {FileId(f)} |-> IF n = FileId(f) THEN data ELSE store.nodes[n]]
  BY UpsertedNode
<1> QED BY <1>1, IdsDiffer DEF SectionsStay, OneFileWritten, Has

LEMMA WritesSection ==
    ASSUME IsStore(store), NEW f \in Files, NEW data \in NodeData(Nat),
           store' = UpsertNode(store, SectionId(f), data)
    PROVE  IsStore(store') /\ FilesStay /\ OneSectionWritten(f, data)
<1>1. /\ IsStore(store')
      /\ store'.nodes = [n \in DOMAIN store.nodes \cup {SectionId(f)} |->
                           IF n = SectionId(f) THEN data ELSE store.nodes[n]]
  BY UpsertedNode
<1> QED BY <1>1, IdsDiffer DEF FilesStay, OneSectionWritten, Has

LEMMA WritesOther ==
    ASSUME IsStore(store),
           \/ UNCHANGED store
           \/ store' = UpsertNode(store, ProjectId, Plain(0))
           \/ \E x, y : store' = UpsertEdge(store, x, y) \/ store' = DeleteEdgesTouching(store, x)
                        \/ store' = MarkStale(store, x)
    PROVE  IsStore(store') /\ FilesStay /\ SectionsStay
<1>1. CASE UNCHANGED store
  BY <1>1 DEF FilesStay, SectionsStay
<1>2. CASE store' = UpsertNode(store, ProjectId, Plain(0))
  <2>1. Plain(0) \in NodeData(Nat)
    BY DEF Plain, NodeData
  <2>2. /\ IsStore(store')
        /\ store'.nodes = [n \in DOMAIN store.nodes \cup {ProjectId} |->
                             IF n = ProjectId THEN Plain(0) ELSE store.nodes[n]]
    BY <1>2, <2>1, UpsertedNode
  <2> QED BY <2>2, IdsDiffer DEF FilesStay, SectionsStay, Has
<1>3. ASSUME NEW x, NEW y, store' = UpsertEdge(store, x, y) \/ store' = DeleteEdgesTouching(store, x)
      PROVE  IsStore(store') /\ FilesStay /\ SectionsStay
  <2>1. IsStore(store') /\ store'.nodes = store.nodes
    BY <1>3, EdgesOnly
  <2> QED BY <2>1 DEF FilesStay, SectionsStay, Has
<1>4. ASSUME NEW x, store' = MarkStale(store, x)
      PROVE  IsStore(store') /\ FilesStay /\ SectionsStay
  <2>1. /\ IsStore(store')
        /\ DOMAIN store'.nodes = DOMAIN store.nodes
        /\ \A n \in DOMAIN store.nodes : /\ store'.nodes[n].print = store.nodes[n].print
                                         /\ store'.nodes[n].text = store.nodes[n].text
    BY <1>4, StaleNodes
  <2> QED BY <2>1 DEF FilesStay, SectionsStay, Has
<1> QED BY <1>1, <1>2, <1>3, <1>4

LEMMA DropsSections ==
    ASSUME IsStore(store), NEW f \in Files, store' = DeleteSections(store, f)
    PROVE  IsStore(store') /\ FilesStay /\ SectionsStay /\ ~Has(store', SectionId(f))
<1>1. /\ IsStore(store')
      /\ DOMAIN store'.nodes = DOMAIN store.nodes \ {SectionId(f)}
      /\ \A n \in DOMAIN store'.nodes : store'.nodes[n] = store.nodes[n]
  BY SectionsDropped, SMTT(30)
<1> QED BY <1>1, IdsDiffer DEF FilesStay, SectionsStay, Has

-----------------------------------------------------------------------------
(* The shape of the state: what an actor at a step is working on.          *)

SyncSteps  == {"check", "read", "node", "edges", "sections", "reread", "section", "link"}
QuerySteps == {"project", "contain", "list", "summary", "ask", "write", "look", "file",
               "filewrite", "finish", "hang", "restore"} \cup SyncSteps
RemapSteps == {"remap", "remapread", "remapfile", "remaplist", "remapsection"}
LoopSteps  == (QuerySteps \cup RemapSteps) \ {"project", "list", "finish"}

Functions ==
    /\ step = [a \in Actors |-> step[a]]
    /\ job = [a \in Actors |-> job[a]]
    /\ todo = [a \in Actors |-> todo[a]]
    /\ held = [a \in Actors |-> held[a]]
    /\ node = [a \in Actors |-> node[a]]
    /\ queue = [w \in Workers |-> queue[w]]
    /\ absent = [w \in Workers |-> absent[w]]
    /\ done = [w \in Workers |-> done[w]]
    /\ indexed = [w \in Workers |-> indexed[w]]
    /\ answer = [w \in Workers |-> answer[w]]

(* A file is removed, or has a version that is no older. *)
Beyond(f, v) == disk[f] = 0 \/ disk[f] >= v

World ==
    /\ IsStore(store)
    /\ edits \in Nat
    /\ disk \in [Files -> Nat]
    /\ \A f \in Files : disk[f] <= edits + 1
    /\ batches \in Seq([files : SUBSET Files, version : Nat])
    /\ \A b \in DOMAIN batches :
          /\ batches[b].files # {} /\ batches[b].version <= edits + 1
          /\ \A f \in batches[b].files : Beyond(f, batches[b].version)

Requests(n) == [kind : {"query"}, hint : SUBSET Files]
         \cup [kind : {"feedback"}, batch : 1..n]
         \cup [kind : {"changed"}, files : SUBSET Files]

Queues == \A w \in Workers : queue[w] \in Seq(Requests(Len(batches)))

ActorOK(a) ==
    /\ todo[a] \subseteq Files /\ held[a] \in Nat
    /\ step[a] \in LoopSteps => todo[a] # {}
    /\ step[a] \in {"write", "remapsection", "filewrite"} => node[a] \in NodeData(Nat)
    /\ step[a] \in {"restore", "remapfile"} => node[a] \in NodeData(Nat) \cup {NoNode}

WorkerOK(w) ==
    /\ step[w] \in QuerySteps \cup RemapSteps \cup {"idle", "dead", "plan"}
    /\ step[w] \in QuerySteps \cup {"plan"} =>
          job[w] \in [kind : {"query"}, hint : SUBSET Files, files : SUBSET Files]
    /\ step[w] \in RemapSteps =>
          \/ job[w].kind = "changed"
          \/ /\ job[w].kind = "feedback" /\ job[w].batch \in DOMAIN batches
             /\ todo[w] \subseteq batches[job[w].batch].files
    /\ \A d \in done[w] : d.batch \in DOMAIN batches
    /\ indexed[w] \in [Files -> Nat]
    /\ \A f \in Files : indexed[w][f] <= edits + 1

AuthorOK(a) ==
    /\ step[a] \in SyncSteps \cup {"idle", "notify", "wait"}
    /\ step[a] \in SyncSteps \cup {"notify"} =>
          /\ job[a] \in [kind : {"turn"}, files : (SUBSET Files) \ {{}}, version : Nat]
          /\ job[a].version <= edits + 1
          /\ \A f \in job[a].files : Beyond(f, job[a].version)

MemShape ==
    /\ Functions /\ World /\ Queues
    /\ \A a \in Actors : ActorOK(a)
    /\ \A w \in Workers : WorkerOK(w)
    /\ \A a \in Authors : AuthorOK(a)

(* What a step of a leaves of the others. *)
Untouched(b) ==
    /\ step'[b] = step[b] /\ job'[b] = job[b] /\ todo'[b] = todo[b]
    /\ held'[b] = held[b] /\ node'[b] = node[b]
    /\ b \in Workers => /\ absent'[b] = absent[b] /\ done'[b] = done[b]
                        /\ indexed'[b] = indexed[b] /\ answer'[b] = answer[b]

Framed(a) ==
    /\ Functions'
    /\ \A b \in Actors \ {a} : Untouched(b)
    /\ UNCHANGED <<disk, edits, batches>>

LEMMA SyncIsFramed ==
    ASSUME MemShape, NEW a \in Actors, Sync(a)
    PROVE  Framed(a)
<1> USE DEF MemShape, Functions, Framed, Untouched, diskVars, progress, mail, results, Goto, At, Actors
<1>1. CASE SyncMissing(a)
  BY <1>1, ZenonT(30) DEF SyncMissing, Synced, Loop, NextFile, Forget
<1>2. CASE SyncExists(a)
  BY <1>2 DEF SyncExists
<1>3. CASE ReadFile(a)
  BY <1>3 DEF ReadFile
<1>4. CASE FileVanished(a)
  BY <1>4, ZenonT(30) DEF FileVanished, Die, Rest, Forget, NoList, NoAbsence
<1>5. CASE UpsertFile(a)
  BY <1>5 DEF UpsertFile
<1>6. CASE DropEdges(a)
  BY <1>6 DEF DropEdges
<1>7. CASE DropSections(a)
  BY <1>7 DEF DropSections
<1>8. CASE ReadSections(a)
  BY <1>8, ZenonT(30) DEF ReadSections, Synced, Loop, NextFile, Forget
<1>9. CASE UpsertSection(a)
  BY <1>9 DEF UpsertSection
<1>10. CASE LinkSection(a)
  BY <1>10 DEF LinkSection, Synced, Loop, NextFile, Forget
<1> QED BY <1>1, <1>2, <1>3, <1>4, <1>5, <1>6, <1>7, <1>8, <1>9, <1>10 DEF Sync

LEMMA QueryIsFramed ==
    ASSUME MemShape, NEW w \in Workers, Query(w)
    PROVE  Framed(w)
<1> USE DEF MemShape, Functions, Framed, Untouched, diskVars, progress, mail, results, Goto, At, Actors
<1>1. CASE ReceiveQuery(w)
  BY <1>1 DEF ReceiveQuery, Take
<1>2. CASE PlannerFails(w)
  BY <1>2 DEF PlannerFails, Die, Forget, NoList, NoAbsence
<1>3. CASE PlanRejected(w)
  BY <1>3 DEF PlanRejected, Respond, Rest, Forget, NoList
<1>4. CASE PlanFinishes(w)
  BY <1>4, ZenonT(30) DEF PlanFinishes, Respond, Rest, Forget, NoList
<1>5. CASE PlanTraversal(w)
  BY <1>5 DEF PlanTraversal
<1>6. CASE NothingToGrow(w)
  BY <1>6 DEF NothingToGrow, Respond, Rest, Forget, NoList
<1>7. CASE UpsertProject(w)
  BY <1>7 DEF UpsertProject, Loop, Forget
<1>8. CASE Contain(w)
  BY <1>8 DEF Contain, Loop, NextFile, Forget
<1>9. CASE HangFile(w)
  BY <1>9 DEF HangFile
<1>10. CASE RestoreFile(w)
  BY <1>10 DEF RestoreFile, NextFile, Forget
<1>11. CASE ListSections(w)
  BY <1>11 DEF ListSections, Loop, Forget
<1>12. CASE KeepSummary(w)
  BY <1>12 DEF KeepSummary, NextSection, Loop, NextFile, Forget
<1>13. CASE ReadSection(w)
  BY <1>13 DEF ReadSection
<1>14. CASE SectionSummarized(w)
  BY <1>14 DEF SectionSummarized
<1>15. CASE SummaryFails(w)
  BY <1>15 DEF SummaryFails
<1>16. CASE WriteSummary(w)
  BY <1>16 DEF WriteSummary
<1>17. CASE LookAgain(w)
  BY <1>17 DEF LookAgain, NextSection, Loop, NextFile, Forget
<1>18. CASE SkipFileSummary(w)
  BY <1>18 DEF SkipFileSummary, NextFile, Forget
<1>19. CASE FileSummarized(w)
  BY <1>19 DEF FileSummarized
<1>20. CASE WriteFileSummary(w)
  BY <1>20 DEF WriteFileSummary, NextFile, Forget
<1>21. CASE FinishQuery(w)
  BY <1>21, ZenonT(30) DEF FinishQuery, Respond, Rest, Forget, NoList
<1> QED BY <1>1, <1>2, <1>3, <1>4, <1>5, <1>6, <1>7, <1>8, <1>9, <1>10, <1>11, <1>12, <1>13, <1>14, <1>15,
           <1>16, <1>17, <1>18, <1>19, <1>20, <1>21 DEF Query

LEMMA RemapIsFramed ==
    ASSUME MemShape, NEW w \in Workers, Remap(w)
    PROVE  Framed(w)
<1> USE DEF MemShape, Functions, Framed, Untouched, diskVars, progress, mail, results, Goto, At, Actors
<1>1. CASE TakeKnown(w)
  BY <1>1 DEF TakeKnown, Take
<1>2. CASE TakeFeedback(w)
  BY <1>2 DEF TakeFeedback, Take, Loop, Forget
<1>3. CASE TakeChanged(w)
  BY <1>3 DEF TakeChanged, Take, Loop, Forget
<1>4. CASE RemapMissing(w)
  BY <1>4 DEF RemapMissing, FileDone, NextFile, Forget, NoAbsence
<1>5. CASE RemapExists(w)
  BY <1>5 DEF RemapExists
<1>6. CASE RemapRead(w)
  BY <1>6 DEF RemapRead
<1>7. CASE RemapVanished(w)
  BY <1>7 DEF RemapVanished, FileDone, NextFile, Forget, NoAbsence
<1>8. CASE RemapFails(w)
  BY <1>8, ZenonT(30) DEF RemapFails, Rest, Die, Forget, NoList, NoAbsence
<1>9. CASE RemapFile(w)
  BY <1>9 DEF RemapFile
<1>10. CASE RemapList(w)
  BY <1>10, ZenonT(30) DEF RemapList, FileDone, NextFile, Forget, NoAbsence
<1>11. CASE RemapSection(w)
  BY <1>11 DEF RemapSection, FileDone, NextFile, Forget, NoAbsence
<1> QED BY <1>1, <1>2, <1>3, <1>4, <1>5, <1>6, <1>7, <1>8, <1>9, <1>10, <1>11 DEF Remap

-----------------------------------------------------------------------------
(* The shape is kept.                                                      *)

LEMMA LoopMoves ==
    ASSUME Functions, NEW a \in Actors, NEW fs, NEW body, NEW after, Loop(a, fs, body, after)
    PROVE  /\ step'[a] = IF fs = {} THEN after ELSE body
           /\ todo'[a] = fs /\ held'[a] = 0 /\ node'[a] = NoNode
BY DEF Functions, Loop, Forget, Goto

LEMMA NextMoves ==
    ASSUME Functions, NEW a \in Actors, NEW again, NEW after, NextFile(a, again, after)
    PROVE  /\ step'[a] = IF AnyLeft(a) THEN again ELSE after
           /\ todo'[a] = todo[a] \ {Current(a)} /\ held'[a] = 0 /\ node'[a] = NoNode
BY DEF Functions, NextFile, Forget, Goto

LEMMA RestMoves ==
    ASSUME Functions, NEW a \in Actors, Rest(a)
    PROVE  step'[a] = "idle" /\ todo'[a] = {} /\ held'[a] = 0 /\ node'[a] = NoNode
BY DEF Functions, Rest, Forget, Goto

LEMMA CurrentIsThere ==
    ASSUME MemShape, NEW a \in Actors, step[a] \in LoopSteps
    PROVE  Current(a) \in todo[a] /\ Current(a) \in Files
<1>1. todo[a] \in SUBSET Files /\ todo[a] # {}
  BY DEF MemShape, ActorOK
<1> QED BY <1>1, FirstIsThere DEF Current

LEMMA ShapeNext ==
    ASSUME MemShape, NEW a \in Actors, Framed(a), IsStore(store'), Queues',
           ActorOK(a)', a \in Workers => WorkerOK(a)', a \in Authors => AuthorOK(a)'
    PROVE  MemShape'
<1>1. World'
  BY DEF MemShape, World, Framed, Beyond
<1>2. ASSUME NEW b \in Actors \ {a}
      PROVE  ActorOK(b)'
  BY <1>2 DEF MemShape, Framed, Untouched, ActorOK
<1>3. ASSUME NEW w \in Workers \ {a}
      PROVE  WorkerOK(w)'
  <2>1. Untouched(w) /\ w \in Actors /\ WorkerOK(w) /\ UNCHANGED <<edits, batches>>
    BY DEF Framed, MemShape, Actors
  <2> QED BY <2>1 DEF Untouched, WorkerOK
<1>4. ASSUME NEW b \in Authors \ {a}
      PROVE  AuthorOK(b)'
  <2>1. Untouched(b) /\ b \in Actors /\ AuthorOK(b) /\ UNCHANGED <<edits, disk>>
    BY DEF Framed, MemShape, Actors
  <2> QED BY <2>1 DEF Untouched, AuthorOK, Beyond
<1> QED BY <1>1, <1>2, <1>3, <1>4 DEF MemShape, Framed

LEMMA QueuesStay ==
    ASSUME MemShape, NEW a \in Actors, Framed(a), NEW w \in Workers,
           \/ UNCHANGED queue
           \/ queue' = [queue EXCEPT ![w] = <<>>]
           \/ queue[w] # <<>> /\ queue' = [queue EXCEPT ![w] = Tail(@)]
    PROVE  Queues'
<1>1. \A v \in Workers : queue'[v] = queue[v] \/ queue'[v] = <<>> \/ (queue[v] # <<>> /\ queue'[v] = Tail(queue[v]))
  BY DEF MemShape, Functions
<1>2. UNCHANGED batches /\ \A v \in Workers : queue[v] \in Seq(Requests(Len(batches)))
  BY DEF MemShape, Queues, Framed
<1>3. ASSUME NEW S, NEW q \in Seq(S), q # <<>>
      PROVE  Tail(q) \in Seq(S)
  BY <1>3
<1>4. ASSUME NEW S
      PROVE  <<>> \in Seq(S)
  OBVIOUS
<1> QED BY <1>1, <1>2, <1>3, <1>4 DEF Queues

LEMMA SyncedMoves ==
    ASSUME MemShape, NEW a \in Actors, step[a] \in SyncSteps, Synced(a)
    PROVE  /\ ActorOK(a)'
           /\ a \in Workers => step'[a] \in {"hang", "idle", "check", "list"}
           /\ a \in Authors => step'[a] \in {"check", "notify"}
<1>1. Functions /\ ActorOK(a) /\ Current(a) \in todo[a]
  BY CurrentIsThere DEF MemShape, LoopSteps, QuerySteps, SyncSteps
<1>2. CASE a \in Workers /\ ~llm /\ ~AnyLeft(a)
  <2>1. Loop(a, job[a].files, "hang", "idle")
    BY <1>2 DEF Synced
  <2>2. job[a].files \subseteq Files
    BY <1>2 DEF MemShape, WorkerOK, QuerySteps
  <2>3. /\ step'[a] = IF job[a].files = {} THEN "idle" ELSE "hang"
        /\ todo'[a] = job[a].files /\ held'[a] = 0 /\ node'[a] = NoNode
    BY <1>1, <2>1, LoopMoves
  <2> QED BY <1>2, <2>2, <2>3, MemoryAssumption DEF ActorOK, LoopSteps, QuerySteps, RemapSteps, SyncSteps
<1>3. CASE ~(a \in Workers /\ ~llm /\ ~AnyLeft(a))
  <2>1. NextFile(a, "check", IF a \in Authors THEN "notify" ELSE "list")
    BY <1>3 DEF Synced
  <2>2. /\ step'[a] = IF AnyLeft(a) THEN "check" ELSE IF a \in Authors THEN "notify" ELSE "list"
        /\ todo'[a] = todo[a] \ {Current(a)} /\ held'[a] = 0 /\ node'[a] = NoNode
    BY <1>1, <2>1, NextMoves
  <2>3. AnyLeft(a) => todo'[a] # {}
    BY <1>1, <2>2 DEF AnyLeft
  <2> QED BY <1>1, <2>2, <2>3, MemoryAssumption DEF ActorOK, LoopSteps, QuerySteps, RemapSteps, SyncSteps, Actors
<1> QED BY <1>2, <1>3

LEMMA SyncKeepsShape ==
    ASSUME MemShape, NEW a \in Actors, Sync(a)
    PROVE  MemShape'
<1>1. Framed(a)
  BY SyncIsFramed
<1>2. /\ step[a] \in SyncSteps
      /\ Functions /\ World /\ ActorOK(a)
      /\ a \in Workers => WorkerOK(a)
      /\ a \in Authors => AuthorOK(a)
      /\ Current(a) \in todo[a] /\ Current(a) \in Files
  <2>1. step[a] \in SyncSteps
    BY DEF Sync, SyncSteps, At, SyncMissing, SyncExists, ReadFile, FileVanished, UpsertFile, DropEdges,
           DropSections, ReadSections, UpsertSection, LinkSection
  <2> QED BY <2>1, CurrentIsThere DEF MemShape, LoopSteps, QuerySteps, SyncSteps
<1>3. Queues'
  <2>1. CASE queue' = queue
    BY <1>1, <2>1 DEF MemShape, Queues, Framed
  <2>2. CASE FileVanished(a)
    <3>1. UNCHANGED queue \/ (a \in Workers /\ queue' = [queue EXCEPT ![a] = <<>>])
      BY <2>2 DEF FileVanished, Die, mail
    <3> QED BY <1>1, <2>1, <3>1, QueuesStay
  <2> QED BY <2>1, <2>2 DEF Sync, SyncMissing, SyncExists, ReadFile, UpsertFile, DropEdges,
           DropSections, ReadSections, UpsertSection, LinkSection, mail
<1>4. IsStore(store')
  <2>1. Plain(held[a]) \in NodeData(Nat)
    BY <1>2 DEF Plain, NodeData, ActorOK
  <2>2. CASE UpsertFile(a)
    BY <1>2, <2>1, <2>2, WritesFile DEF UpsertFile, World
  <2>3. CASE UpsertSection(a)
    BY <1>2, <2>1, <2>3, WritesSection DEF UpsertSection, World
  <2>4. CASE DropSections(a)
    BY <1>2, <2>4, DropsSections DEF DropSections, World
  <2>5. CASE ~(UpsertFile(a) \/ UpsertSection(a) \/ DropSections(a))
    <3>1. UNCHANGED store
          \/ \E x, y : store' = UpsertEdge(store, x, y) \/ store' = DeleteEdgesTouching(store, x)
                       \/ store' = MarkStale(store, x)
      BY <2>5 DEF Sync, SyncMissing, SyncExists, ReadFile, FileVanished, DropEdges, ReadSections, LinkSection
    <3> QED BY <1>2, <3>1, WritesOther DEF World
  <2> QED BY <2>2, <2>3, <2>4, <2>5
<1>5. CASE SyncMissing(a) \/ LinkSection(a) \/ (ReadSections(a) /\ Synced(a))
  <2>1. Synced(a) /\ UNCHANGED <<job, done, indexed>>
    BY <1>5 DEF SyncMissing, LinkSection, ReadSections, results
  <2>2. /\ ActorOK(a)'
        /\ a \in Workers => step'[a] \in {"hang", "idle", "check", "list"}
        /\ a \in Authors => step'[a] \in {"check", "notify"}
    BY <1>2, <2>1, SyncedMoves
  <2>3. a \in Workers => WorkerOK(a)'
    BY <1>1, <1>2, <2>1, <2>2 DEF WorkerOK, QuerySteps, RemapSteps, SyncSteps, Framed
  <2>4. a \in Authors => AuthorOK(a)'
    BY <1>1, <1>2, <2>1, <2>2 DEF AuthorOK, SyncSteps, Framed, Beyond
  <2> QED BY <1>1, <1>3, <1>4, <2>2, <2>3, <2>4, ShapeNext
<1>6. CASE FileVanished(a)
  <2>1. /\ step'[a] \in {"idle", "dead"}
        /\ a \in Authors => step'[a] = "idle"
        /\ todo'[a] = {} /\ held'[a] = 0 /\ indexed' = indexed
        /\ a \in Workers => done'[a] \in {done[a], {}}
    BY <1>2, <1>6, MemoryAssumption DEF FileVanished, Die, Rest, Forget, Goto, Functions, results
  <2>2. ActorOK(a)'
    BY <2>1 DEF ActorOK, LoopSteps, QuerySteps, RemapSteps, SyncSteps
  <2>3. a \in Workers => WorkerOK(a)'
    BY <1>1, <1>2, <2>1 DEF WorkerOK, QuerySteps, RemapSteps, SyncSteps, Framed
  <2>4. a \in Authors => AuthorOK(a)'
    BY <1>1, <1>2, <2>1 DEF AuthorOK, SyncSteps
  <2> QED BY <1>1, <1>3, <1>4, <2>2, <2>3, <2>4, ShapeNext
<1>7. CASE \/ SyncExists(a) \/ ReadFile(a) \/ UpsertFile(a) \/ DropEdges(a) \/ DropSections(a) \/ UpsertSection(a)
           \/ (ReadSections(a) /\ ~Synced(a))
  <2>1. /\ step'[a] \in SyncSteps /\ todo'[a] = todo[a] /\ job' = job /\ done' = done
        /\ held'[a] = held[a] \/ held'[a] = disk[Current(a)]
        /\ \/ indexed' = indexed
           \/ a \in Workers /\ indexed' = [indexed EXCEPT ![a][Current(a)] = disk[Current(a)]]
    BY <1>2, <1>7 DEF SyncExists, ReadFile, UpsertFile, DropEdges, DropSections, UpsertSection, ReadSections,
                      Goto, Functions, SyncSteps, results, progress
  <2>2. ActorOK(a)'
    BY <1>2, <2>1 DEF ActorOK, LoopSteps, QuerySteps, RemapSteps, SyncSteps, World
  <2>3. a \in Workers => indexed'[a] \in [Files -> Nat] /\ \A f \in Files : indexed'[a][f] <= edits + 1
    <3>1. CASE indexed' = indexed
      BY <1>1, <1>2, <3>1 DEF WorkerOK, Framed
    <3>2. CASE a \in Workers /\ indexed' = [indexed EXCEPT ![a][Current(a)] = disk[Current(a)]]
      <4>1. indexed'[a] = [indexed[a] EXCEPT ![Current(a)] = disk[Current(a)]]
        BY <1>2, <3>2 DEF Functions
      <4>2. disk[Current(a)] \in Nat /\ disk[Current(a)] <= edits + 1
        BY <1>2 DEF World
      <4> QED BY <1>2, <3>2, <4>1, <4>2 DEF WorkerOK
    <3> QED BY <2>1, <3>1, <3>2
  <2>4. a \in Workers => WorkerOK(a)'
    BY <1>1, <1>2, <2>1, <2>3 DEF WorkerOK, QuerySteps, RemapSteps, SyncSteps, Framed
  <2>5. a \in Authors => AuthorOK(a)'
    BY <1>1, <1>2, <2>1 DEF AuthorOK, SyncSteps, Framed, Beyond
  <2> QED BY <1>1, <1>3, <1>4, <2>2, <2>4, <2>5, ShapeNext
<1> QED BY <1>5, <1>6, <1>7 DEF Sync

PlainSteps == LoopSteps \ {"write", "remapsection", "filewrite", "restore", "remapfile"}

LEMMA LoopIsOK ==
    ASSUME MemShape, NEW a \in Actors, NEW fs \in SUBSET Files, NEW body, NEW after,
           Loop(a, fs, body, after), body \in PlainSteps, after \notin LoopSteps
    PROVE  ActorOK(a)' /\ todo'[a] = fs /\ step'[a] = (IF fs = {} THEN after ELSE body)
<1>1. /\ step'[a] = IF fs = {} THEN after ELSE body
      /\ todo'[a] = fs /\ held'[a] = 0 /\ node'[a] = NoNode
  BY LoopMoves DEF MemShape
<1> QED BY <1>1 DEF ActorOK, PlainSteps, LoopSteps, QuerySteps, RemapSteps, SyncSteps

LEMMA NextIsOK ==
    ASSUME MemShape, NEW a \in Actors, step[a] \in LoopSteps, NEW again, NEW after,
           NextFile(a, again, after), again \in PlainSteps, AnyLeft(a) \/ after \notin LoopSteps
    PROVE  /\ ActorOK(a)'
           /\ todo'[a] = todo[a] \ {Current(a)} /\ step'[a] = (IF AnyLeft(a) THEN again ELSE after)
<1>1. /\ step'[a] = IF AnyLeft(a) THEN again ELSE after
      /\ todo'[a] = todo[a] \ {Current(a)} /\ held'[a] = 0 /\ node'[a] = NoNode
  BY NextMoves DEF MemShape
<1>2. Current(a) \in todo[a] /\ todo[a] \subseteq Files
  BY CurrentIsThere DEF MemShape, ActorOK
<1>3. AnyLeft(a) => todo'[a] # {}
  BY <1>1, <1>2 DEF AnyLeft
<1> QED BY <1>1, <1>2, <1>3 DEF ActorOK, PlainSteps, LoopSteps, QuerySteps, RemapSteps, SyncSteps

LEMMA WorkerNext ==
    ASSUME MemShape, NEW w \in Workers, Framed(w), IsStore(store'), Queues', ActorOK(w)', WorkerOK(w)'
    PROVE  MemShape'
<1>1. w \in Actors /\ w \notin Authors
  BY MemoryAssumption DEF Actors
<1> QED BY <1>1, ShapeNext

LEMMA AtRest ==
    ASSUME MemShape, NEW w \in Workers, Framed(w), step'[w] \in {"idle", "dead"}, todo'[w] \subseteq Files,
           held'[w] \in Nat, done'[w] \subseteq done[w], indexed'[w] = indexed[w]
    PROVE  ActorOK(w)' /\ WorkerOK(w)'
<1>1. WorkerOK(w) /\ UNCHANGED <<edits, batches>>
  BY DEF MemShape, Framed
<1> QED BY <1>1 DEF ActorOK, WorkerOK, LoopSteps, QuerySteps, RemapSteps, SyncSteps

LEMMA QueryGoesOn ==
    ASSUME MemShape, NEW w \in Workers, Framed(w), step'[w] \in QuerySteps,
           job'[w] \in [kind : {"query"}, hint : SUBSET Files, files : SUBSET Files],
           done'[w] = done[w], indexed'[w] = indexed[w]
    PROVE  WorkerOK(w)'
<1>1. WorkerOK(w) /\ UNCHANGED <<edits, batches>>
  BY DEF MemShape, Framed
<1> QED BY <1>1 DEF WorkerOK, QuerySteps, RemapSteps, SyncSteps

LEMMA TakesFirst ==
    ASSUME MemShape, NEW w \in Workers, NEW kind, Take(w, kind)
    PROVE  /\ Head(queue[w]) \in Requests(Len(batches)) /\ Head(queue[w]).kind = kind
           /\ step[w] = "idle" /\ queue[w] # <<>> /\ queue' = [queue EXCEPT ![w] = Tail(@)]
           /\ UNCHANGED <<sent, batches>>
<1>1. queue[w] \in Seq(Requests(Len(batches))) /\ queue[w] # <<>>
  BY DEF MemShape, Queues, Take
<1>2. ASSUME NEW S, NEW q \in Seq(S), q # <<>>
      PROVE  Head(q) \in S
  BY <1>2
<1> QED BY <1>1, <1>2 DEF Take, At

LEMMA SelectionsAreFiles ==
    ASSUME NEW hint \in SUBSET Files, NEW files \in Selections(hint)
    PROVE  files \in SUBSET Files
BY DEF Selections, Upto, Existing

LEMMA ReceiveKeepsShape ==
    ASSUME MemShape, NEW w \in Workers, ReceiveQuery(w)
    PROVE  MemShape'
<1>1. Framed(w) /\ Functions /\ ActorOK(w) /\ WorkerOK(w) /\ w \in Actors
  BY QueryIsFramed DEF Query, MemShape, Actors
<1>2. Take(w, "query")
  BY DEF ReceiveQuery
<1>3. Head(queue[w]) \in Requests(Len(batches)) /\ Head(queue[w]).kind = "query" /\ step[w] = "idle"
      /\ queue[w] # <<>> /\ queue' = [queue EXCEPT ![w] = Tail(@)]
  BY <1>2, TakesFirst
<1> DEFINE hint == Head(queue[w]).hint
<1>4. hint \in SUBSET Files
  BY <1>3 DEF Requests
<1>5. /\ step'[w] \in {"idle", "plan", "project"}
      /\ \E files \in Selections(hint) :
           job'[w] = IF Mechanical(hint) THEN NoJob
                     ELSE [kind |-> "query", hint |-> hint, files |-> IF llm THEN {} ELSE files]
      /\ step'[w] \in {"plan", "project"} => ~Mechanical(hint)
      /\ indexed'[w] = [f \in Files |-> 0]
      /\ UNCHANGED <<store, todo, held, node, done>>
  BY <1>1 DEF ReceiveQuery, Goto, Functions
<1> HIDE DEF hint
<1>6. step'[w] \in {"plan", "project"} =>
        job'[w] \in [kind : {"query"}, hint : SUBSET Files, files : SUBSET Files]
  BY <1>4, <1>5, SelectionsAreFiles
<1>7. ActorOK(w)'
  BY <1>1, <1>5 DEF ActorOK, LoopSteps, QuerySteps, RemapSteps, SyncSteps
<1>8. edits \in Nat /\ UNCHANGED <<edits, batches>>
  BY <1>1 DEF MemShape, World, Framed
<1>9. WorkerOK(w)'
  BY <1>1, <1>5, <1>6, <1>8 DEF WorkerOK, QuerySteps, RemapSteps, SyncSteps
<1>10. Queues'
  BY <1>1, <1>3, QueuesStay
<1>11. IsStore(store')
  BY <1>5 DEF MemShape, World
<1> QED BY <1>1, <1>7, <1>9, <1>10, <1>11, WorkerNext

LEMMA QueryEndKeepsShape ==
    ASSUME MemShape, NEW w \in Workers,
           PlannerFails(w) \/ PlanRejected(w) \/ PlanFinishes(w) \/ NothingToGrow(w) \/ FinishQuery(w)
    PROVE  MemShape'
<1>1. Framed(w) /\ Functions /\ WorkerOK(w) /\ w \in Actors
  BY QueryIsFramed DEF Query, MemShape, Actors
<1>2. /\ UNCHANGED <<store, indexed>>
      /\ UNCHANGED queue \/ queue' = [queue EXCEPT ![w] = <<>>]
      /\ step'[w] \in {"idle", "dead"} /\ todo'[w] = {} /\ held'[w] = 0 /\ done'[w] \subseteq done[w]
  <2>1. CASE PlannerFails(w)
    BY <1>1, <2>1 DEF PlannerFails, Die, Goto, Forget, Functions
  <2>2. CASE \E found : Respond(w, found)
    BY <1>1, <2>2 DEF Respond, Rest, Goto, Forget, Functions, mail
  <2> QED BY <2>1, <2>2 DEF PlanRejected, PlanFinishes, NothingToGrow, FinishQuery
<1>3. ActorOK(w)' /\ WorkerOK(w)'
  BY <1>1, <1>2, AtRest
<1>4. Queues'
  BY <1>1, <1>2, QueuesStay
<1>5. IsStore(store')
  BY <1>2 DEF MemShape, World
<1> QED BY <1>1, <1>3, <1>4, <1>5, WorkerNext

LEMMA FetchedNode ==
    ASSUME IsStore(store), NEW id, Has(store, id)
    PROVE  store.nodes[id] \in NodeData(Nat)
BY DEF IsStore, Has

QueryUnderWay(w) ==
    \/ PlanTraversal(w) \/ UpsertProject(w) \/ Contain(w) \/ HangFile(w) \/ RestoreFile(w)
    \/ ListSections(w) \/ KeepSummary(w) \/ ReadSection(w) \/ SectionSummarized(w)
    \/ SummaryFails(w) \/ WriteSummary(w) \/ LookAgain(w) \/ SkipFileSummary(w)
    \/ FileSummarized(w) \/ WriteFileSummary(w)

LEMMA QueryMoves ==
    ASSUME MemShape, NEW w \in Workers, QueryUnderWay(w)
    PROVE  /\ Framed(w) /\ Functions /\ ActorOK(w) /\ WorkerOK(w) /\ w \in Actors
           /\ IsStore(store)
           /\ step[w] \in QuerySteps \cup {"plan"}
           /\ step[w] \in LoopSteps => Current(w) \in todo[w] /\ Current(w) \in Files
           /\ job[w] \in [kind : {"query"}, hint : SUBSET Files, files : SUBSET Files]
           /\ UNCHANGED <<queue, sent, done, acked, absent, indexed, answer>>
<1>1. Framed(w) /\ Functions /\ ActorOK(w) /\ WorkerOK(w) /\ w \in Actors /\ IsStore(store)
  BY QueryIsFramed DEF Query, QueryUnderWay, MemShape, Actors, World
<1>2. step[w] \in QuerySteps \cup {"plan"}
  BY DEF QueryUnderWay, QuerySteps, At, PlanTraversal, UpsertProject, Contain, HangFile, RestoreFile, ListSections,
         KeepSummary, ReadSection, SectionSummarized, SummaryFails, WriteSummary, LookAgain, SkipFileSummary,
         FileSummarized, WriteFileSummary
<1>3. UNCHANGED <<queue, sent, done, acked, absent, indexed, answer>>
  BY DEF QueryUnderWay, mail, results, PlanTraversal, UpsertProject, Contain, HangFile, RestoreFile, ListSections,
         KeepSummary, ReadSection, SectionSummarized, SummaryFails, WriteSummary, LookAgain, SkipFileSummary,
         FileSummarized, WriteFileSummary
<1> QED BY <1>1, <1>2, <1>3, CurrentIsThere DEF WorkerOK

LEMMA QueryStore ==
    ASSUME MemShape, NEW w \in Workers, QueryUnderWay(w)
    PROVE  /\ IsStore(store')
           /\ WriteSummary(w) => /\ FilesStay
                                 /\ \E d \in NodeData(Nat) : OneSectionWritten(Current(w), d)
                                                             /\ d.text \in {held[w], node[w].text}
           /\ WriteFileSummary(w) => /\ SectionsStay
                                     /\ \E d \in NodeData(Nat) : OneFileWritten(Current(w), d)
                                                                 /\ d.print = node[w].print
           /\ RestoreFile(w) => /\ SectionsStay
                                /\ \/ FilesStay
                                   \/ /\ node[w] # NoNode /\ node[w] \in NodeData(Nat)
                                      /\ OneFileWritten(Current(w), node[w])
           /\ ~(WriteSummary(w) \/ RestoreFile(w) \/ WriteFileSummary(w)) => FilesStay /\ SectionsStay
<1>1. /\ ActorOK(w) /\ IsStore(store)
      /\ step[w] \in LoopSteps => Current(w) \in Files
  BY QueryMoves
<1>2. CASE WriteSummary(w)
  <2>1. step[w] = "write" /\ node[w] \in NodeData(Nat) /\ held[w] \in Nat /\ Current(w) \in Files
    BY <1>1, <1>2 DEF WriteSummary, At, ActorOK, LoopSteps, QuerySteps
  <2>2. PICK text \in {held[w], node[w].text} :
          store' = UpsertNode(store, SectionId(Current(w)), [print |-> node[w].print, text |-> text, fresh |-> TRUE])
    BY <1>2 DEF WriteSummary
  <2> DEFINE d == [print |-> node[w].print, text |-> text, fresh |-> TRUE]
  <2>3. d \in NodeData(Nat) /\ d.text \in {held[w], node[w].text}
    BY <2>1 DEF NodeData
  <2>4. store' = UpsertNode(store, SectionId(Current(w)), d)
    BY <2>2
  <2> HIDE DEF d
  <2>5. IsStore(store') /\ FilesStay /\ OneSectionWritten(Current(w), d)
    BY <1>1, <2>1, <2>3, <2>4, WritesSection
  <2>6. ~RestoreFile(w) /\ ~WriteFileSummary(w)
    BY <2>1 DEF RestoreFile, WriteFileSummary, At
  <2> QED BY <1>2, <2>3, <2>5, <2>6
<1>3. CASE WriteFileSummary(w)
  <2>1. step[w] = "filewrite" /\ node[w] \in NodeData(Nat) /\ Current(w) \in Files
    BY <1>1, <1>3 DEF WriteFileSummary, At, ActorOK, LoopSteps, QuerySteps
  <2> DEFINE d == [print |-> node[w].print, text |-> node[w].text, fresh |-> TRUE]
  <2>2. d \in NodeData(Nat) /\ d.print = node[w].print
    BY <2>1 DEF NodeData
  <2>3. store' = UpsertNode(store, FileId(Current(w)), d)
    BY <1>3 DEF WriteFileSummary
  <2> HIDE DEF d
  <2>4. IsStore(store') /\ SectionsStay /\ OneFileWritten(Current(w), d)
    BY <1>1, <2>1, <2>2, <2>3, WritesFile
  <2>5. ~WriteSummary(w) /\ ~RestoreFile(w)
    BY <2>1 DEF WriteSummary, RestoreFile, At
  <2> QED BY <1>3, <2>2, <2>4, <2>5
<1>4. CASE RestoreFile(w)
  <2>1. step[w] = "restore" /\ node[w] \in NodeData(Nat) \cup {NoNode} /\ Current(w) \in Files
    BY <1>1, <1>4 DEF RestoreFile, At, ActorOK, LoopSteps, QuerySteps
  <2>2. ~WriteSummary(w) /\ ~WriteFileSummary(w)
    BY <2>1 DEF WriteSummary, WriteFileSummary, At
  <2>3. CASE node[w] = NoNode
    BY <1>1, <1>4, <2>2, <2>3, WritesOther DEF RestoreFile
  <2>4. CASE node[w] # NoNode
    <3>1. store' = UpsertNode(store, FileId(Current(w)), node[w]) /\ node[w] \in NodeData(Nat)
      BY <1>4, <2>1, <2>4 DEF RestoreFile
    <3>2. IsStore(store') /\ SectionsStay /\ OneFileWritten(Current(w), node[w])
      BY <1>1, <2>1, <3>1, WritesFile
    <3> QED BY <1>4, <2>2, <2>4, <3>1, <3>2
  <2> QED BY <2>3, <2>4
<1>5. CASE ~(WriteSummary(w) \/ RestoreFile(w) \/ WriteFileSummary(w))
  <2>1. \/ UNCHANGED store
        \/ store' = UpsertNode(store, ProjectId, Plain(0))
        \/ \E x, y : store' = UpsertEdge(store, x, y)
    BY <1>5 DEF QueryUnderWay, PlanTraversal, UpsertProject, Contain, HangFile, ListSections,
         KeepSummary, ReadSection, SectionSummarized, SummaryFails, LookAgain, SkipFileSummary, FileSummarized
  <2> QED BY <1>1, <1>5, <2>1, WritesOther
<1> QED BY <1>2, <1>3, <1>4, <1>5

LEMMA QueryKeepsShape ==
    ASSUME MemShape, NEW w \in Workers, QueryUnderWay(w)
    PROVE  MemShape'
<1> DEFINE Goes == ActorOK(w)' /\ step'[w] \in QuerySteps
                   /\ job'[w] \in [kind : {"query"}, hint : SUBSET Files, files : SUBSET Files]
           Ends == step'[w] = "idle" /\ todo'[w] \subseteq Files /\ held'[w] \in Nat
<1>1. /\ Framed(w) /\ Functions /\ ActorOK(w) /\ WorkerOK(w) /\ w \in Actors
      /\ IsStore(store)
      /\ step[w] \in LoopSteps => Current(w) \in todo[w] /\ Current(w) \in Files
      /\ job[w] \in [kind : {"query"}, hint : SUBSET Files, files : SUBSET Files]
      /\ UNCHANGED <<queue, done, indexed>>
  BY QueryMoves
<1>2. job[w].files \in SUBSET Files /\ job[w].hint \in SUBSET Files
  BY <1>1
<1> USE DEF LoopSteps, PlainSteps, QuerySteps, RemapSteps, SyncSteps
<1>3. ASSUME PlanTraversal(w) PROVE Goes
  <2>1. step'[w] = "project" /\ UNCHANGED <<todo, held, node>>
        /\ \E files \in Selections(job[w].hint) :
              job'[w] = [kind |-> "query", hint |-> job[w].hint, files |-> files]
    BY <1>1, <1>3 DEF PlanTraversal, Goto, Functions
  <2>2. job'[w] \in [kind : {"query"}, hint : SUBSET Files, files : SUBSET Files]
    BY <1>2, <2>1, SelectionsAreFiles
  <2>3. ActorOK(w)'
    BY <1>1, <2>1 DEF ActorOK
  <2> QED BY <2>1, <2>2, <2>3
<1>4. ASSUME UpsertProject(w) PROVE Goes
  BY <1>1, <1>2, <1>4, LoopIsOK DEF UpsertProject
<1>5. ASSUME Contain(w) PROVE Goes
  <2>1. step[w] = "contain" /\ job' = job
    BY <1>5 DEF Contain, At
  <2> QED BY <1>1, <1>2, <1>5, <2>1, LoopIsOK, NextIsOK DEF Contain
<1>6. ASSUME HangFile(w) PROVE Goes
  <2>1. /\ step'[w] = "restore" /\ UNCHANGED <<job, todo, held>> /\ step[w] = "hang"
        /\ node'[w] = NoNode \/ (Has(store, FileId(Current(w))) /\ node'[w] = store.nodes[FileId(Current(w))])
    BY <1>1, <1>6 DEF HangFile, Goto, Functions, At
  <2> QED BY <1>1, <2>1, FetchedNode DEF ActorOK
<1>7. ASSUME RestoreFile(w) PROVE Goes \/ Ends
  <2>1. step[w] = "restore" /\ NextFile(w, "hang", "idle") /\ (AnyLeft(w) => job'[w] = job[w])
    BY <1>1, <1>7 DEF RestoreFile, At, Functions
  <2>2. ActorOK(w)' /\ step'[w] = (IF AnyLeft(w) THEN "hang" ELSE "idle")
    BY <1>1, <2>1, NextIsOK
  <2> QED BY <1>1, <2>1, <2>2 DEF ActorOK
<1>8. ASSUME ListSections(w) PROVE Goes
  <2> DEFINE found == {f \in job[w].files : Section(store, f) # NoNode}
  <2>1. Loop(w, found, "summary", "finish") /\ job' = job /\ found \in SUBSET Files
    BY <1>2, <1>8 DEF ListSections
  <2> HIDE DEF found
  <2> QED BY <1>1, <2>1, LoopIsOK
<1>9. ASSUME step[w] \in LoopSteps, NextSection(w), job' = job PROVE Goes
  BY <1>1, <1>2, <1>9, LoopIsOK, NextIsOK DEF NextSection
<1>10. ASSUME KeepSummary(w) \/ LookAgain(w) PROVE Goes
  <2>1. step[w] \in LoopSteps /\ NextSection(w) /\ job' = job
    BY <1>10 DEF KeepSummary, LookAgain, At
  <2> QED BY <1>9, <2>1
<1>11. ASSUME ReadSection(w) PROVE Goes
  <2>1. step[w] = "summary" /\ step'[w] = "ask" /\ UNCHANGED <<job, todo>> /\ held'[w] = disk[Current(w)]
    BY <1>1, <1>11 DEF ReadSection, At, Goto, Functions
  <2>2. held'[w] \in Nat
    BY <1>1, <2>1 DEF MemShape, World
  <2> QED BY <1>1, <2>1, <2>2 DEF ActorOK
<1>12. ASSUME SectionSummarized(w) PROVE Goes
  <2>1. /\ step[w] = "ask" /\ UNCHANGED <<job, todo, held>>
        /\ node'[w] = Section(store, Current(w))
        /\ step'[w] = IF Section(store, Current(w)) = NoNode THEN "look" ELSE "write"
    BY <1>1, <1>12 DEF SectionSummarized, At, Goto, Functions
  <2>2. Section(store, Current(w)) # NoNode => Section(store, Current(w)) \in NodeData(Nat)
    BY <1>1, FetchedNode DEF Section
  <2> QED BY <1>1, <2>1, <2>2 DEF ActorOK
<1>13. ASSUME SummaryFails(w) \/ WriteSummary(w) PROVE Goes
  <2>1. step[w] \in {"ask", "write"} /\ UNCHANGED <<job, todo, held, node>> /\ step'[w] = "look"
    BY <1>1, <1>13 DEF SummaryFails, WriteSummary, At, Goto, Functions, progress
  <2> QED BY <1>1, <2>1 DEF ActorOK
<1>14. ASSUME SkipFileSummary(w) \/ WriteFileSummary(w) PROVE Goes
  <2>1. step[w] \in {"file", "filewrite"} /\ NextFile(w, "file", "finish") /\ job' = job
    BY <1>14 DEF SkipFileSummary, WriteFileSummary, At
  <2> QED BY <1>1, <2>1, NextIsOK
<1>15. ASSUME FileSummarized(w) PROVE Goes
  <2>1. /\ step[w] = "file" /\ UNCHANGED <<job, todo, held>> /\ step'[w] = "filewrite"
        /\ Has(store, FileId(Current(w))) /\ node'[w] = store.nodes[FileId(Current(w))]
    BY <1>1, <1>15 DEF FileSummarized, At, Goto, Functions
  <2> QED BY <1>1, <2>1, FetchedNode DEF ActorOK
<1>16. Goes \/ Ends
  BY <1>3, <1>4, <1>5, <1>6, <1>7, <1>8, <1>10, <1>11, <1>12, <1>13, <1>14, <1>15 DEF QueryUnderWay
<1>17. ActorOK(w)' /\ WorkerOK(w)'
  BY <1>1, <1>16, AtRest, QueryGoesOn
<1>18. Queues'
  BY <1>1, QueuesStay
<1> QED BY <1>1, <1>17, <1>18, QueryStore, WorkerNext

LEMMA BatchesAreKnown ==
    ASSUME MemShape, NEW b \in DOMAIN batches
    PROVE  /\ batches[b].files \in SUBSET Files /\ batches[b].files # {}
           /\ batches[b].version \in Nat /\ batches[b].version <= edits + 1
           /\ \A f \in batches[b].files : Beyond(f, batches[b].version)
<1>1. World
  BY DEF MemShape
<1>2. ASSUME NEW S, NEW q \in Seq(S), NEW i \in DOMAIN q
      PROVE  q[i] \in S
  BY <1>2
<1>3. batches[b] \in [files : SUBSET Files, version : Nat]
  BY <1>1, <1>2 DEF World
<1> QED BY <1>1, <1>3 DEF World

(* What is left when a remapping is through with a file.                   *)
LEMMA FileDoneMoves ==
    ASSUME MemShape, NEW w \in Workers, step[w] \in RemapSteps, NEW without, FileDone(w, without)
    PROVE  /\ ActorOK(w)' /\ todo'[w] = todo[w] \ {Current(w)}
           /\ step'[w] = (IF AnyLeft(w) THEN "remap" ELSE "idle")
           /\ AnyLeft(w) => UNCHANGED <<job, done, acked>> /\ absent'[w] = without
           /\ ~AnyLeft(w) =>
                 \/ job[w].kind # "feedback" /\ UNCHANGED <<done, acked>>
                 \/ /\ job[w].kind = "feedback"
                    /\ done'[w] = done[w] \cup {[batch |-> job[w].batch, absent |-> without]}
                    /\ acked' = acked \cup Announced(job[w].batch, without)
<1>1. Functions /\ w \in Actors /\ step[w] \in LoopSteps
  BY DEF MemShape, Actors, LoopSteps, RemapSteps
<1>2. NextFile(w, "remap", "idle")
  BY DEF FileDone
<1>3. /\ ActorOK(w)' /\ todo'[w] = todo[w] \ {Current(w)}
      /\ step'[w] = (IF AnyLeft(w) THEN "remap" ELSE "idle")
  BY <1>1, <1>2, NextIsOK DEF PlainSteps, LoopSteps, QuerySteps, RemapSteps, SyncSteps
<1> QED BY <1>1, <1>3 DEF FileDone, Functions

RemapUnderWay(w) ==
    \/ RemapMissing(w) \/ RemapExists(w) \/ RemapRead(w) \/ RemapVanished(w) \/ RemapFails(w)
    \/ RemapFile(w) \/ RemapList(w) \/ RemapSection(w)

LEMMA RemapMoves ==
    ASSUME MemShape, NEW w \in Workers, RemapUnderWay(w)
    PROVE  /\ Framed(w) /\ Functions /\ ActorOK(w) /\ WorkerOK(w) /\ w \in Actors
           /\ IsStore(store) /\ step[w] \in RemapSteps
           /\ Current(w) \in todo[w] /\ Current(w) \in Files
           /\ UNCHANGED <<indexed, answer>>
<1>1. Framed(w) /\ Functions /\ ActorOK(w) /\ WorkerOK(w) /\ w \in Actors /\ IsStore(store)
  BY RemapIsFramed DEF Remap, RemapUnderWay, MemShape, Actors, World
<1>2. step[w] \in RemapSteps
  BY DEF RemapUnderWay, RemapSteps, At, RemapMissing, RemapExists, RemapRead, RemapVanished, RemapFails, RemapFile,
         RemapList, RemapSection
<1>3. UNCHANGED <<indexed, answer>>
  BY DEF RemapUnderWay, RemapMissing, RemapExists, RemapRead, RemapVanished, RemapFails, RemapFile,
         RemapList, RemapSection, Die, mail, results
<1> QED BY <1>1, <1>2, <1>3, CurrentIsThere DEF LoopSteps, RemapSteps

LEMMA RemapStore ==
    ASSUME MemShape, NEW w \in Workers, RemapUnderWay(w)
    PROVE  /\ IsStore(store')
           /\ RemapFile(w) => /\ SectionsStay
                              /\ \E d \in NodeData(Nat) : OneFileWritten(Current(w), d) /\ d.print = held[w]
           /\ RemapSection(w) => /\ FilesStay
                                 /\ \E d \in NodeData(Nat) : OneSectionWritten(Current(w), d)
                                                             /\ d.text = node[w].text
           /\ ~RemapFile(w) => FilesStay
           /\ ~RemapSection(w) => SectionsStay
<1>1. ActorOK(w) /\ IsStore(store) /\ Current(w) \in Files
  BY RemapMoves
<1>2. CASE RemapFile(w)
  <2>1. step[w] = "remapfile" /\ node[w] \in NodeData(Nat) \cup {NoNode} /\ held[w] \in Nat
    BY <1>1, <1>2 DEF RemapFile, At, ActorOK
  <2> DEFINE d == [print |-> held[w], fresh |-> TRUE, text |-> IF node[w] = NoNode THEN 0 ELSE node[w].text]
  <2>2. d \in NodeData(Nat) /\ d.print = held[w]
    BY <2>1 DEF NodeData
  <2>3. store' = UpsertNode(store, FileId(Current(w)), d)
    BY <1>2 DEF RemapFile
  <2> HIDE DEF d
  <2>4. IsStore(store') /\ SectionsStay /\ OneFileWritten(Current(w), d)
    BY <1>1, <2>2, <2>3, WritesFile
  <2>5. ~RemapSection(w)
    BY <2>1 DEF RemapSection, At
  <2> QED BY <1>2, <2>2, <2>4, <2>5
<1>3. CASE RemapSection(w)
  <2>1. step[w] = "remapsection" /\ node[w] \in NodeData(Nat) /\ held[w] \in Nat
    BY <1>1, <1>3 DEF RemapSection, At, ActorOK
  <2>2. PICK found \in BOOLEAN :
          store' = UpsertNode(store, SectionId(Current(w)),
                              [print |-> IF found THEN held[w] ELSE node[w].print,
                               text |-> node[w].text, fresh |-> found])
    BY <1>3 DEF RemapSection
  <2> DEFINE d == [print |-> IF found THEN held[w] ELSE node[w].print, text |-> node[w].text, fresh |-> found]
  <2>3. d \in NodeData(Nat) /\ d.text = node[w].text
    BY <2>1 DEF NodeData
  <2>4. store' = UpsertNode(store, SectionId(Current(w)), d)
    BY <2>2
  <2> HIDE DEF d
  <2>5. IsStore(store') /\ FilesStay /\ OneSectionWritten(Current(w), d)
    BY <1>1, <2>3, <2>4, WritesSection
  <2>6. ~RemapFile(w)
    BY <2>1 DEF RemapFile, At
  <2> QED BY <1>3, <2>3, <2>5, <2>6
<1>4. CASE ~(RemapFile(w) \/ RemapSection(w))
  <2>1. UNCHANGED store
    BY <1>4 DEF RemapUnderWay, RemapMissing, RemapExists, RemapRead, RemapVanished, RemapFails, RemapList
  <2> QED BY <1>1, <1>4, <2>1, WritesOther
<1> QED BY <1>2, <1>3, <1>4

LEMMA RemapGoesOn ==
    ASSUME MemShape, NEW w \in Workers, Framed(w), step[w] \in RemapSteps, step'[w] \in RemapSteps,
           job'[w] = job[w], todo'[w] \subseteq todo[w], done'[w] = done[w], indexed'[w] = indexed[w]
    PROVE  WorkerOK(w)'
<1>1. WorkerOK(w) /\ UNCHANGED <<edits, batches>>
  BY DEF MemShape, Framed
<1> QED BY <1>1 DEF WorkerOK, QuerySteps, RemapSteps, SyncSteps

LEMMA DoneKeepsShape ==
    ASSUME MemShape, NEW w \in Workers, RemapUnderWay(w), NEW without, FileDone(w, without)
    PROVE  ActorOK(w)' /\ WorkerOK(w)'
<1>1. /\ Framed(w) /\ ActorOK(w) /\ WorkerOK(w) /\ w \in Actors /\ step[w] \in RemapSteps
      /\ UNCHANGED <<indexed, answer>>
  BY RemapMoves
<1>2. /\ ActorOK(w)' /\ todo'[w] = todo[w] \ {Current(w)}
      /\ step'[w] = (IF AnyLeft(w) THEN "remap" ELSE "idle")
      /\ AnyLeft(w) => UNCHANGED <<job, done, acked>>
      /\ ~AnyLeft(w) => \/ UNCHANGED done
                        \/ /\ job[w].kind = "feedback"
                           /\ done'[w] = done[w] \cup {[batch |-> job[w].batch, absent |-> without]}
  BY <1>1, FileDoneMoves
<1>3. CASE AnyLeft(w)
  BY <1>1, <1>2, <1>3, RemapGoesOn DEF RemapSteps
<1>4. CASE ~AnyLeft(w)
  <2>1. \A d \in done'[w] : d.batch \in DOMAIN batches
    BY <1>1, <1>2, <1>4 DEF WorkerOK, RemapSteps
  <2>2. step'[w] = "idle" /\ UNCHANGED <<edits, batches>>
    BY <1>1, <1>2, <1>4 DEF Framed
  <2> QED BY <1>1, <1>2, <2>1, <2>2 DEF WorkerOK, QuerySteps, RemapSteps, SyncSteps
<1> QED BY <1>3, <1>4

LEMMA RemapKeepsShape ==
    ASSUME MemShape, NEW w \in Workers, RemapUnderWay(w)
    PROVE  MemShape'
<1>1. /\ Framed(w) /\ Functions /\ ActorOK(w) /\ WorkerOK(w) /\ w \in Actors
      /\ IsStore(store) /\ step[w] \in RemapSteps
      /\ Current(w) \in todo[w] /\ Current(w) \in Files
      /\ UNCHANGED <<indexed, answer>>
  BY RemapMoves
<1>2. Queues'
  <2>1. UNCHANGED queue \/ queue' = [queue EXCEPT ![w] = <<>>]
    BY DEF RemapUnderWay, RemapMissing, RemapExists, RemapRead, RemapVanished, RemapFails, RemapFile,
           RemapList, RemapSection, Die, mail
  <2> QED BY <1>1, <2>1, QueuesStay
<1> DEFINE Stays == step'[w] \in RemapSteps /\ UNCHANGED <<job, todo, done>> /\ ActorOK(w)'
<1> USE DEF LoopSteps, QuerySteps, RemapSteps, SyncSteps
<1>3. ASSUME RemapExists(w) PROVE Stays
  <2>1. step'[w] = "remapread" /\ UNCHANGED <<job, todo, done, held, node>>
    BY <1>1, <1>3 DEF RemapExists, Goto, Functions, progress, results
  <2> QED BY <1>1, <2>1 DEF ActorOK
<1>4. ASSUME RemapRead(w) PROVE Stays
  <2>1. /\ step'[w] = "remapfile" /\ UNCHANGED <<job, todo, done>> /\ held'[w] = disk[Current(w)]
        /\ node'[w] = NoNode \/ (Has(store, FileId(Current(w))) /\ node'[w] = store.nodes[FileId(Current(w))])
    BY <1>1, <1>4 DEF RemapRead, Goto, Functions, results
  <2>2. held'[w] \in Nat
    BY <1>1, <2>1 DEF MemShape, World
  <2> QED BY <1>1, <2>1, <2>2, FetchedNode DEF ActorOK
<1>5. ASSUME RemapFile(w) PROVE Stays
  <2>1. step'[w] = "remaplist" /\ UNCHANGED <<job, todo, done, held, node>>
    BY <1>1, <1>5 DEF RemapFile, Goto, Functions, progress, results
  <2> QED BY <1>1, <2>1 DEF ActorOK
<1>6. ASSUME RemapList(w), Section(store, Current(w)) # NoNode PROVE Stays
  <2>1. /\ step'[w] = "remapsection" /\ UNCHANGED <<job, todo, done, held>>
        /\ node'[w] = Section(store, Current(w))
    BY <1>1, <1>6 DEF RemapList, Goto, Functions
  <2>2. Section(store, Current(w)) \in NodeData(Nat)
    BY <1>1, <1>6, FetchedNode DEF Section
  <2> QED BY <1>1, <2>1, <2>2 DEF ActorOK
<1>7. ASSUME RemapFails(w)
      PROVE  step'[w] \in {"idle", "dead"} /\ todo'[w] = {} /\ held'[w] = 0 /\ done'[w] \subseteq done[w]
  BY <1>1, <1>7 DEF RemapFails, Rest, Die, Forget, Goto, Functions
<1>8. RemapMissing(w) \/ RemapVanished(w) \/ RemapSection(w) \/ (RemapList(w) /\ Section(store, Current(w)) = NoNode)
        => \E without : FileDone(w, without)
  BY DEF RemapMissing, RemapVanished, RemapSection, RemapList
<1>9. Stays => ActorOK(w)' /\ WorkerOK(w)'
  BY <1>1, RemapGoesOn
<1>10. RemapFails(w) => ActorOK(w)' /\ WorkerOK(w)'
  BY <1>1, <1>7, AtRest
<1>11. (\E without : FileDone(w, without)) => ActorOK(w)' /\ WorkerOK(w)'
  BY DoneKeepsShape
<1>12. ActorOK(w)' /\ WorkerOK(w)'
  BY <1>3, <1>4, <1>5, <1>6, <1>8, <1>9, <1>10, <1>11 DEF RemapUnderWay
<1> QED BY <1>1, <1>2, <1>12, RemapStore, WorkerNext

LEMMA TakeKeepsShape ==
    ASSUME MemShape, NEW w \in Workers, TakeKnown(w) \/ TakeFeedback(w) \/ TakeChanged(w)
    PROVE  MemShape'
<1>1. Framed(w) /\ Functions /\ ActorOK(w) /\ WorkerOK(w) /\ w \in Actors /\ IsStore(store)
  BY RemapIsFramed DEF Remap, MemShape, Actors, World
<1>2. /\ Head(queue[w]) \in Requests(Len(batches))
      /\ step[w] = "idle" /\ queue[w] # <<>> /\ queue' = [queue EXCEPT ![w] = Tail(@)]
  BY TakesFirst DEF TakeKnown, TakeFeedback, TakeChanged
<1>3. Queues'
  BY <1>1, <1>2, QueuesStay
<1>4. IsStore(store') /\ UNCHANGED <<indexed, done, edits, batches>>
  BY <1>1 DEF TakeKnown, TakeFeedback, TakeChanged, Framed, results
<1>5. CASE TakeKnown(w)
  <2>1. UNCHANGED <<step, todo, held, node, job>>
    BY <1>5 DEF TakeKnown, progress
  <2> QED BY <1>1, <1>2, <1>3, <1>4, <2>1, AtRest, WorkerNext DEF ActorOK
<1> USE DEF LoopSteps, PlainSteps, QuerySteps, RemapSteps, SyncSteps
<1>6. CASE TakeFeedback(w)
  <2> DEFINE b == Head(queue[w]).batch
  <2>1. Head(queue[w]).kind = "feedback"
    BY <1>6 DEF TakeFeedback, Take
  <2>2. b \in DOMAIN batches
    BY <1>1, <1>2, <2>1 DEF Requests, MemShape, World
  <2>3. Loop(w, batches[b].files, "remap", "idle") /\ job'[w] = [kind |-> "feedback", batch |-> b]
    BY <1>1, <1>6 DEF TakeFeedback, Functions
  <2> HIDE DEF b
  <2>4. ActorOK(w)' /\ todo'[w] = batches[b].files /\ step'[w] \in {"idle", "remap"}
    BY <1>1, <2>2, <2>3, BatchesAreKnown, LoopIsOK
  <2>5. WorkerOK(w)'
    BY <1>1, <1>4, <2>2, <2>3, <2>4 DEF WorkerOK
  <2> QED BY <1>1, <1>3, <1>4, <2>4, <2>5, WorkerNext
<1>7. CASE TakeChanged(w)
  <2>1. Head(queue[w]).kind = "changed"
    BY <1>7 DEF TakeChanged, Take
  <2>2. Head(queue[w]).files \in SUBSET Files
    BY <1>2, <2>1 DEF Requests
  <2>3. Loop(w, Head(queue[w]).files, "remap", "idle") /\ job'[w] = [kind |-> "changed"]
    BY <1>1, <1>7 DEF TakeChanged, Functions
  <2>4. ActorOK(w)' /\ step'[w] \in {"idle", "remap"}
    BY <1>1, <2>2, <2>3, LoopIsOK
  <2>5. WorkerOK(w)'
    BY <1>1, <1>4, <2>3, <2>4 DEF WorkerOK
  <2> QED BY <1>1, <1>3, <1>4, <2>4, <2>5, WorkerNext
<1> QED BY <1>5, <1>6, <1>7

(* What the world may do meanwhile: files change, batches are sent.        *)
Grown ==
    /\ edits' \in Nat /\ edits <= edits'
    /\ disk' \in [Files -> Nat]
    /\ \A f \in Files : disk'[f] \in {0, disk[f]} \/ (disk'[f] = edits + 2 /\ edits' = edits + 1)
    /\ DOMAIN batches \subseteq DOMAIN batches'
    /\ \A i \in DOMAIN batches : batches'[i] = batches[i]

LEMMA StaysBeyond ==
    ASSUME World, Grown, NEW f \in Files, NEW v \in Nat, v <= edits + 1, Beyond(f, v)
    PROVE  Beyond(f, v)'
BY DEF World, Grown, Beyond

LEMMA UntouchedIsOK ==
    ASSUME MemShape, Grown, NEW b \in Actors, Untouched(b)
    PROVE  /\ ActorOK(b)'
           /\ b \in Workers => WorkerOK(b)'
           /\ b \in Authors => AuthorOK(b)'
<1>1. World /\ edits \in Nat
  BY DEF MemShape, World
<1>2. ActorOK(b)'
  BY DEF MemShape, ActorOK, Untouched
<1>3. ASSUME b \in Workers PROVE WorkerOK(b)'
  <2>1. WorkerOK(b) /\ \A f \in Files : indexed[b][f] <= edits'
                                        \/ indexed[b][f] <= edits' + 1
    BY <1>1, <1>3 DEF MemShape, WorkerOK, Grown
  <2>2. \A f \in Files : indexed[b][f] <= edits' + 1
    BY <1>1, <1>3, <2>1 DEF Grown, WorkerOK
  <2> QED BY <1>3, <2>1, <2>2 DEF Untouched, WorkerOK, Grown
<1>4. ASSUME b \in Authors PROVE AuthorOK(b)'
  <2>1. AuthorOK(b)
    BY <1>4 DEF MemShape
  <2>2. ASSUME step[b] \in SyncSteps \cup {"notify"}
        PROVE  /\ job[b] \in [kind : {"turn"}, files : (SUBSET Files) \ {{}}, version : Nat]
               /\ job[b].version <= edits' + 1
               /\ \A f \in job[b].files : Beyond(f, job[b].version)'
    <3>1. /\ job[b] \in [kind : {"turn"}, files : (SUBSET Files) \ {{}}, version : Nat]
          /\ job[b].version <= edits + 1
          /\ \A f \in job[b].files : Beyond(f, job[b].version)
      BY <2>1, <2>2 DEF AuthorOK
    <3>2. job[b].version \in Nat /\ job[b].files \subseteq Files
      BY <3>1
    <3>3. job[b].version <= edits' + 1
      BY <1>1, <3>1, <3>2 DEF Grown
    <3>4. ASSUME NEW f \in job[b].files
          PROVE  disk'[f] = 0 \/ disk'[f] >= job[b].version
      BY <1>1, <3>1, <3>2, StaysBeyond DEF Beyond
    <3>5. job'[b] = job[b]
      BY DEF Untouched
    <3> QED BY <3>1, <3>3, <3>4, <3>5 DEF Beyond
  <2> QED BY <2>1, <2>2 DEF Untouched, AuthorOK
<1> QED BY <1>2, <1>3, <1>4

LEMMA QueuesGrow ==
    ASSUME MemShape, NEW n \in Nat, Len(batches) <= n, Len(batches') = n, NEW w \in Workers,
           NEW r \in Requests(n), Send(w, r)
    PROVE  Queues'
<1>1. ASSUME NEW v \in Workers PROVE queue'[v] = queue[v] \/ queue'[v] = Append(queue[v], r)
  <2>1. queue = [u \in Workers |-> queue[u]]
    BY DEF MemShape, Functions
  <2> DEFINE longer == Append(queue[w], r)
  <2>2. queue' = [queue EXCEPT ![w] = longer]
    BY DEF Send
  <2> HIDE DEF longer
  <2>3. queue'[v] = IF v = w THEN longer ELSE queue[v]
    BY <2>1, <2>2
  <2> QED BY <2>3 DEF longer
<1>2. \A v \in Workers : queue[v] \in Seq(Requests(Len(batches)))
  BY DEF MemShape, Queues
<1>3. Requests(Len(batches)) \subseteq Requests(n)
  BY DEF Requests, MemShape, World
<1>4. ASSUME NEW S, NEW T, S \subseteq T, NEW x \in T, NEW q \in Seq(S)
      PROVE  q \in Seq(T) /\ Append(q, x) \in Seq(T)
  BY <1>4
<1>5. ASSUME NEW v \in Workers PROVE queue'[v] \in Seq(Requests(n))
  <2>1. queue[v] \in Seq(Requests(Len(batches)))
    BY <1>2
  <2>2. queue[v] \in Seq(Requests(n)) /\ Append(queue[v], r) \in Seq(Requests(n))
    BY <1>3, <1>4, <2>1
  <2> QED BY <1>1, <2>2
<1> QED BY <1>5 DEF Queues

LEMMA WorldStays ==
    ASSUME MemShape, UNCHANGED <<disk, edits, batches>>
    PROVE  Grown
BY DEF MemShape, World, Grown

LEMMA PlainKeepsShape ==
    ASSUME MemShape,
           \/ \E w \in Workers : Restart(w)
           \/ \E a \in Authors : GoOn(a) \/ \E hint \in SUBSET Files : Ask(a, hint)
    PROVE  MemShape'
<1>1. Grown /\ UNCHANGED <<disk, edits, batches, store>>
  <2>1. UNCHANGED <<disk, edits, batches, store>>
    BY DEF Restart, GoOn, Ask, diskVars, mail
  <2> QED BY <2>1, WorldStays
<1>2. World'
  BY <1>1 DEF MemShape, World, Beyond
<1>3. UNCHANGED <<job, todo, held, node, absent, done, indexed, answer>>
  BY DEF Restart, GoOn, Ask, progress, results
<1>4. ASSUME NEW w \in Workers, Restart(w) PROVE MemShape'
  <2>1. w \in Actors /\ w \notin Authors
    BY MemoryAssumption DEF Actors
  <2>2. Framed(w) /\ step'[w] = "idle"
    BY <1>1, <1>3, <1>4, <2>1 DEF Restart, Goto, Framed, Functions, Untouched, MemShape
  <2>3. Queues'
    BY <1>4, <2>1, <2>2, QueuesStay DEF Restart
  <2>4. todo[w] \subseteq Files /\ held[w] \in Nat
    BY <2>1 DEF MemShape, ActorOK
  <2>5. IsStore(store')
    BY <1>2 DEF World
  <2> QED BY <1>3, <2>2, <2>3, <2>4, <2>5, AtRest, WorkerNext
<1>5. ASSUME NEW a \in Authors, step'[a] \in {"idle", "wait"}, step' = [step EXCEPT ![a] = step'[a]], Queues',
             UNCHANGED queue \/ \E v, r : queue' = [queue EXCEPT ![v] = r]
      PROVE  MemShape'
  <2>1. a \in Actors /\ a \notin Workers
    BY MemoryAssumption DEF Actors
  <2>2. Framed(a)
    <3>1. \A b \in Actors \ {a} : step'[b] = step[b]
      BY <1>5, <2>1 DEF MemShape, Functions
    <3>2. step' = [b \in Actors |-> step'[b]]
      BY <1>5, <2>1 DEF MemShape, Functions
    <3>3. Functions'
      BY <1>3, <1>5, <3>2 DEF MemShape, Functions
    <3> QED BY <1>1, <1>3, <3>1, <3>3 DEF Framed, Untouched
  <2>3. todo[a] \subseteq Files /\ held[a] \in Nat
    BY <2>1 DEF MemShape, ActorOK
  <2>4. ActorOK(a)' /\ AuthorOK(a)'
    BY <1>3, <1>5, <2>3 DEF ActorOK, AuthorOK, LoopSteps, QuerySteps, RemapSteps, SyncSteps
  <2> QED BY <1>2, <1>5, <2>1, <2>2, <2>4, ShapeNext DEF World
<1>6. ASSUME NEW a \in Authors, GoOn(a) PROVE MemShape'
  <2>1. step' = [step EXCEPT ![a] = "idle"] /\ step'[a] = "idle" /\ UNCHANGED queue
    BY <1>6 DEF GoOn, Goto, mail, MemShape, Functions, Actors
  <2>2. Queues'
    BY <1>1, <2>1 DEF MemShape, Queues
  <2> QED BY <1>5, <2>1, <2>2
<1>7. ASSUME NEW a \in Authors, NEW hint \in SUBSET Files, Ask(a, hint) PROVE MemShape'
  <2>1. step' = [step EXCEPT ![a] = "wait"] /\ step'[a] = "wait"
    BY <1>7 DEF Ask, Goto, MemShape, Functions, Actors
  <2> DEFINE r == [kind |-> "query", hint |-> hint]
  <2>2. Send(Serves[a], r)
    BY <1>7 DEF Ask
  <2>3. r \in Requests(Len(batches)) /\ Serves[a] \in Workers
    BY MemoryAssumption DEF Requests
  <2> HIDE DEF r
  <2>4. Len(batches) \in Nat /\ Len(batches') = Len(batches)
    BY <1>1 DEF MemShape, World
  <2>5. Queues'
    BY <2>2, <2>3, <2>4, QueuesGrow
  <2>6. \E v, q : queue' = [queue EXCEPT ![v] = q]
    BY <2>2 DEF Send
  <2> QED BY <1>5, <2>1, <2>5, <2>6
<1> QED BY <1>4, <1>6, <1>7

LEMMA SendKeepsShape ==
    ASSUME MemShape, NEW w \in Workers,
           \/ \E files \in SUBSET Files : SendChanged(w, files)
           \/ \E batch \in DOMAIN batches : SendAgain(w, batch)
    PROVE  MemShape'
<1>1. /\ UNCHANGED <<disk, edits, batches, store, step, job, todo, held, node, absent, done, indexed, answer>>
      /\ \E r \in Requests(Len(batches)) : Send(w, r)
  <2>1. ASSUME NEW files \in SUBSET Files, SendChanged(w, files)
        PROVE  \E r \in Requests(Len(batches)) : Send(w, r)
    <3>1. [kind |-> "changed", files |-> files] \in Requests(Len(batches))
      BY DEF Requests
    <3> QED BY <2>1, <3>1 DEF SendChanged
  <2>2. ASSUME NEW batch \in DOMAIN batches, SendAgain(w, batch)
        PROVE  \E r \in Requests(Len(batches)) : Send(w, r)
    <3>1. [kind |-> "feedback", batch |-> batch] \in Requests(Len(batches))
      BY DEF Requests, MemShape, World
    <3> QED BY <2>2, <3>1 DEF SendAgain
  <2>3. UNCHANGED <<disk, edits, batches, store, step, job, todo, held, node, absent, done, indexed, answer>>
    BY DEF SendChanged, SendAgain, diskVars, progress, results
  <2> QED BY <2>1, <2>2, <2>3
<1>2. Queues'
  <2>1. Len(batches) \in Nat /\ Len(batches') = Len(batches)
    BY <1>1 DEF MemShape, World
  <2> QED BY <1>1, <2>1, QueuesGrow
<1>3. queue' = [v \in Workers |-> queue'[v]]
  BY <1>1 DEF Send, MemShape, Functions
<1>4. Functions'
  BY <1>1, <1>3 DEF MemShape, Functions
<1>5. World'
  BY <1>1 DEF MemShape, World, Beyond
<1>6. /\ \A a \in Actors : ActorOK(a)'
      /\ \A v \in Workers : WorkerOK(v)'
      /\ \A a \in Authors : AuthorOK(a)'
  BY <1>1 DEF MemShape, ActorOK, WorkerOK, AuthorOK, Beyond
<1> QED BY <1>2, <1>4, <1>5, <1>6 DEF MemShape

LEMMA EditsGrow ==
    ASSUME MemShape, edits' = edits + 1, disk' \in [Files -> Nat], UNCHANGED <<batches, store>>,
           \A f \in Files : disk'[f] \in {0, disk[f], edits + 2}
    PROVE  Grown /\ World'
<1>1. World /\ edits \in Nat
  BY DEF MemShape, World
<1>2. Grown
  BY <1>1 DEF Grown
<1>3. ASSUME NEW f \in Files PROVE disk'[f] <= edits' + 1
  <2>1. disk[f] \in Nat /\ disk[f] <= edits + 1
    BY <1>1 DEF World
  <2>2. disk'[f] = 0 \/ disk'[f] = disk[f] \/ disk'[f] = edits + 2
    OBVIOUS
  <2>3. edits' = edits + 1
    OBVIOUS
  <2> HIDE DEF World
  <2> QED BY <1>1, <2>1, <2>2, <2>3
<1>4. ASSUME NEW b \in DOMAIN batches
      PROVE  /\ batches[b].files # {} /\ batches[b].version <= edits' + 1
             /\ \A f \in batches[b].files : disk'[f] = 0 \/ disk'[f] >= batches[b].version
  BY <1>1, <1>2, BatchesAreKnown, StaysBeyond DEF Beyond
<1> QED BY <1>1, <1>2, <1>3, <1>4 DEF World, Beyond

LEMMA ChangeKeepsShape ==
    ASSUME MemShape, NEW f \in Files, NEW there \in BOOLEAN, ChangeOnDisk(f, there)
    PROVE  MemShape'
<1>1. /\ UNCHANGED <<batches, store, step, job, todo, held, node, queue, absent, done, indexed, answer>>
      /\ edits' = edits + 1
  BY DEF ChangeOnDisk, progress, results, mail
<1>2. disk' \in [Files -> Nat] /\ \A g \in Files : disk'[g] \in {0, disk[g], edits + 2}
  BY DEF ChangeOnDisk, MemShape, World
<1>3. Grown /\ World'
  BY <1>1, <1>2, EditsGrow
<1>4. \A a \in Actors : Untouched(a)
  BY <1>1 DEF Untouched
<1>5. Functions' /\ Queues'
  BY <1>1 DEF MemShape, Functions, Queues
<1> QED BY <1>3, <1>4, <1>5, UntouchedIsOK DEF MemShape, Actors

LEMMA WriteKeepsShape ==
    ASSUME MemShape, NEW a \in Authors, NEW files \in SUBSET Files, files # {}, WriteFiles(a, files)
    PROVE  MemShape'
<1>1. a \in Actors /\ a \notin Workers /\ Functions /\ World /\ edits \in Nat
  BY MemoryAssumption DEF Actors, MemShape, World
<1>2. /\ UNCHANGED <<batches, store, queue, absent, done, indexed, answer>>
      /\ edits' = edits + 1
      /\ job' = [job EXCEPT ![a] = [kind |-> "turn", files |-> files, version |-> edits + 2]]
      /\ Loop(a, files, "check", "notify")
      /\ disk' = [f \in Files |-> IF f \in files THEN edits + 2 ELSE disk[f]]
  BY DEF WriteFiles, results, mail
<1>3. disk' \in [Files -> Nat] /\ \A g \in Files : disk'[g] \in {0, disk[g], edits + 2}
  BY <1>1, <1>2 DEF World
<1>4. Grown /\ World'
  BY <1>2, <1>3, EditsGrow
<1>5. Functions' /\ Queues' /\ \A b \in Actors \ {a} : Untouched(b)
  <2>1. \A b \in Actors \ {a} : Untouched(b)
    BY <1>1, <1>2 DEF Loop, Forget, Goto, Functions, Untouched
  <2>2. Functions'
    BY <1>1, <1>2 DEF Loop, Forget, Goto, Functions
  <2> QED BY <1>2, <2>1, <2>2 DEF MemShape, Queues
<1>6. ActorOK(a)' /\ step'[a] = "check"
  BY <1>1, <1>2, LoopIsOK DEF LoopSteps, PlainSteps, QuerySteps, RemapSteps, SyncSteps
<1>7. AuthorOK(a)'
  <2>1. job'[a] = [kind |-> "turn", files |-> files, version |-> edits + 2]
    BY <1>1, <1>2 DEF Functions
  <2>2. \A f \in files : disk'[f] = edits + 2
    BY <1>2
  <2>3. /\ job'[a] \in [kind : {"turn"}, files : (SUBSET Files) \ {{}}, version : Nat]
        /\ job'[a].version <= edits' + 1
        /\ \A f \in job'[a].files : disk'[f] = 0 \/ disk'[f] >= job'[a].version
    BY <1>1, <1>2, <2>1, <2>2
  <2> QED BY <1>6, <2>3 DEF AuthorOK, SyncSteps, Beyond
<1> QED BY <1>1, <1>4, <1>5, <1>6, <1>7, UntouchedIsOK, MemoryAssumption DEF MemShape, Actors

LEMMA NotifyKeepsShape ==
    ASSUME MemShape, NEW a \in Authors, Notify(a)
    PROVE  MemShape'
<1>1. a \in Actors /\ a \notin Workers /\ Functions /\ World /\ edits \in Nat /\ ActorOK(a) /\ AuthorOK(a)
  BY MemoryAssumption DEF Actors, MemShape, World
<1>2. /\ UNCHANGED <<disk, edits, store, todo, held, node, absent, done, indexed, answer>>
      /\ job' = [job EXCEPT ![a] = NoJob]
      /\ step' = [step EXCEPT ![a] = "wait"]
      /\ batches' = Append(batches, [files |-> job[a].files, version |-> job[a].version])
      /\ Send(Serves[a], [kind |-> "feedback", batch |-> Len(batches) + 1])
      /\ step[a] = "notify"
  BY DEF Notify, results, diskVars, Goto, At
<1> DEFINE new == [files |-> job[a].files, version |-> job[a].version]
<1>3. /\ new \in [files : SUBSET Files, version : Nat]
      /\ new.files # {} /\ new.version <= edits + 1
      /\ \A f \in new.files : Beyond(f, new.version)
  <2>1. /\ job[a] \in [kind : {"turn"}, files : (SUBSET Files) \ {{}}, version : Nat]
        /\ job[a].version <= edits + 1
        /\ \A f \in job[a].files : Beyond(f, job[a].version)
    BY <1>1, <1>2 DEF AuthorOK
  <2>2. job[a].files \in SUBSET Files /\ job[a].files # {} /\ job[a].version \in Nat
    BY <2>1
  <2> QED BY <2>1, <2>2
<1>4. batches \in Seq([files : SUBSET Files, version : Nat]) /\ Len(batches) \in Nat /\ batches' = Append(batches, new)
  BY <1>1, <1>2 DEF World
<1> HIDE DEF new
<1>5. /\ batches' \in Seq([files : SUBSET Files, version : Nat])
      /\ Len(batches') = Len(batches) + 1 /\ DOMAIN batches \subseteq DOMAIN batches'
      /\ \A i \in DOMAIN batches : batches'[i] = batches[i]
      /\ \A i \in DOMAIN batches' : i \in DOMAIN batches \/ batches'[i] = new
  BY <1>3, <1>4
<1>6. Grown
  BY <1>1, <1>2, <1>5 DEF Grown, World
<1>7. World'
  BY <1>1, <1>2, <1>3, <1>5, SMTT(30) DEF World, Beyond
<1>8. Queues'
  <2> DEFINE r == [kind |-> "feedback", batch |-> Len(batches) + 1]
  <2>1. r \in Requests(Len(batches) + 1) /\ Serves[a] \in Workers
    BY <1>4, MemoryAssumption DEF Requests
  <2>2. Send(Serves[a], r)
    BY <1>2
  <2> HIDE DEF r
  <2> QED BY <1>4, <1>5, <2>1, <2>2, QueuesGrow
<1>9. Functions' /\ \A b \in Actors \ {a} : Untouched(b)
  BY <1>1, <1>2 DEF Send, Functions, Untouched
<1>10. ActorOK(a)' /\ AuthorOK(a)'
  <2>1. step'[a] = "wait"
    BY <1>1, <1>2 DEF Functions
  <2> QED BY <1>1, <1>2, <2>1 DEF ActorOK, AuthorOK, LoopSteps, QuerySteps, RemapSteps, SyncSteps
<1> QED BY <1>1, <1>6, <1>7, <1>8, <1>9, <1>10, UntouchedIsOK, MemoryAssumption DEF MemShape, Actors

LEMMA InitHasShape == Init => MemShape
<1> SUFFICES ASSUME Init PROVE MemShape
  OBVIOUS
<1>1. IsStore(store)
  <2>1. CASE store = EmptyStore
    BY <2>1 DEF EmptyStore, IsStore
  <2>2. CASE store # EmptyStore
    <3> DEFINE files == {f \in Files : disk[f] # 0}
               sectioned == {f \in Files : Sectioned(f, disk[f])}
               ids == {IndexerId} \cup {FileId(f) : f \in files} \cup {SectionId(f) : f \in files \cap sectioned}
               data == [n \in ids |-> Plain(IF n = IndexerId THEN 0 ELSE disk[n[2]])]
    <3>1. store = IndexedStore(files, disk, sectioned)
      BY <2>2 DEF Init
    <3>2. \A n \in ids : n = IndexerId \/ n[2] \in Files
      BY DEF FileId, SectionId
    <3>3. \A n \in ids : data[n] \in NodeData(Nat)
      <4>1. \A v \in Nat : Plain(v) \in NodeData(Nat)
        BY DEF Plain, NodeData
      <4>2. \A f \in Files : disk[f] \in Nat
        BY SMTT(30) DEF Init
      <4> QED BY <3>2, <4>1, <4>2
    <3>4. /\ store.nodes = data /\ store = [nodes |-> store.nodes, edges |-> store.edges]
      BY <3>1 DEF IndexedStore
    <3>5. data = [n \in ids |-> data[n]]
      OBVIOUS
    <3> HIDE DEF ids, data
    <3> QED BY <3>3, <3>4, <3>5 DEF IsStore
  <2> QED BY <2>1, <2>2
<1>2. World
  <2>1. batches \in Seq([files : SUBSET Files, version : Nat]) /\ DOMAIN batches = {} /\ edits = 0
    BY DEF Init
  <2>2. disk \in [Files -> Nat] /\ \A f \in Files : disk[f] <= 0 + 1
    <3>1. disk \in [Files -> {0, 1}]
      BY DEF Init
    <3>2. \A f \in Files : disk[f] \in {0, 1}
      BY <3>1
    <3> QED BY <3>1, <3>2
  <2> QED BY <1>1, <2>1, <2>2 DEF World
<1>3. Functions
  BY DEF Init, Functions
<1>4. Queues
  BY DEF Init, Queues
<1>5. \A a \in Actors : ActorOK(a)
  BY DEF Init, ActorOK, LoopSteps, QuerySteps, RemapSteps, SyncSteps
<1>6. \A w \in Workers : WorkerOK(w)
  BY DEF Init, WorkerOK, QuerySteps, RemapSteps, SyncSteps, Actors
<1>7. \A a \in Authors : AuthorOK(a)
  BY DEF Init, AuthorOK, SyncSteps, Actors
<1> QED BY <1>2, <1>3, <1>4, <1>5, <1>6, <1>7 DEF MemShape

LEMMA OthersKeepShape == MemShape /\ UNCHANGED vars => MemShape'
<1> SUFFICES ASSUME MemShape, UNCHANGED vars PROVE MemShape'
  OBVIOUS
<1>1. UNCHANGED <<disk, edits, batches, store, step, job, todo, held, node, queue, absent, done, indexed, answer>>
  BY DEF vars, diskVars, progress, mail, results
<1>2. World' /\ Functions' /\ Queues'
  <2>1. World'
    BY <1>1 DEF MemShape, World, Beyond
  <2>2. Functions'
    BY <1>1 DEF MemShape, Functions
  <2>3. Queues'
    BY <1>1 DEF MemShape, Queues
  <2> QED BY <2>1, <2>2, <2>3
<1>3. \A a \in Actors : ActorOK(a)'
  BY <1>1 DEF MemShape, ActorOK, Beyond
<1>4. \A w \in Workers : WorkerOK(w)'
  BY <1>1 DEF MemShape, WorkerOK, Beyond
<1>5. \A a \in Authors : AuthorOK(a)'
  BY <1>1 DEF MemShape, AuthorOK, Beyond
<1> QED BY <1>2, <1>3, <1>4, <1>5 DEF MemShape

(* Every step of Next, as the lemmas take them.                            *)
LEMMA NextSteps ==
    ASSUME Next
    PROVE  \/ \E a \in Actors : Sync(a)
           \/ \E w \in Workers : \/ ReceiveQuery(w)
                                 \/ PlannerFails(w) \/ PlanRejected(w) \/ PlanFinishes(w) \/ NothingToGrow(w)
                                 \/ FinishQuery(w)
                                 \/ QueryUnderWay(w)
                                 \/ TakeKnown(w) \/ TakeFeedback(w) \/ TakeChanged(w)
                                 \/ RemapUnderWay(w)
           \/ \E w \in Workers : Restart(w)
           \/ \E a \in Authors : GoOn(a) \/ \E hint \in SUBSET Files : Ask(a, hint)
           \/ \E a \in Authors : Notify(a) \/ \E files \in SUBSET Files : files # {} /\ WriteFiles(a, files)
           \/ \E w \in Workers : \/ \E files \in SUBSET Files : SendChanged(w, files)
                                 \/ \E batch \in DOMAIN batches : SendAgain(w, batch)
           \/ \E f \in Files, there \in BOOLEAN : ChangeOnDisk(f, there)
<1>1. CASE \E w \in Workers : Work(w) \/ Restart(w)
  BY <1>1 DEF Work, Query, Remap, QueryUnderWay, RemapUnderWay, Actors
<1>2. CASE \E a \in Authors : Author(a)
  <2>1. PICK a \in Authors : Author(a)
    BY <1>2
  <2>2. {{}} \cup {{f} : f \in Files} \subseteq SUBSET Files
    OBVIOUS
  <2>3. \A files \in (SUBSET Files) \ {{}} : files \in SUBSET Files /\ files # {}
    OBVIOUS
  <2> QED BY <2>1, <2>2, <2>3 DEF Author, Actors
<1>3. CASE Outside
  <2>1. ASSUME NEW w \in Workers, NEW f \in Files, SendChanged(w, {f})
        PROVE  \E files \in SUBSET Files : SendChanged(w, files)
    BY <2>1
  <2> QED BY <1>3, <2>1 DEF Outside
<1> QED BY <1>1, <1>2, <1>3 DEF Next

LEMMA NextKeepsShape == MemShape /\ [Next]_vars => MemShape'
<1> SUFFICES ASSUME MemShape, [Next]_vars PROVE MemShape'
  OBVIOUS
<1>1. CASE UNCHANGED vars
  BY <1>1, OthersKeepShape
<1>2. CASE Next
  BY <1>2, NextSteps, SyncKeepsShape, ReceiveKeepsShape, QueryEndKeepsShape, QueryKeepsShape, TakeKeepsShape,
     RemapKeepsShape, PlainKeepsShape, WriteKeepsShape, NotifyKeepsShape, SendKeepsShape, ChangeKeepsShape
<1> QED BY <1>1, <1>2

LEMMA SyncStore ==
    ASSUME MemShape, NEW a \in Actors, Sync(a)
    PROVE  /\ step[a] \in SyncSteps /\ Current(a) \in Files /\ Framed(a)
           /\ UpsertFile(a) => SectionsStay /\ OneFileWritten(Current(a), Plain(held[a]))
           /\ UpsertSection(a) => FilesStay /\ OneSectionWritten(Current(a), Plain(held[a]))
           /\ DropSections(a) => ~Has(store', SectionId(Current(a)))
           /\ ~UpsertFile(a) => FilesStay
           /\ ~UpsertSection(a) => SectionsStay
<1>1. step[a] \in SyncSteps
  BY DEF Sync, SyncSteps, At, SyncMissing, SyncExists, ReadFile, FileVanished, UpsertFile, DropEdges,
         DropSections, ReadSections, UpsertSection, LinkSection
<1>2. Current(a) \in Files /\ Framed(a) /\ ActorOK(a) /\ IsStore(store)
  BY <1>1, CurrentIsThere, SyncIsFramed DEF LoopSteps, QuerySteps, SyncSteps, MemShape, World
<1>3. Plain(held[a]) \in NodeData(Nat)
  BY <1>2 DEF Plain, NodeData, ActorOK
<1>4. CASE UpsertFile(a)
  <2>1. SectionsStay /\ OneFileWritten(Current(a), Plain(held[a]))
    BY <1>2, <1>3, <1>4, WritesFile DEF UpsertFile
  <2>2. ~UpsertSection(a) /\ ~DropSections(a)
    BY <1>4 DEF UpsertFile, UpsertSection, DropSections, At
  <2> QED BY <1>1, <1>2, <1>4, <2>1, <2>2
<1>5. CASE UpsertSection(a)
  <2>1. FilesStay /\ OneSectionWritten(Current(a), Plain(held[a]))
    BY <1>2, <1>3, <1>5, WritesSection DEF UpsertSection
  <2>2. ~UpsertFile(a) /\ ~DropSections(a)
    BY <1>5 DEF UpsertFile, UpsertSection, DropSections, At
  <2> QED BY <1>1, <1>2, <1>5, <2>1, <2>2
<1>6. CASE DropSections(a)
  <2>1. FilesStay /\ SectionsStay /\ ~Has(store', SectionId(Current(a)))
    BY <1>2, <1>6, DropsSections DEF DropSections
  <2>2. ~UpsertFile(a) /\ ~UpsertSection(a)
    BY <1>6 DEF UpsertFile, UpsertSection, DropSections, At
  <2> QED BY <1>1, <1>2, <1>6, <2>1, <2>2
<1>7. CASE ~(UpsertFile(a) \/ UpsertSection(a) \/ DropSections(a))
  <2>1. UNCHANGED store
        \/ \E x, y : store' = UpsertEdge(store, x, y) \/ store' = DeleteEdgesTouching(store, x)
                     \/ store' = MarkStale(store, x)
    BY <1>7 DEF Sync, SyncMissing, SyncExists, ReadFile, FileVanished, DropEdges, ReadSections, LinkSection
  <2>2. FilesStay /\ SectionsStay
    BY <1>2, <2>1, WritesOther
  <2> QED BY <1>1, <1>2, <1>7, <2>2
<1> QED BY <1>4, <1>5, <1>6, <1>7

LEMMA StoreStays ==
    ASSUME MemShape, UNCHANGED store
    PROVE  FilesStay /\ SectionsStay
BY WritesOther DEF MemShape, World

-----------------------------------------------------------------------------
(* No text is older than what the query has indexed.                       *)

OneWorker == \A v, w \in Workers : v = w

KeptAreFiles == kept = [w \in Workers |-> kept[w]] /\ \A w \in Workers : kept[w] \subseteq Files

NotOlder(text, w, f) == text = 0 \/ text >= indexed[w][f]
SectionIsNew(w, f) == Has(store, SectionId(f)) => NotOlder(store.nodes[SectionId(f)].text, w, f)

(* Between reading a file and dropping its sections the worker has indexed *)
(* a text newer than the summaries still there.                            *)
NewFor(w) ==
    /\ \A f \in Files : Beyond(f, indexed[w][f])
    /\ \A f \in Files : \/ step[w] \in {"node", "edges", "sections"} /\ f = Current(w)
                        \/ SectionIsNew(w, f)
    /\ step[w] \in {"ask", "write"} => NotOlder(held[w], w, Current(w))
    /\ step[w] \in {"write", "remapsection"} => NotOlder(node[w].text, w, Current(w))
    /\ \A r \in answer[w] : NotOlder(r.text, w, r.file)
    /\ step[w] \in QuerySteps \cup {"plan"} => answer[w] = {}

TextsAreNew == KeptAreFiles /\ \A w \in Workers : NewFor(w)

LEMMA InitIsNew == Init => TextsAreNew
<1> SUFFICES ASSUME Init PROVE TextsAreNew
  OBVIOUS
<1>1. KeptAreFiles
  BY DEF Init, KeptAreFiles
<1>2. ASSUME NEW w \in Workers
      PROVE  NewFor(w)
  <2>1. /\ step[w] = "idle" /\ answer[w] = {}
        /\ \A f \in Files : indexed[w][f] = 0
    BY DEF Init, Actors
  <2>2. MemShape
    BY InitHasShape
  <2>3. ASSUME NEW f \in Files
        PROVE  Beyond(f, 0)
    BY <2>2 DEF MemShape, World, Beyond
  <2>4. ASSUME NEW f \in Files, Has(store, SectionId(f))
        PROVE  store.nodes[SectionId(f)].text >= 0
    <3>1. store.nodes[SectionId(f)] \in NodeData(Nat)
      BY <2>2, <2>4, FetchedNode DEF MemShape, World
    <3> QED BY <3>1 DEF NodeData
  <2> QED BY <2>1, <2>3, <2>4 DEF NewFor, SectionIsNew, NotOlder, QuerySteps, SyncSteps
<1> QED BY <1>1, <1>2 DEF TextsAreNew

LEMMA KeptStay == MemShape /\ KeptAreFiles /\ [Next]_vars => KeptAreFiles'
<1> SUFFICES ASSUME MemShape, KeptAreFiles, [Next]_vars PROVE KeptAreFiles'
  OBVIOUS
<1>1. ASSUME \/ UNCHANGED kept
             \/ \E w \in Workers : kept' = [kept EXCEPT ![w] = {}]
             \/ \E w \in Workers : Current(w) \in Files /\ kept' = [kept EXCEPT ![w] = @ \cup {Current(w)}]
      PROVE  KeptAreFiles'
  BY <1>1 DEF KeptAreFiles
<1>2. CASE UNCHANGED vars
  BY <1>1, <1>2 DEF vars, progress
<1>3. ASSUME NEW a \in Actors, Sync(a) PROVE KeptAreFiles'
  <2>1. CASE FileVanished(a)
    BY <1>1, <2>1 DEF FileVanished, Die, NoList
  <2>2. CASE ~FileVanished(a)
    BY <1>1, <1>3, <2>2 DEF Sync, SyncMissing, SyncExists, ReadFile, UpsertFile, DropEdges,
         DropSections, ReadSections, UpsertSection, LinkSection, progress
  <2> QED BY <2>1, <2>2
<1>4. ASSUME NEW w \in Workers,
             ReceiveQuery(w) \/ PlannerFails(w) \/ PlanRejected(w) \/ PlanFinishes(w) \/ NothingToGrow(w)
             \/ FinishQuery(w)
      PROVE  KeptAreFiles'
  BY <1>1, <1>4 DEF ReceiveQuery, PlannerFails, PlanRejected, PlanFinishes, NothingToGrow, FinishQuery, Respond,
                    Die, NoList
<1>5. ASSUME NEW w \in Workers, QueryUnderWay(w) PROVE KeptAreFiles'
  <2>1. CASE KeepSummary(w) \/ LookAgain(w)
    <3>1. Current(w) \in Files
      BY <1>5, <2>1, QueryMoves DEF KeepSummary, LookAgain, At, LoopSteps, QuerySteps
    <3> QED BY <1>1, <2>1, <3>1 DEF KeepSummary, LookAgain
  <2>2. CASE ~(KeepSummary(w) \/ LookAgain(w))
    BY <1>1, <1>5, <2>2 DEF QueryUnderWay, PlanTraversal, UpsertProject, Contain, HangFile, RestoreFile,
         ListSections, ReadSection, SectionSummarized, SummaryFails, WriteSummary, SkipFileSummary,
         FileSummarized, WriteFileSummary, progress
  <2> QED BY <2>1, <2>2
<1>6. ASSUME NEW w \in Workers, TakeKnown(w) \/ TakeFeedback(w) \/ TakeChanged(w) \/ RemapUnderWay(w)
      PROVE  KeptAreFiles'
  BY <1>1, <1>6 DEF TakeKnown, TakeFeedback, TakeChanged, RemapUnderWay, RemapMissing, RemapExists, RemapRead,
                    RemapVanished, RemapFails, RemapFile, RemapList, RemapSection, Die, NoList, progress
<1>7. (\E w \in Workers : Restart(w)) => KeptAreFiles'
  BY <1>1 DEF Restart, progress
<1>8. (\E a \in Authors : \/ GoOn(a) \/ Notify(a) \/ \E hint : Ask(a, hint)
                          \/ \E files : WriteFiles(a, files)) => KeptAreFiles'
  BY <1>1 DEF GoOn, Notify, Ask, WriteFiles, progress
<1>9. (\E w \in Workers : (\E files : SendChanged(w, files)) \/ \E batch : SendAgain(w, batch)) => KeptAreFiles'
  BY <1>1 DEF SendChanged, SendAgain, progress
<1>10. (\E f, there : ChangeOnDisk(f, there)) => KeptAreFiles'
  BY <1>1 DEF ChangeOnDisk, progress
<1> QED BY <1>2, <1>3, <1>4, <1>5, <1>6, <1>7, <1>8, <1>9, <1>10, NextSteps

(* A step that is not the worker's.                                        *)
LEMMA OthersKeepNew ==
    ASSUME MemShape, NEW w \in Workers, NewFor(w), Untouched(w), Grown,
           SectionsStay \/ \E f \in Files : \E d : OneSectionWritten(f, d) /\ d.text = 0
    PROVE  NewFor(w)'
<1>1. World /\ WorkerOK(w) /\ w \in Actors
  BY DEF MemShape, Actors
<1>2. UNCHANGED <<step[w], held[w], node[w], todo[w], answer[w], indexed[w]>>
  BY DEF Untouched
<1>3. ASSUME NEW f \in Files
      PROVE  Beyond(f, indexed[w][f])'
  <2>1. indexed[w][f] \in Nat /\ indexed[w][f] <= edits + 1 /\ Beyond(f, indexed[w][f])
    BY <1>1 DEF WorkerOK, NewFor
  <2> QED BY <1>1, <1>2, <2>1, StaysBeyond DEF Beyond
<1>4. ASSUME NEW f \in Files, SectionIsNew(w, f)
      PROVE  SectionIsNew(w, f)'
  BY <1>2, <1>4 DEF SectionIsNew, NotOlder, SectionsStay, OneSectionWritten
<1>5. Current(w)' = Current(w)
  BY <1>2 DEF Current
<1> QED BY <1>2, <1>3, <1>4, <1>5 DEF NewFor, NotOlder

(* The worker's own steps that read no text and index none.                *)
LEMMA WorkKeepsNew ==
    ASSUME NEW w \in Workers, NewFor(w), UNCHANGED <<disk, indexed>>,
           step[w] \notin {"node", "edges", "sections"},
           step'[w] \notin {"node", "edges", "sections", "ask", "write", "remapsection"},
           SectionsStay \/ \E f \in Files : \E d : OneSectionWritten(f, d) /\ NotOlder(d.text, w, f),
           \A r \in answer'[w] : NotOlder(r.text, w, r.file),
           step'[w] \in QuerySteps \cup {"plan"} => answer'[w] = {}
    PROVE  NewFor(w)'
<1>1. \A f \in Files : SectionIsNew(w, f)
  BY DEF NewFor
<1>2. ASSUME NEW f \in Files
      PROVE  SectionIsNew(w, f)'
  BY <1>1 DEF SectionIsNew, NotOlder, SectionsStay, OneSectionWritten
<1>3. \A f \in Files : Beyond(f, indexed[w][f])'
  BY DEF NewFor, Beyond
<1> QED BY <1>2, <1>3 DEF NewFor, NotOlder

LEMMA SyncKeepsNew ==
    ASSUME MemShape, MemShape', NEW w \in Workers, NewFor(w), Sync(w)
    PROVE  NewFor(w)'
<1>1. /\ step[w] \in SyncSteps /\ Current(w) \in Files /\ w \in Actors /\ Functions /\ World /\ WorkerOK(w)
      /\ Framed(w) /\ UNCHANGED disk
  BY SyncStore DEF MemShape, Framed, Actors
<1>2. UNCHANGED answer /\ answer[w] = {}
  <2>1. UNCHANGED answer
    BY DEF Sync, SyncMissing, SyncExists, ReadFile, FileVanished, Die, UpsertFile, DropEdges, DropSections,
           ReadSections, UpsertSection, LinkSection, results, mail
  <2> QED BY <1>1, <2>1 DEF NewFor, QuerySteps
<1> USE DEF QuerySteps, SyncSteps
<1>3. CASE ReadFile(w)
  <2>1. /\ step[w] = "read" /\ step'[w] = "node" /\ UNCHANGED <<store, todo, node>>
        /\ indexed' = [indexed EXCEPT ![w][Current(w)] = disk[Current(w)]]
    BY <1>1, <1>3 DEF ReadFile, At, Goto, Functions
  <2>2. indexed'[w] = [indexed[w] EXCEPT ![Current(w)] = disk[Current(w)]]
    BY <1>1, <2>1 DEF Functions
  <2>3. disk[Current(w)] \in Nat
    BY <1>1 DEF World
  <2>4. \A f \in Files : Beyond(f, indexed[w][f])'
    BY <1>1, <2>2, <2>3 DEF NewFor, Beyond, WorkerOK
  <2>5. ASSUME NEW f \in Files, f # Current(w)
        PROVE  SectionIsNew(w, f)'
    <3>1. SectionIsNew(w, f) /\ indexed'[w][f] = indexed[w][f]
      BY <1>1, <2>1, <2>2, <2>5 DEF NewFor, WorkerOK
    <3> QED BY <2>1, <3>1 DEF SectionIsNew, NotOlder
  <2>6. Current(w)' = Current(w)
    BY <2>1 DEF Current
  <2> QED BY <1>2, <2>1, <2>4, <2>5, <2>6 DEF NewFor
<1>4. CASE UpsertFile(w) \/ DropEdges(w) \/ DropSections(w)
  <2>1. /\ step[w] \in {"node", "edges", "sections"} /\ UNCHANGED <<indexed, todo>> /\ SectionsStay
        /\ step'[w] \in {"edges", "sections"} \/ (DropSections(w) /\ step'[w] = "reread")
    <3>1. ~UpsertSection(w)
      BY <1>4 DEF UpsertFile, DropEdges, DropSections, UpsertSection, At
    <3>2. SectionsStay
      BY <1>1, <3>1, SyncStore
    <3> QED BY <1>1, <1>4, <3>2 DEF UpsertFile, DropEdges, DropSections, At, Goto, Functions, progress, results
  <2>2. Current(w)' = Current(w)
    BY <2>1 DEF Current
  <2>3. ASSUME NEW f \in Files, SectionIsNew(w, f)
        PROVE  SectionIsNew(w, f)'
    BY <2>1, <2>3 DEF SectionIsNew, NotOlder, SectionsStay
  <2>4. DropSections(w) => SectionIsNew(w, Current(w))'
    <3>1. DropSections(w) => ~Has(store', SectionId(Current(w)))
      BY <1>1, SyncStore
    <3> QED BY <2>2, <3>1 DEF SectionIsNew
  <2>5. \A f \in Files : Beyond(f, indexed[w][f])'
    BY <1>1, <2>1 DEF NewFor, Beyond
  <2> QED BY <1>2, <2>1, <2>2, <2>3, <2>4, <2>5 DEF NewFor
<1>5. CASE UpsertSection(w)
  <2>1. /\ step[w] = "section" /\ step'[w] = "link" /\ UNCHANGED <<disk, indexed>>
        /\ OneSectionWritten(Current(w), Plain(held[w])) /\ Plain(held[w]).text = 0
    BY <1>1, <1>5, SyncStore DEF UpsertSection, At, Goto, Functions, results, diskVars, Plain
  <2>2. \E f \in Files : \E d : OneSectionWritten(f, d) /\ NotOlder(d.text, w, f)
    BY <1>1, <2>1 DEF NotOlder
  <2> QED BY <1>2, <2>1, <2>2, WorkKeepsNew
<1>6. CASE SyncMissing(w) \/ SyncExists(w) \/ FileVanished(w) \/ ReadSections(w) \/ LinkSection(w)
  <2>1. step[w] \notin {"node", "edges", "sections"} /\ UNCHANGED <<disk, indexed>> /\ SectionsStay
    <3>1. ~UpsertSection(w)
      BY <1>6 DEF SyncMissing, SyncExists, FileVanished, ReadSections, LinkSection, UpsertSection, At
    <3>2. SectionsStay
      BY <1>1, <3>1, SyncStore
    <3> QED BY <1>1, <1>6, <3>2 DEF SyncMissing, SyncExists, FileVanished, Die, ReadSections, LinkSection, At, results
  <2>2. step'[w] \in {"hang", "idle", "check", "list", "read", "dead", "section"}
    <3>1. CASE Synced(w)
      BY <1>1, <3>1, SyncedMoves
    <3>2. CASE ~Synced(w)
      BY <1>1, <1>6, <3>2 DEF SyncMissing, SyncExists, FileVanished, Die, Rest, ReadSections, LinkSection, Goto, Functions
    <3> QED BY <3>1, <3>2
  <2> QED BY <1>2, <2>1, <2>2, WorkKeepsNew
<1> QED BY <1>3, <1>4, <1>5, <1>6 DEF Sync

LEMMA AnswersAreNew ==
    ASSUME NEW w \in Workers, NewFor(w), step[w] \notin {"node", "edges", "sections"},
           NEW fs \in SUBSET Files, NEW r \in Assembled(fs)
    PROVE  NotOlder(r.text, w, r.file)
BY DEF Assembled, NewFor, SectionIsNew

LEMMA EndKeepsNew ==
    ASSUME MemShape, KeptAreFiles, NEW w \in Workers, NewFor(w),
           PlannerFails(w) \/ PlanRejected(w) \/ PlanFinishes(w) \/ NothingToGrow(w) \/ FinishQuery(w)
    PROVE  NewFor(w)'
<1>1. w \in Actors /\ Functions
  BY DEF MemShape, Actors
<1>2. /\ UNCHANGED <<disk, store, indexed>>
      /\ step[w] \in {"plan", "project", "finish"} /\ step'[w] \in {"idle", "dead"}
      /\ \/ answer' = answer
         \/ \E fs \in SUBSET Files : answer'[w] = Assembled(fs)
         \/ answer'[w] = {}
  <2>1. CASE PlannerFails(w)
    BY <1>1, <2>1 DEF PlannerFails, Die, At, Goto, Functions, diskVars
  <2>2. CASE ~PlannerFails(w)
    <3>1. \E found : Respond(w, found) /\ (found = {} \/ \E fs \in SUBSET Files : found = Assembled(fs))
      BY <2>2 DEF PlanRejected, PlanFinishes, NothingToGrow, FinishQuery, KeptAreFiles
    <3>2. step[w] \in {"plan", "project", "finish"}
      BY <2>2 DEF PlanRejected, PlanFinishes, NothingToGrow, FinishQuery, At
    <3> QED BY <1>1, <3>1, <3>2 DEF Respond, Rest, Goto, Functions, diskVars
  <2> QED BY <2>1, <2>2
<1>3. \A r \in answer'[w] : NotOlder(r.text, w, r.file)
  BY <1>2, AnswersAreNew DEF NewFor
<1>4. SectionsStay
  BY <1>2, StoreStays
<1> QED BY <1>2, <1>3, <1>4, WorkKeepsNew DEF QuerySteps, SyncSteps

LEMMA ReceiveKeepsNew ==
    ASSUME MemShape, NEW w \in Workers, NewFor(w), ReceiveQuery(w)
    PROVE  NewFor(w)'
<1>1. w \in Actors /\ Functions /\ World
  BY DEF MemShape, Actors
<1>2. /\ UNCHANGED <<disk, store>> /\ step'[w] \in {"idle", "plan", "project"}
      /\ indexed'[w] = [f \in Files |-> 0] /\ answer'[w] = {}
  BY <1>1 DEF ReceiveQuery, Goto, Functions, diskVars
<1>3. ASSUME NEW f \in Files
      PROVE  Beyond(f, indexed[w][f])'
  BY <1>1, <1>2 DEF World, Beyond
<1>4. ASSUME NEW f \in Files
      PROVE  SectionIsNew(w, f)'
  <2>1. Has(store, SectionId(f)) => store.nodes[SectionId(f)].text \in Nat
    BY <1>1, FetchedNode DEF World, NodeData
  <2> QED BY <1>2, <2>1 DEF SectionIsNew, NotOlder
<1> QED BY <1>2, <1>3, <1>4 DEF NewFor

LEMMA QueryKeepsNew ==
    ASSUME MemShape, MemShape', NEW w \in Workers, NewFor(w), QueryUnderWay(w)
    PROVE  NewFor(w)'
<1>1. /\ Framed(w) /\ Functions /\ World /\ ActorOK(w) /\ WorkerOK(w) /\ w \in Actors
      /\ step[w] \in QuerySteps \cup {"plan"}
      /\ step[w] \in LoopSteps => Current(w) \in todo[w] /\ Current(w) \in Files
      /\ UNCHANGED <<indexed, answer, disk>>
  BY QueryMoves DEF MemShape, Framed
<1>2. answer'[w] = {}
  BY <1>1 DEF NewFor
<1>3. step[w] \notin {"node", "edges", "sections"}
  BY DEF QueryUnderWay, At, PlanTraversal, UpsertProject, Contain, HangFile, RestoreFile, ListSections,
         KeepSummary, ReadSection, SectionSummarized, SummaryFails, WriteSummary, LookAgain, SkipFileSummary,
         FileSummarized, WriteFileSummary
<1>4. \A f \in Files : SectionIsNew(w, f) /\ Beyond(f, indexed[w][f])
  BY <1>3 DEF NewFor
<1>5. CASE WriteSummary(w)
  <2>1. step[w] = "write" /\ step'[w] = "look" /\ Current(w) \in Files
    BY <1>1, <1>5 DEF WriteSummary, At, Goto, Functions, LoopSteps, QuerySteps
  <2>2. \E d : OneSectionWritten(Current(w), d) /\ d.text \in {held[w], node[w].text}
    BY <1>5, QueryStore
  <2>3. NotOlder(held[w], w, Current(w)) /\ NotOlder(node[w].text, w, Current(w))
    BY <2>1 DEF NewFor
  <2>4. \E f \in Files : \E d : OneSectionWritten(f, d) /\ NotOlder(d.text, w, f)
    BY <2>1, <2>2, <2>3
  <2> QED BY <1>1, <1>2, <1>3, <2>1, <2>4, WorkKeepsNew
<1>6. ~WriteSummary(w) => SectionsStay
  BY QueryStore
<1>7. CASE ReadSection(w)
  <2>1. /\ step[w] = "summary" /\ step'[w] = "ask" /\ UNCHANGED <<store, todo, node>>
        /\ held'[w] = disk[Current(w)] /\ Current(w) \in Files
    BY <1>1, <1>7 DEF ReadSection, At, Goto, Functions, LoopSteps, QuerySteps
  <2>2. Current(w)' = Current(w)
    BY <2>1 DEF Current
  <2>3. NotOlder(held[w], w, Current(w))'
    BY <1>1, <1>4, <2>1, <2>2 DEF NotOlder, Beyond
  <2>4. \A f \in Files : SectionIsNew(w, f)' /\ Beyond(f, indexed[w][f])'
    BY <1>1, <1>4, <2>1 DEF SectionIsNew, NotOlder, Beyond
  <2> QED BY <1>2, <2>1, <2>3, <2>4 DEF NewFor
<1>8. CASE SectionSummarized(w)
  <2>1. /\ step[w] = "ask" /\ UNCHANGED <<store, todo, held>>
        /\ node'[w] = Section(store, Current(w)) /\ Current(w) \in Files
        /\ step'[w] = IF Section(store, Current(w)) = NoNode THEN "look" ELSE "write"
    BY <1>1, <1>8 DEF SectionSummarized, At, Goto, Functions, LoopSteps, QuerySteps
  <2>2. Current(w)' = Current(w)
    BY <2>1 DEF Current
  <2>3. NotOlder(held[w], w, Current(w))'
    BY <1>1, <2>1, <2>2 DEF NewFor, NotOlder
  <2>4. step'[w] = "write" => NotOlder(node[w].text, w, Current(w))'
    BY <1>1, <1>4, <2>1, <2>2 DEF SectionIsNew, Section, NotOlder
  <2>5. \A f \in Files : SectionIsNew(w, f)' /\ Beyond(f, indexed[w][f])'
    BY <1>1, <1>4, <2>1 DEF SectionIsNew, NotOlder, Beyond
  <2> QED BY <1>2, <2>1, <2>3, <2>4, <2>5 DEF NewFor
<1>9. CASE ~(WriteSummary(w) \/ ReadSection(w) \/ SectionSummarized(w))
  <2>1. step'[w] \notin {"node", "edges", "sections", "ask", "write", "remapsection"}
    <3>1. CASE NextSection(w) \/ \E again, after : /\ NextFile(w, again, after)
                                                  /\ {again, after} \subseteq {"contain", "check", "hang", "idle", "file", "finish"}
      BY <1>1, <3>1, NextMoves, LoopMoves DEF NextSection
    <3>2. CASE PlanTraversal(w) \/ HangFile(w) \/ SummaryFails(w) \/ FileSummarized(w)
      BY <1>1, <3>2 DEF PlanTraversal, HangFile, SummaryFails, FileSummarized, Goto, Functions
    <3>3. CASE \E fs, body, after : /\ Loop(w, fs, body, after)
                                   /\ {body, after} \subseteq {"contain", "check", "list", "summary", "finish"}
      BY <1>1, <3>3, LoopMoves
    <3> QED BY <1>9, <3>1, <3>2, <3>3 DEF QueryUnderWay, UpsertProject, Contain, RestoreFile, ListSections,
         KeepSummary, LookAgain, SkipFileSummary, WriteFileSummary
  <2> QED BY <1>1, <1>2, <1>3, <1>6, <1>9, <2>1, WorkKeepsNew
<1> QED BY <1>5, <1>7, <1>8, <1>9

LEMMA RemapKeepsNew ==
    ASSUME MemShape, NEW w \in Workers, NewFor(w),
           TakeKnown(w) \/ TakeFeedback(w) \/ TakeChanged(w) \/ RemapUnderWay(w)
    PROVE  NewFor(w)'
<1>1. w \in Actors /\ Functions /\ Framed(w) /\ UNCHANGED disk
  BY RemapIsFramed DEF MemShape, Actors, Remap, RemapUnderWay, Framed
<1>2. CASE TakeKnown(w) \/ TakeFeedback(w) \/ TakeChanged(w)
  <2>1. UNCHANGED <<store, indexed, answer>> /\ step[w] = "idle" /\ step'[w] \in {"idle", "remap"}
    <3>1. step[w] = "idle" /\ UNCHANGED <<store, indexed, answer>>
      BY <1>2 DEF TakeKnown, TakeFeedback, TakeChanged, Take, At, results
    <3>2. TakeKnown(w) => step'[w] = "idle"
      BY <3>1 DEF TakeKnown
    <3>3. TakeFeedback(w) \/ TakeChanged(w) => step'[w] \in {"idle", "remap"}
      BY <1>1, LoopMoves DEF TakeFeedback, TakeChanged
    <3> QED BY <1>2, <3>1, <3>2, <3>3
  <2>2. SectionsStay
    BY <2>1, StoreStays
  <2>3. \A r \in answer'[w] : NotOlder(r.text, w, r.file)
    BY <2>1 DEF NewFor
  <2> QED BY <1>1, <2>1, <2>2, <2>3, WorkKeepsNew DEF QuerySteps, SyncSteps
<1>3. CASE RemapUnderWay(w)
  <2>1. /\ step[w] \in RemapSteps /\ Current(w) \in Files /\ UNCHANGED <<indexed, answer>>
    BY <1>3, RemapMoves
  <2>2. step[w] \notin {"node", "edges", "sections"}
    BY <2>1 DEF RemapSteps
  <2>3. \A r \in answer'[w] : NotOlder(r.text, w, r.file)
    BY <2>1 DEF NewFor
  <2>4. CASE RemapList(w) /\ Section(store, Current(w)) # NoNode
    <3>1. /\ step'[w] = "remapsection" /\ UNCHANGED <<store, todo>>
          /\ node'[w] = Section(store, Current(w))
      BY <1>1, <2>4 DEF RemapList, Goto, Functions
    <3>2. Current(w)' = Current(w)
      BY <3>1 DEF Current
    <3>3. NotOlder(node[w].text, w, Current(w))'
      BY <2>1, <2>2, <2>4, <3>1, <3>2 DEF NewFor, SectionIsNew, Section, NotOlder
    <3>4. \A f \in Files : SectionIsNew(w, f)' /\ Beyond(f, indexed[w][f])'
      BY <1>1, <2>1, <2>2, <3>1 DEF NewFor, SectionIsNew, NotOlder, Beyond
    <3>5. \A r \in answer'[w] : NotOlder(r.text, w, r.file)'
      BY <2>1, <2>3 DEF NotOlder
    <3> QED BY <3>1, <3>3, <3>4, <3>5 DEF NewFor, QuerySteps, SyncSteps
  <2>5. CASE ~(RemapList(w) /\ Section(store, Current(w)) # NoNode)
    <3>1. step'[w] \in {"remap", "remapread", "remapfile", "remaplist", "idle", "dead"}
      <4>1. ASSUME NEW without, FileDone(w, without)
            PROVE  step'[w] \in {"remap", "idle"}
        BY <1>1, <4>1, NextMoves DEF FileDone
      <4>2. RemapFails(w) => step'[w] \in {"idle", "dead"}
        BY <1>1 DEF RemapFails, Rest, Die, Goto, Functions
      <4>3. RemapExists(w) \/ RemapRead(w) \/ RemapFile(w) => step'[w] \in {"remapread", "remapfile", "remaplist"}
        BY <1>1 DEF RemapExists, RemapRead, RemapFile, Goto, Functions
      <4> QED BY <1>3, <2>5, <4>1, <4>2, <4>3 DEF RemapUnderWay, RemapMissing, RemapVanished, RemapList, RemapSection
    <3>2. SectionsStay \/ \E f \in Files : \E d : OneSectionWritten(f, d) /\ NotOlder(d.text, w, f)
      <4>1. CASE RemapSection(w)
        <5>1. NotOlder(node[w].text, w, Current(w))
          BY <4>1 DEF RemapSection, At, NewFor
        <5>2. \E d : OneSectionWritten(Current(w), d) /\ d.text = node[w].text
          BY <1>3, <4>1, RemapStore
        <5> QED BY <2>1, <5>1, <5>2
      <4>2. CASE ~RemapSection(w)
        BY <1>3, <4>2, RemapStore
      <4> QED BY <4>1, <4>2
    <3> QED BY <1>1, <2>1, <2>2, <2>3, <3>1, <3>2, WorkKeepsNew DEF QuerySteps, SyncSteps
  <2> QED BY <2>4, <2>5
<1> QED BY <1>2, <1>3

(* A step of the world, an author or a restart.                            *)
LEMMA OutsideIsGrown ==
    ASSUME MemShape,
           \/ \E a \in Authors : \/ GoOn(a) \/ Notify(a) \/ \E hint \in SUBSET Files : Ask(a, hint)
                                 \/ \E files \in SUBSET Files : WriteFiles(a, files)
           \/ \E w \in Workers : \/ \E files \in SUBSET Files : SendChanged(w, files)
                                 \/ \E batch \in DOMAIN batches : SendAgain(w, batch)
           \/ \E f \in Files, there \in BOOLEAN : ChangeOnDisk(f, there)
    PROVE  Grown /\ UNCHANGED <<store, acked>> /\ \A w \in Workers : Untouched(w)
<1>1. World /\ Functions /\ Authors \cap Workers = {}
  BY MemoryAssumption DEF MemShape
<1>2. ASSUME NEW a \in Authors, GoOn(a) \/ Notify(a) \/ (\E hint : Ask(a, hint)) \/ \E files : WriteFiles(a, files)
      PROVE  UNCHANGED <<store, acked>> /\ \A w \in Workers : Untouched(w)
  <2>1. UNCHANGED <<store, acked, absent, done, indexed, answer>>
    BY <1>2 DEF GoOn, Notify, Ask, WriteFiles, progress, results
  <2>2. ASSUME NEW w \in Workers
        PROVE  step'[w] = step[w] /\ job'[w] = job[w] /\ todo'[w] = todo[w] /\ held'[w] = held[w] /\ node'[w] = node[w]
    <3>1. w \in Actors /\ w # a
      BY <1>1 DEF Actors
    <3>2. CASE GoOn(a)
      BY <1>1, <3>1, <3>2 DEF GoOn, Goto, Functions, progress
    <3>3. CASE Notify(a)
      BY <1>1, <3>1, <3>3 DEF Notify, Goto, Functions, progress
    <3>4. CASE \E hint : Ask(a, hint)
      BY <1>1, <3>1, <3>4 DEF Ask, Goto, Functions, progress
    <3>5. CASE \E files : WriteFiles(a, files)
      BY <1>1, <3>1, <3>5 DEF WriteFiles, Loop, Forget, Goto, Functions
    <3> QED BY <1>2, <3>2, <3>3, <3>4, <3>5
  <2> QED BY <2>1, <2>2 DEF Untouched
<1>3. ASSUME \/ \E w, files : SendChanged(w, files)
             \/ \E w, batch : SendAgain(w, batch)
             \/ \E f, there : ChangeOnDisk(f, there)
      PROVE  UNCHANGED <<store, acked>> /\ \A w \in Workers : Untouched(w)
  BY <1>3 DEF SendChanged, SendAgain, ChangeOnDisk, Untouched, progress, results
<1>4. CASE UNCHANGED <<disk, edits, batches>>
  BY <1>2, <1>3, <1>4, WorldStays
<1>5. CASE \E a \in Authors : Notify(a)
  <2>1. UNCHANGED <<disk, edits>> /\ \E b : batches' = Append(batches, b)
    BY <1>5 DEF Notify, diskVars
  <2>2. DOMAIN batches \subseteq DOMAIN batches' /\ \A i \in DOMAIN batches : batches'[i] = batches[i]
    BY <1>1, <2>1 DEF World
  <2>3. Grown
    BY <1>1, <2>1, <2>2 DEF Grown, World
  <2> QED BY <1>2, <1>5, <2>3
<1>6. CASE \/ \E a \in Authors, files \in SUBSET Files : WriteFiles(a, files)
           \/ \E f \in Files, there \in BOOLEAN : ChangeOnDisk(f, there)
  <2>1. /\ edits' = edits + 1 /\ UNCHANGED <<batches, store>>
    BY <1>6 DEF WriteFiles, ChangeOnDisk, mail
  <2>2. disk' \in [Files -> Nat] /\ \A f \in Files : disk'[f] \in {0, disk[f], edits + 2}
    <3>1. \/ \E files \in SUBSET Files : disk' = [f \in Files |-> IF f \in files THEN edits + 2 ELSE disk[f]]
          \/ \E g \in Files, there \in BOOLEAN : disk' = [disk EXCEPT ![g] = IF there THEN edits + 2 ELSE 0]
      BY <1>6 DEF WriteFiles, ChangeOnDisk
    <3> QED BY <1>1, <3>1 DEF World
  <2> QED BY <1>2, <1>3, <1>6, <2>1, <2>2, EditsGrow
<1> QED BY <1>2, <1>3, <1>4, <1>5, <1>6 DEF GoOn, Ask, SendChanged, SendAgain, diskVars, mail

LEMMA NextKeepsNew ==
    ASSUME OneWorker, MemShape, MemShape', TextsAreNew, [Next]_vars
    PROVE  TextsAreNew'
<1>1. KeptAreFiles'
  BY KeptStay DEF TextsAreNew
<1>2. ASSUME NEW w \in Workers
      PROVE  NewFor(w)'
  <2>1. NewFor(w) /\ KeptAreFiles /\ (\A v \in Workers : v = w) /\ w \in Actors /\ w \notin Authors
    BY MemoryAssumption DEF TextsAreNew, OneWorker, Actors
  <2>2. CASE UNCHANGED vars
    BY <2>1, <2>2 DEF NewFor, NotOlder, SectionIsNew, Beyond, Current, vars, diskVars, progress, mail, results
  <2>3. ASSUME NEW a \in Actors, Sync(a)
        PROVE  NewFor(w)'
    <3>1. CASE a = w
      BY <2>1, <2>3, <3>1, SyncKeepsNew
    <3>2. CASE a # w
      <4>1. Untouched(w) /\ Grown
        BY <2>1, <2>3, <3>2, SyncIsFramed, WorldStays DEF Framed
      <4>2. SectionsStay \/ \E f \in Files : \E d : OneSectionWritten(f, d) /\ d.text = 0
        <5>1. Plain(held[a]).text = 0
          BY DEF Plain
        <5>2. SectionsStay \/ (Current(a) \in Files /\ OneSectionWritten(Current(a), Plain(held[a])))
          BY <2>3, SyncStore
        <5> QED BY <5>1, <5>2
      <4> QED BY <2>1, <4>1, <4>2, OthersKeepNew
    <3> QED BY <3>1, <3>2
  <2>4. ASSUME NEW v \in Workers,
               \/ ReceiveQuery(v)
               \/ PlannerFails(v) \/ PlanRejected(v) \/ PlanFinishes(v) \/ NothingToGrow(v) \/ FinishQuery(v)
               \/ QueryUnderWay(v) \/ TakeKnown(v) \/ TakeFeedback(v) \/ TakeChanged(v) \/ RemapUnderWay(v)
        PROVE  NewFor(w)'
    <3>1. v = w
      BY <2>1
    <3> QED BY <2>1, <2>4, <3>1, ReceiveKeepsNew, EndKeepsNew, QueryKeepsNew, RemapKeepsNew
  <2>5. ASSUME NEW v \in Workers, Restart(v)
        PROVE  NewFor(w)'
    <3>1. /\ v = w /\ step[w] = "dead" /\ step'[w] = "idle"
          /\ UNCHANGED <<disk, store, indexed, answer>>
      BY <2>1, <2>5 DEF Restart, At, Goto, MemShape, Functions, diskVars, results
    <3>2. SectionsStay /\ \A r \in answer'[w] : NotOlder(r.text, w, r.file)
      BY <2>1, <3>1, StoreStays DEF NewFor
    <3> QED BY <2>1, <3>1, <3>2, WorkKeepsNew DEF QuerySteps, SyncSteps
  <2>6. ASSUME \/ \E a \in Authors : \/ GoOn(a) \/ Notify(a) \/ \E hint \in SUBSET Files : Ask(a, hint)
                                     \/ \E files \in SUBSET Files : WriteFiles(a, files)
               \/ \E v \in Workers : \/ \E files \in SUBSET Files : SendChanged(v, files)
                                     \/ \E batch \in DOMAIN batches : SendAgain(v, batch)
               \/ \E f \in Files, there \in BOOLEAN : ChangeOnDisk(f, there)
        PROVE  NewFor(w)'
    BY <2>1, <2>6, OutsideIsGrown, StoreStays, OthersKeepNew
  <2> QED BY <2>2, <2>3, <2>4, <2>5, <2>6, NextSteps
<1> QED BY <1>1, <1>2 DEF TextsAreNew

(* The memory's answers are about the text they indexed: with one worker    *)
(* on a store, what a query answers with was made from a text at least as   *)
(* new as the one the query has indexed, whatever the authors write and     *)
(* bring up to date, and whenever files change, meanwhile.                  *)
THEOREM AnswersAreCurrent == OneWorker => (Spec => []AnswersUseIndexedText)
<1> SUFFICES ASSUME OneWorker PROVE Spec => []AnswersUseIndexedText
  OBVIOUS
<1>1. Init => MemShape /\ TextsAreNew
  BY InitHasShape, InitIsNew
<1>2. MemShape /\ TextsAreNew /\ [Next]_vars => (MemShape /\ TextsAreNew)'
  BY NextKeepsShape, NextKeepsNew
<1>3. TextsAreNew => AnswersUseIndexedText
  BY DEF TextsAreNew, NewFor, NotOlder, AnswersUseIndexedText
<1> QED BY <1>1, <1>2, <1>3, PTL DEF Spec

-----------------------------------------------------------------------------
(* What an answered batch announced stays.  A claim on a file is made by an *)
(* answer, by a batch a worker knows as applied, and by the files of the    *)
(* present batch a worker is through with.                                  *)

OneAuthor == \A a, b \in Authors : a = b

Batch(w) == batches[job[w].batch]

InBatch(f, v) == \E b \in DOMAIN batches : f \in batches[b].files /\ v = batches[b].version

Treated(w, f) ==
    /\ step[w] \in RemapSteps /\ job[w].kind = "feedback"
    /\ f \in Batch(w).files \ absent[w]
    /\ f \in todo[w] => f = Current(w) /\ step[w] \in {"remaplist", "remapsection"}

Claim(f, v) ==
    \/ \E r \in acked : r.file = f /\ r.version = v
    \/ \E w \in Workers : \E d \in done[w] :
          f \in batches[d.batch].files \ d.absent /\ v = batches[d.batch].version
    \/ \E w \in Workers : Treated(w, f) /\ v = Batch(w).version

FileHas(f, v) == Has(store, FileId(f)) /\ store.nodes[FileId(f)].print >= v

AnswersAreSent == \A r \in acked : r.file \in Files /\ InBatch(r.file, r.version)

ClaimsHold == \A f \in Files, v \in Nat : Claim(f, v) => FileHas(f, v)

(* What a writer is about to write is no older than what is claimed.        *)
WriterHolds(w) ==
    /\ step[w] \in {"node", "remapfile"} => \A v \in Nat : Claim(Current(w), v) => held[w] >= v
    /\ step[w] = "filewrite" \/ (step[w] = "restore" /\ node[w] # NoNode) =>
          \A v \in Nat : Claim(Current(w), v) => node[w].print >= v
    /\ step[w] = "remapfile" /\ job[w].kind = "feedback" => held[w] >= Batch(w).version

AuthorHolds(a) == step[a] = "node" => \A v \in Nat : InBatch(Current(a), v) => held[a] >= v

BatchesHold ==
    /\ AnswersAreSent /\ ClaimsHold
    /\ \A w \in Workers : WriterHolds(w)
    /\ \A a \in Authors : AuthorHolds(a)

LEMMA InitHolds == Init => BatchesHold
<1> SUFFICES ASSUME Init PROVE BatchesHold
  OBVIOUS
<1>1. acked = {} /\ (\A w \in Workers : done[w] = {}) /\ \A a \in Actors : step[a] = "idle"
  BY DEF Init
<1>2. AnswersAreSent /\ ClaimsHold
  BY <1>1 DEF AnswersAreSent, ClaimsHold, Claim, Treated, RemapSteps, Actors
<1> QED BY <1>1, <1>2 DEF BatchesHold, WriterHolds, AuthorHolds, Actors

LEMMA ClaimIsSent ==
    ASSUME MemShape, AnswersAreSent, NEW f, NEW v, Claim(f, v)
    PROVE  InBatch(f, v)
<1>1. ASSUME NEW w \in Workers, NEW d \in done[w]
      PROVE  d.batch \in DOMAIN batches
  BY DEF MemShape, WorkerOK
<1>2. ASSUME NEW w \in Workers, Treated(w, f)
      PROVE  job[w].batch \in DOMAIN batches /\ f \in Batch(w).files
  BY <1>2 DEF MemShape, WorkerOK, Treated
<1> QED BY <1>1, <1>2 DEF Claim, InBatch, AnswersAreSent, Batch

LEMMA SentIsBeyond ==
    ASSUME MemShape, NEW f \in Files, NEW v, InBatch(f, v)
    PROVE  v \in Nat /\ Beyond(f, v)
BY BatchesAreKnown DEF InBatch

LEMMA HasStays ==
    ASSUME NEW f \in Files, NEW v \in Nat, FileHas(f, v),
           FilesStay \/ \E g \in Files : \E d : OneFileWritten(g, d) /\ (g = f => d.print >= v)
    PROVE  FileHas(f, v)'
BY DEF FileHas, FilesStay, OneFileWritten

NoNewClaim == \A f, v : Claim(f, v)' => Claim(f, v)

LEMMA ClaimsStay ==
    ASSUME ClaimsHold, NoNewClaim,
           FilesStay \/ \E g \in Files : \E d : OneFileWritten(g, d) /\ \A v \in Nat : Claim(g, v) => d.print >= v
    PROVE  ClaimsHold'
BY HasStays DEF ClaimsHold, NoNewClaim

(* Nothing is answered or recorded, and no worker is through with more.     *)
LEMMA QuietStep ==
    ASSUME MemShape, Grown, UNCHANGED acked, AnswersAreSent,
           \A w \in Workers : done'[w] \subseteq done[w],
           \A w \in Workers : \A f : Treated(w, f)' => Treated(w, f) /\ job'[w] = job[w]
    PROVE  NoNewClaim /\ AnswersAreSent'
<1>1. ASSUME NEW w \in Workers, NEW d \in done[w]
      PROVE  batches'[d.batch] = batches[d.batch]
  BY DEF MemShape, WorkerOK, Grown
<1>2. ASSUME NEW w \in Workers, NEW f, Treated(w, f)'
      PROVE  Treated(w, f) /\ Batch(w)' = Batch(w)
  <2>1. Treated(w, f) /\ job'[w] = job[w]
    BY <1>2
  <2>2. job[w].batch \in DOMAIN batches
    BY <2>1 DEF MemShape, WorkerOK, Treated
  <2> QED BY <2>1, <2>2 DEF Batch, Grown
<1>3. NoNewClaim
  <2> SUFFICES ASSUME NEW f, NEW v, Claim(f, v)' PROVE Claim(f, v)
    BY DEF NoNewClaim
  <2>1. CASE \E r \in acked' : r.file = f /\ r.version = v
    BY <2>1 DEF Claim
  <2>2. CASE \E w \in Workers : \E d \in done'[w] :
                f \in batches'[d.batch].files \ d.absent /\ v = batches'[d.batch].version
    BY <1>1, <2>2 DEF Claim
  <2>3. CASE \E w \in Workers : Treated(w, f)' /\ v = Batch(w)'.version
    BY <1>2, <2>3 DEF Claim
  <2> QED BY <2>1, <2>2, <2>3 DEF Claim
<1>4. AnswersAreSent'
  BY DEF AnswersAreSent, InBatch, Grown
<1> QED BY <1>3, <1>4

(* A worker's step that leaves its remapping, or is not part of one.        *)
LEMMA QuietWork ==
    ASSUME MemShape, OneWorker, NEW w \in Workers, Framed(w), UNCHANGED acked, AnswersAreSent,
           done'[w] \subseteq done[w], step'[w] \notin RemapSteps
    PROVE  NoNewClaim /\ AnswersAreSent'
<1>1. Grown
  BY WorldStays DEF Framed
<1>2. \A v \in Workers : v = w
  BY DEF OneWorker
<1>3. \A v \in Workers : \A f : ~Treated(v, f)'
  BY <1>2 DEF Treated
<1> QED BY <1>1, <1>2, <1>3, QuietStep

LEMMA QuietOthers ==
    ASSUME MemShape, Grown, UNCHANGED acked, AnswersAreSent, \A w \in Workers : Untouched(w)
    PROVE  NoNewClaim /\ AnswersAreSent'
<1>1. ASSUME NEW w \in Workers, NEW f, Treated(w, f)'
      PROVE  Treated(w, f) /\ job'[w] = job[w]
  <2>1. UNCHANGED <<step[w], job[w], todo[w], absent[w]>>
    BY DEF Untouched
  <2>2. step[w] \in RemapSteps /\ job[w].kind = "feedback"
    BY <1>1, <2>1 DEF Treated
  <2>3. Batch(w)' = Batch(w)
    BY <2>1, <2>2 DEF MemShape, WorkerOK, Batch, Grown
  <2>4. Current(w)' = Current(w)
    BY <2>1 DEF Current
  <2> QED BY <1>1, <2>1, <2>3, <2>4 DEF Treated
<1>2. \A w \in Workers : done'[w] = done[w]
  BY DEF Untouched
<1> QED BY <1>1, <1>2, QuietStep

LEMMA WriterStays ==
    ASSUME MemShape, NEW w \in Workers, WriterHolds(w), Untouched(w), Grown, NoNewClaim
    PROVE  WriterHolds(w)'
<1>1. UNCHANGED <<step[w], job[w], todo[w], held[w], node[w]>>
  BY DEF Untouched
<1>2. Current(w)' = Current(w)
  BY <1>1 DEF Current
<1>3. step[w] = "remapfile" /\ job[w].kind = "feedback" => Batch(w)' = Batch(w)
  BY <1>1 DEF MemShape, WorkerOK, Batch, Grown, RemapSteps
<1> QED BY <1>1, <1>2, <1>3 DEF WriterHolds, NoNewClaim

LEMMA AuthorStays ==
    ASSUME NEW a \in Authors, AuthorHolds(a), Untouched(a), UNCHANGED batches
    PROVE  AuthorHolds(a)'
<1>1. UNCHANGED <<step[a], todo[a], held[a]>>
  BY DEF Untouched
<1>2. Current(a)' = Current(a)
  BY <1>1 DEF Current
<1> QED BY <1>1, <1>2 DEF AuthorHolds, InBatch

(* Nobody is about to write the node of a file.                             *)
LEMMA NoWriter ==
    ASSUME NEW w, step'[w] \notin {"node", "remapfile", "restore", "filewrite"}
    PROVE  WriterHolds(w)'
BY DEF WriterHolds

(* What is read from the disk is as new as every batch.                     *)
LEMMA ReadIsNew ==
    ASSUME MemShape, NEW f \in Files, disk[f] # 0
    PROVE  \A v : InBatch(f, v) => v \in Nat /\ disk[f] >= v
BY SentIsBeyond DEF Beyond

(* The worker's own steps outside remapping.                                *)
LEMMA WorkHolds ==
    ASSUME MemShape, OneWorker, BatchesHold, NEW w \in Workers, Framed(w), UNCHANGED acked,
           done'[w] \subseteq done[w], step'[w] \notin RemapSteps,
           FilesStay \/ \E g \in Files : \E d : OneFileWritten(g, d) /\ \A v \in Nat : Claim(g, v) => d.print >= v,
           NoNewClaim => WriterHolds(w)'
    PROVE  BatchesHold'
<1>1. NoNewClaim /\ AnswersAreSent'
  BY QuietWork DEF BatchesHold
<1>2. ClaimsHold'
  BY <1>1, ClaimsStay DEF BatchesHold
<1>3. \A v \in Workers : WriterHolds(v)'
  BY <1>1 DEF OneWorker
<1>4. ASSUME NEW a \in Authors
      PROVE  AuthorHolds(a)'
  <2>1. Untouched(a) /\ UNCHANGED batches
    BY MemoryAssumption DEF Framed, Actors
  <2> QED BY <2>1, AuthorStays DEF BatchesHold
<1> QED BY <1>1, <1>2, <1>3, <1>4 DEF BatchesHold

LEMMA SyncHolds ==
    ASSUME MemShape, OneWorker, BatchesHold, NEW w \in Workers, Sync(w)
    PROVE  BatchesHold'
<1>1. /\ step[w] \in SyncSteps /\ Current(w) \in Files /\ w \in Actors /\ Functions /\ World
      /\ Framed(w) /\ WriterHolds(w)
  BY SyncStore DEF MemShape, Actors, BatchesHold
<1>2. UNCHANGED acked /\ done'[w] \subseteq done[w]
  BY <1>1 DEF Sync, SyncMissing, SyncExists, ReadFile, FileVanished, Die, UpsertFile, DropEdges, DropSections,
         ReadSections, UpsertSection, LinkSection, results, Functions
<1>3. FilesStay \/ \E g \in Files : \E d : OneFileWritten(g, d) /\ \A v \in Nat : Claim(g, v) => d.print >= v
  <2>1. CASE UpsertFile(w)
    <3>1. step[w] = "node" /\ OneFileWritten(Current(w), Plain(held[w])) /\ Plain(held[w]).print = held[w]
      BY <1>1, <2>1, SyncStore DEF UpsertFile, At, Plain
    <3> QED BY <1>1, <3>1 DEF WriterHolds
  <2>2. CASE ~UpsertFile(w)
    BY <1>1, <2>2, SyncStore
  <2> QED BY <2>1, <2>2
<1>4. CASE ReadFile(w)
  <2>1. /\ step'[w] = "node" /\ UNCHANGED todo /\ held'[w] = disk[Current(w)] /\ disk[Current(w)] # 0
    BY <1>1, <1>4 DEF ReadFile, Goto, Functions
  <2>2. Current(w)' = Current(w)
    BY <2>1 DEF Current
  <2>3. NoNewClaim => WriterHolds(w)'
    BY <1>1, <2>1, <2>2, ClaimIsSent, ReadIsNew DEF WriterHolds, NoNewClaim, BatchesHold
  <2> QED BY <1>1, <1>2, <1>3, <2>1, <2>3, WorkHolds DEF RemapSteps
<1>5. CASE ~ReadFile(w)
  <2>1. step'[w] \in {"hang", "idle", "check", "list", "read", "dead", "section", "edges", "sections", "reread", "link"}
    <3>1. CASE Synced(w)
      BY <1>1, <3>1, SyncedMoves
    <3>2. CASE ~Synced(w)
      BY <1>1, <1>5, <3>2 DEF Sync, SyncMissing, SyncExists, FileVanished, Die, Rest, UpsertFile, DropEdges,
                              DropSections, ReadSections, UpsertSection, LinkSection, Goto, Functions
    <3> QED BY <3>1, <3>2
  <2> QED BY <1>1, <1>2, <1>3, <2>1, NoWriter, WorkHolds DEF RemapSteps
<1> QED BY <1>4, <1>5

LEMMA AuthorSyncHolds ==
    ASSUME MemShape, BatchesHold, NEW a \in Authors, Sync(a)
    PROVE  BatchesHold'
<1>1. /\ step[a] \in SyncSteps /\ Current(a) \in Files /\ a \in Actors /\ Functions /\ World
      /\ Framed(a) /\ AuthorHolds(a) /\ Grown /\ \A w \in Workers : w \in Actors \ {a}
  BY SyncStore, WorldStays, MemoryAssumption DEF MemShape, Actors, BatchesHold, Framed
<1>2. UNCHANGED acked /\ \A w \in Workers : Untouched(w)
  <2>1. a \notin Workers
    BY MemoryAssumption
  <2> QED BY <1>1, <2>1 DEF Sync, SyncMissing, SyncExists, ReadFile, FileVanished, UpsertFile, DropEdges, DropSections,
         ReadSections, UpsertSection, LinkSection, results, Framed
<1>3. NoNewClaim /\ AnswersAreSent'
  BY <1>1, <1>2, QuietOthers DEF BatchesHold
<1>4. FilesStay \/ \E g \in Files : \E d : OneFileWritten(g, d) /\ \A v \in Nat : Claim(g, v) => d.print >= v
  <2>1. CASE UpsertFile(a)
    <3>1. step[a] = "node" /\ OneFileWritten(Current(a), Plain(held[a])) /\ Plain(held[a]).print = held[a]
      BY <1>1, <2>1, SyncStore DEF UpsertFile, At, Plain
    <3>2. \A v \in Nat : Claim(Current(a), v) => held[a] >= v
      BY <1>1, <3>1, ClaimIsSent DEF AuthorHolds, BatchesHold
    <3> QED BY <1>1, <3>1, <3>2
  <2>2. CASE ~UpsertFile(a)
    BY <1>1, <2>2, SyncStore
  <2> QED BY <2>1, <2>2
<1>5. ClaimsHold'
  BY <1>3, <1>4, ClaimsStay DEF BatchesHold
<1>6. \A w \in Workers : WriterHolds(w)'
  BY <1>1, <1>2, <1>3, WriterStays DEF BatchesHold
<1>7. AuthorHolds(a)'
  <2>1. CASE ReadFile(a)
    <3>1. /\ UNCHANGED <<todo, batches>> /\ held'[a] = disk[Current(a)] /\ disk[Current(a)] # 0
      BY <1>1, <2>1 DEF ReadFile, Functions, Framed
    <3>2. Current(a)' = Current(a)
      BY <3>1 DEF Current
    <3> QED BY <1>1, <3>1, <3>2, ReadIsNew DEF AuthorHolds, InBatch
  <2>2. CASE ~ReadFile(a)
    <3>1. step'[a] # "node"
      <4>1. CASE Synced(a)
        BY <1>1, <4>1, SyncedMoves
      <4>2. CASE ~Synced(a)
        BY <1>1, <2>2, <4>2 DEF Sync, SyncMissing, SyncExists, FileVanished, Die, Rest, UpsertFile, DropEdges,
                                DropSections, ReadSections, UpsertSection, LinkSection, Goto, Functions
      <4> QED BY <4>1, <4>2
    <3> QED BY <3>1 DEF AuthorHolds
  <2> QED BY <2>1, <2>2
<1>8. ASSUME NEW b \in Authors, b # a
      PROVE  AuthorHolds(b)'
  <2>1. Untouched(b) /\ UNCHANGED batches
    BY <1>1, <1>8 DEF Framed, Actors
  <2> QED BY <2>1, AuthorStays DEF BatchesHold
<1> QED BY <1>3, <1>5, <1>6, <1>7, <1>8 DEF BatchesHold

LEMMA QueryHolds ==
    ASSUME MemShape, OneWorker, BatchesHold, NEW w \in Workers, QueryUnderWay(w)
    PROVE  BatchesHold'
<1>1. /\ Framed(w) /\ Functions /\ World /\ w \in Actors /\ WriterHolds(w)
      /\ step[w] \in LoopSteps => Current(w) \in Files
      /\ UNCHANGED <<done, acked>>
  BY QueryMoves DEF MemShape, BatchesHold
<1>2. FilesStay \/ \E g \in Files : \E d : OneFileWritten(g, d) /\ \A v \in Nat : Claim(g, v) => d.print >= v
  <2>1. CASE RestoreFile(w)
    <3>1. step[w] = "restore" /\ Current(w) \in Files
      BY <1>1, <2>1 DEF RestoreFile, At, LoopSteps, QuerySteps
    <3>2. FilesStay \/ (node[w] # NoNode /\ OneFileWritten(Current(w), node[w]))
      BY <2>1, QueryStore
    <3> QED BY <1>1, <3>1, <3>2 DEF WriterHolds
  <2>2. CASE WriteFileSummary(w)
    <3>1. step[w] = "filewrite" /\ Current(w) \in Files
      BY <1>1, <2>2 DEF WriteFileSummary, At, LoopSteps, QuerySteps
    <3>2. \E d : OneFileWritten(Current(w), d) /\ d.print = node[w].print
      BY <2>2, QueryStore
    <3> QED BY <1>1, <3>1, <3>2 DEF WriterHolds
  <2>3. CASE ~(RestoreFile(w) \/ WriteFileSummary(w))
    BY <2>3, QueryStore
  <2> QED BY <2>1, <2>2, <2>3
<1>3. ASSUME HangFile(w) \/ FileSummarized(w)
      PROVE  step'[w] \in {"restore", "filewrite"} /\ (NoNewClaim => WriterHolds(w)')
  <2>1. /\ step[w] \in LoopSteps /\ step'[w] \in {"restore", "filewrite"} /\ UNCHANGED todo
        /\ \/ step'[w] = "restore" /\ node'[w] = NoNode
           \/ Has(store, FileId(Current(w))) /\ node'[w] = store.nodes[FileId(Current(w))]
    BY <1>1, <1>3 DEF HangFile, FileSummarized, At, Goto, Functions, LoopSteps, QuerySteps
  <2>2. Current(w)' = Current(w)
    BY <2>1 DEF Current
  <2>3. \A v \in Nat : Claim(Current(w), v) => FileHas(Current(w), v)
    BY <1>1, <2>1 DEF BatchesHold, ClaimsHold
  <2> QED BY <2>1, <2>2, <2>3 DEF WriterHolds, NoNewClaim, FileHas
<1>4. ASSUME ~(HangFile(w) \/ FileSummarized(w))
      PROVE  step'[w] \in {"project", "contain", "check", "list", "summary", "ask", "look", "write", "file", "finish",
                           "hang", "idle"}
  <2>1. CASE NextSection(w) \/ \E again, after : /\ NextFile(w, again, after)
                                                /\ {again, after} \subseteq {"contain", "check", "hang", "idle", "file", "finish"}
    BY <1>1, <2>1, NextMoves, LoopMoves DEF NextSection
  <2>2. CASE PlanTraversal(w) \/ SummaryFails(w) \/ ReadSection(w) \/ SectionSummarized(w) \/ WriteSummary(w)
    BY <1>1, <2>2 DEF PlanTraversal, SummaryFails, ReadSection, SectionSummarized, WriteSummary, Goto, Functions
  <2>3. CASE \E fs, body, after : /\ Loop(w, fs, body, after)
                                 /\ {body, after} \subseteq {"contain", "check", "list", "summary", "finish"}
    BY <1>1, <2>3, LoopMoves
  <2> QED BY <1>4, <2>1, <2>2, <2>3 DEF QueryUnderWay, UpsertProject, Contain, RestoreFile, ListSections,
         KeepSummary, LookAgain, SkipFileSummary, WriteFileSummary
<1>5. step'[w] \notin RemapSteps /\ (NoNewClaim => WriterHolds(w)')
  BY <1>3, <1>4, NoWriter DEF RemapSteps
<1> QED BY <1>1, <1>2, <1>5, WorkHolds

LEMMA QueryEdgesHold ==
    ASSUME MemShape, OneWorker, BatchesHold, NEW w \in Workers,
           ReceiveQuery(w) \/ PlannerFails(w) \/ PlanRejected(w) \/ PlanFinishes(w) \/ NothingToGrow(w)
           \/ FinishQuery(w)
    PROVE  BatchesHold'
<1>1. Framed(w) /\ Functions /\ w \in Actors
  BY QueryIsFramed DEF Query, MemShape, Actors
<1>2. UNCHANGED <<acked, store>> /\ done'[w] \subseteq done[w] /\ step'[w] \in {"idle", "dead", "plan", "project"}
  <2>1. CASE ReceiveQuery(w)
    BY <1>1, <2>1 DEF ReceiveQuery, Goto, Functions
  <2>2. CASE PlannerFails(w)
    BY <1>1, <2>2 DEF PlannerFails, Die, Goto, Functions
  <2>3. CASE \E found : Respond(w, found)
    BY <1>1, <2>3 DEF Respond, Rest, Goto, Functions
  <2> QED BY <2>1, <2>2, <2>3 DEF PlanRejected, PlanFinishes, NothingToGrow, FinishQuery
<1>3. FilesStay
  BY <1>2, StoreStays
<1> QED BY <1>1, <1>2, <1>3, NoWriter, WorkHolds DEF RemapSteps

(* A remapping that is through with a file claims no more than before: the  *)
(* file was written, or it is absent from what is answered.                 *)
LEMMA FileDoneClaims ==
    ASSUME MemShape, OneWorker, AnswersAreSent, NEW w \in Workers, RemapUnderWay(w),
           NEW without, FileDone(w, without), absent[w] \subseteq without,
           Current(w) \in without \/ step[w] \in {"remaplist", "remapsection"}
    PROVE  NoNewClaim /\ AnswersAreSent'
<1>1. /\ Framed(w) /\ step[w] \in RemapSteps /\ Current(w) \in todo[w] /\ WorkerOK(w) /\ UNCHANGED batches
      /\ Grown /\ todo[w] \subseteq Files /\ \A v \in Workers : v = w
  BY RemapMoves, WorldStays DEF Framed, OneWorker, ActorOK
<1>2. /\ todo'[w] = todo[w] \ {Current(w)}
      /\ step'[w] = (IF AnyLeft(w) THEN "remap" ELSE "idle")
      /\ AnyLeft(w) => UNCHANGED <<job, done, acked>> /\ absent'[w] = without
      /\ ~AnyLeft(w) =>
            \/ job[w].kind # "feedback" /\ UNCHANGED <<done, acked>>
            \/ /\ job[w].kind = "feedback"
               /\ done'[w] = done[w] \cup {[batch |-> job[w].batch, absent |-> without]}
               /\ acked' = acked \cup Announced(job[w].batch, without)
  BY <1>1, FileDoneMoves
<1>3. CASE AnyLeft(w)
  <2>1. ASSUME NEW f, Treated(w, f)'
        PROVE  Treated(w, f)
    <3>1. step'[w] = "remap" /\ job'[w] = job[w] /\ absent'[w] = without /\ Batch(w)' = Batch(w)
      BY <1>1, <1>2, <1>3 DEF Batch
    <3>2. /\ job[w].kind = "feedback" /\ f \in Batch(w).files \ without /\ f \notin todo'[w]
      BY <2>1, <3>1 DEF Treated
    <3>3. f \in todo[w] => f = Current(w)
      BY <1>2, <3>2
    <3> QED BY <1>1, <3>2, <3>3 DEF Treated
  <2> QED BY <1>1, <1>2, <1>3, <2>1, QuietStep
<1>4. CASE ~AnyLeft(w) /\ job[w].kind # "feedback"
  <2>1. step'[w] = "idle" /\ UNCHANGED <<done, acked>>
    BY <1>2, <1>4
  <2> QED BY <1>1, <2>1, QuietWork DEF RemapSteps
<1>5. CASE ~AnyLeft(w) /\ job[w].kind = "feedback"
  <2> DEFINE b == job[w].batch
  <2>1. /\ done'[w] = done[w] \cup {[batch |-> b, absent |-> without]}
        /\ acked' = acked \cup Announced(b, without)
        /\ step'[w] = "idle" /\ b \in DOMAIN batches /\ batches[b] = Batch(w)
    BY <1>1, <1>2, <1>5 DEF WorkerOK, Batch
  <2>2. todo[w] = {Current(w)}
    BY <1>5 DEF AnyLeft
  <2>3. ASSUME NEW f \in batches[b].files \ without
        PROVE  Treated(w, f)
    BY <1>1, <1>5, <2>1, <2>2 DEF Treated
  <2> HIDE DEF b
  <2>4. ASSUME NEW f \in batches[b].files \ without
        PROVE  Claim(f, batches[b].version)
    BY <2>1, <2>3 DEF Claim
  <2>5. NoNewClaim
    <3> SUFFICES ASSUME NEW f, NEW v, Claim(f, v)' PROVE Claim(f, v)
      BY DEF NoNewClaim
    <3>1. CASE \E r \in acked' : r.file = f /\ r.version = v
      <4>1. CASE \E r \in acked : r.file = f /\ r.version = v
        BY <4>1 DEF Claim
      <4>2. CASE \E r \in Announced(b, without) : r.file = f /\ r.version = v
        BY <2>4, <4>2 DEF Announced
      <4> QED BY <2>1, <3>1, <4>1, <4>2
    <3>2. CASE \E u \in Workers : \E d \in done'[u] :
                  f \in batches'[d.batch].files \ d.absent /\ v = batches'[d.batch].version
      <4>1. PICK d \in done'[w] : f \in batches[d.batch].files \ d.absent /\ v = batches[d.batch].version
        BY <1>1, <3>2
      <4>2. CASE d \in done[w]
        BY <4>1, <4>2 DEF Claim
      <4>3. CASE d = [batch |-> b, absent |-> without]
        <5>1. d.batch = b /\ d.absent = without
          BY <4>3
        <5> QED BY <2>4, <4>1, <5>1
      <4> QED BY <2>1, <4>1, <4>2, <4>3
    <3>3. ~ \E u \in Workers : Treated(u, f)' /\ v = Batch(u)'.version
      BY <1>1, <2>1 DEF Treated, RemapSteps
    <3> QED BY <3>1, <3>2, <3>3 DEF Claim
  <2>6. ASSUME NEW r \in Announced(b, without)
        PROVE  r.file \in Files /\ InBatch(r.file, r.version)
    BY <2>1, <2>6, BatchesAreKnown DEF Announced, InBatch
  <2>7. AnswersAreSent'
    BY <1>1, <2>1, <2>6 DEF AnswersAreSent, InBatch
  <2> QED BY <2>5, <2>7
<1> QED BY <1>3, <1>4, <1>5

LEMMA RemapFileHolds ==
    ASSUME MemShape, OneWorker, BatchesHold, NEW w \in Workers, RemapFile(w)
    PROVE  BatchesHold'
<1>1. /\ Framed(w) /\ Functions /\ w \in Actors /\ WorkerOK(w) /\ WriterHolds(w) /\ Current(w) \in Files
      /\ Grown /\ \A v \in Workers : v = w
  BY RemapMoves, WorldStays DEF RemapUnderWay, Framed, OneWorker, BatchesHold
<1>2. /\ step[w] = "remapfile" /\ step'[w] = "remaplist"
      /\ UNCHANGED <<job, todo, acked, done, absent, batches>>
  BY <1>1 DEF RemapFile, At, Goto, Functions, progress, results, mail
<1>3. PICK d : OneFileWritten(Current(w), d) /\ d.print = held[w]
  BY RemapStore DEF RemapUnderWay
<1>4. Current(w)' = Current(w) /\ Batch(w)' = Batch(w)
  BY <1>2 DEF Current, Batch
<1>5. ASSUME NEW f, NEW v, Claim(f, v)'
      PROVE  \/ Claim(f, v)
             \/ f = Current(w) /\ job[w].kind = "feedback" /\ v = Batch(w).version
  <2>1. CASE \E r \in acked' : r.file = f /\ r.version = v
    BY <1>2, <2>1 DEF Claim
  <2>2. CASE \E u \in Workers : \E e \in done'[u] :
                f \in batches'[e.batch].files \ e.absent /\ v = batches'[e.batch].version
    BY <1>2, <2>2 DEF Claim
  <2>3. CASE Treated(w, f)' /\ v = Batch(w)'.version
    <3>1. /\ job[w].kind = "feedback" /\ f \in Batch(w).files \ absent[w] /\ (f \in todo[w] => f = Current(w))
          /\ v = Batch(w).version
      BY <1>2, <1>4, <2>3 DEF Treated
    <3>2. CASE f \in todo[w]
      BY <3>1, <3>2
    <3>3. CASE f \notin todo[w]
      BY <1>2, <3>1, <3>3 DEF Treated, Claim, RemapSteps
    <3> QED BY <3>2, <3>3
  <2> QED BY <1>1, <1>5, <2>1, <2>2, <2>3 DEF Claim
<1>6. ClaimsHold'
  <2> SUFFICES ASSUME NEW f \in Files, NEW v \in Nat, Claim(f, v)' PROVE FileHas(f, v)'
    BY DEF ClaimsHold
  <2>1. f = Current(w) => held[w] >= v
    BY <1>1, <1>2, <1>5 DEF WriterHolds
  <2>2. CASE f = Current(w)
    BY <1>3, <2>1, <2>2 DEF OneFileWritten, FileHas
  <2>3. CASE f # Current(w)
    <3>1. FileHas(f, v)
      BY <1>5, <2>3 DEF BatchesHold, ClaimsHold
    <3> QED BY <1>1, <1>3, <2>3, <3>1, HasStays
  <2> QED BY <2>2, <2>3
<1>7. AnswersAreSent'
  BY <1>2 DEF BatchesHold, AnswersAreSent, InBatch
<1>8. \A v \in Workers : WriterHolds(v)'
  BY <1>1, <1>2, NoWriter
<1>9. ASSUME NEW a \in Authors
      PROVE  AuthorHolds(a)'
  <2>1. Untouched(a)
    BY <1>1, MemoryAssumption DEF Framed, Actors
  <2> QED BY <1>2, <2>1, AuthorStays DEF BatchesHold
<1> QED BY <1>6, <1>7, <1>8, <1>9 DEF BatchesHold

LEMMA RemapHolds ==
    ASSUME MemShape, OneWorker, BatchesHold, NEW w \in Workers, RemapUnderWay(w)
    PROVE  BatchesHold'
<1>1. /\ Framed(w) /\ Functions /\ World /\ w \in Actors /\ WorkerOK(w) /\ WriterHolds(w) /\ Current(w) \in Files
      /\ step[w] \in RemapSteps /\ Grown /\ (\A v \in Workers : v = w) /\ UNCHANGED batches
  BY RemapMoves, WorldStays DEF Framed, OneWorker, BatchesHold, MemShape
<1>2. CASE RemapFile(w)
  BY <1>2, RemapFileHolds
<1>3. ASSUME ~RemapFile(w), NoNewClaim, AnswersAreSent', WriterHolds(w)'
      PROVE  BatchesHold'
  <2>1. ClaimsHold'
    BY <1>3, RemapStore, ClaimsStay DEF BatchesHold
  <2>2. ASSUME NEW a \in Authors
        PROVE  AuthorHolds(a)'
    <3>1. Untouched(a)
      BY <1>1, MemoryAssumption DEF Framed, Actors
    <3> QED BY <1>1, <3>1, AuthorStays DEF BatchesHold
  <2>3. \A v \in Workers : WriterHolds(v)'
    BY <1>1, <1>3
  <2> QED BY <1>3, <2>1, <2>2, <2>3 DEF BatchesHold
<1>4. ASSUME NEW without, FileDone(w, without), absent[w] \subseteq without,
             Current(w) \in without \/ step[w] \in {"remaplist", "remapsection"}
      PROVE  NoNewClaim /\ AnswersAreSent' /\ WriterHolds(w)'
  <2>1. NoNewClaim /\ AnswersAreSent'
    BY <1>4, FileDoneClaims DEF BatchesHold
  <2>2. step'[w] \in {"remap", "idle"}
    BY <1>1, <1>4, NextMoves DEF FileDone
  <2> QED BY <2>1, <2>2, NoWriter
<1>5. ASSUME UNCHANGED <<todo, job, absent, done, acked>>, step'[w] \in {"remapread", "remapfile"}
             \/ (step[w] = "remaplist" /\ step'[w] = "remapsection")
      PROVE  NoNewClaim /\ AnswersAreSent'
  <2>1. Current(w)' = Current(w) /\ Batch(w)' = Batch(w)
    BY <1>1, <1>5 DEF Current, Batch
  <2>2. ASSUME NEW f, Treated(w, f)'
        PROVE  Treated(w, f)
    BY <1>1, <1>5, <2>1, <2>2 DEF Treated
  <2> QED BY <1>1, <1>5, <2>2, QuietStep DEF BatchesHold
<1>6. CASE RemapMissing(w) \/ RemapVanished(w)
  <2>1. ~RemapFile(w)
    BY <1>6 DEF RemapMissing, RemapVanished, RemapFile, At
  <2> QED BY <1>3, <1>4, <1>6, <2>1 DEF RemapMissing, RemapVanished
<1>7. CASE RemapExists(w)
  <2>1. step'[w] = "remapread" /\ UNCHANGED <<todo, job, absent, done, acked>> /\ ~RemapFile(w)
    BY <1>1, <1>7 DEF RemapExists, RemapFile, At, Goto, Functions, progress, results
  <2> QED BY <1>3, <1>5, <2>1, NoWriter
<1>8. CASE RemapRead(w)
  <2>1. /\ step'[w] = "remapfile" /\ UNCHANGED <<todo, job, absent, done, acked>> /\ ~RemapFile(w)
        /\ held'[w] = disk[Current(w)] /\ disk[Current(w)] # 0
    BY <1>1, <1>8 DEF RemapRead, RemapFile, At, Goto, Functions, results
  <2>2. Current(w)' = Current(w) /\ Batch(w)' = Batch(w) /\ NoNewClaim /\ AnswersAreSent'
    BY <1>1, <1>5, <2>1 DEF Current, Batch
  <2>3. \A v \in Nat : Claim(Current(w), v) => held'[w] >= v
    BY <1>1, <2>1, ClaimIsSent, ReadIsNew DEF BatchesHold
  <2>4. job[w].kind = "feedback" => held'[w] >= Batch(w).version
    <3>1. ASSUME job[w].kind = "feedback"
          PROVE  InBatch(Current(w), Batch(w).version)
      <4>1. Current(w) \in todo[w]
        BY <1>8, RemapMoves DEF RemapUnderWay
      <4> QED BY <1>1, <3>1, <4>1 DEF WorkerOK, InBatch, Batch
    <3> QED BY <1>1, <2>1, <3>1, ReadIsNew
  <2>5. WriterHolds(w)'
    BY <2>1, <2>2, <2>3, <2>4 DEF WriterHolds, NoNewClaim
  <2> QED BY <1>3, <2>1, <2>2, <2>5
<1>9. CASE RemapFails(w)
  <2>1. ~RemapFile(w) \/ RemapFile(w)
    OBVIOUS
  <2>2. step'[w] \in {"idle", "dead"} /\ UNCHANGED acked /\ done'[w] \subseteq done[w]
    BY <1>1, <1>9 DEF RemapFails, Rest, Die, Goto, Functions
  <2>3. step'[w] \notin RemapSteps /\ WriterHolds(w)'
    BY <2>2, NoWriter DEF RemapSteps
  <2>4. NoNewClaim /\ AnswersAreSent'
    BY <1>1, <2>2, <2>3, QuietWork DEF BatchesHold
  <2> QED BY <1>2, <1>3, <2>3, <2>4
<1>10. CASE RemapList(w)
  <2>1. ~RemapFile(w) /\ step[w] = "remaplist"
    BY <1>10 DEF RemapList, RemapFile, At
  <2>2. CASE FileDone(w, absent[w])
    BY <1>3, <1>4, <2>1, <2>2
  <2>3. CASE ~FileDone(w, absent[w])
    <3>1. step'[w] = "remapsection" /\ UNCHANGED <<todo, job, absent, done, acked>>
      BY <1>1, <1>10, <2>3 DEF RemapList, Goto, Functions
    <3> QED BY <1>3, <1>5, <2>1, <3>1, NoWriter
  <2> QED BY <2>2, <2>3
<1>11. CASE RemapSection(w)
  <2>1. ~RemapFile(w) /\ step[w] = "remapsection" /\ FileDone(w, absent[w])
    BY <1>11 DEF RemapSection, RemapFile, At
  <2> QED BY <1>3, <1>4, <2>1
<1> QED BY <1>2, <1>6, <1>7, <1>8, <1>9, <1>10, <1>11 DEF RemapUnderWay

LEMMA TakeHolds ==
    ASSUME MemShape, OneWorker, BatchesHold, NEW w \in Workers,
           TakeKnown(w) \/ TakeFeedback(w) \/ TakeChanged(w)
    PROVE  BatchesHold'
<1>1. /\ Framed(w) /\ Functions /\ w \in Actors /\ WorkerOK(w) /\ Grown /\ (\A v \in Workers : v = w)
      /\ UNCHANGED batches
  BY RemapIsFramed, WorldStays DEF Remap, MemShape, Actors, Framed, OneWorker
<1>2. /\ step[w] = "idle" /\ UNCHANGED <<store, done, absent>>
      /\ Head(queue[w]) \in Requests(Len(batches))
  BY TakesFirst DEF TakeKnown, TakeFeedback, TakeChanged, results
<1>3. step'[w] \in {"idle", "remap"}
  <2>1. TakeKnown(w) => step'[w] = "idle"
    BY <1>2 DEF TakeKnown
  <2>2. TakeFeedback(w) \/ TakeChanged(w) => step'[w] \in {"idle", "remap"}
    BY <1>1, LoopMoves DEF TakeFeedback, TakeChanged
  <2> QED BY <2>1, <2>2
<1>4. NoNewClaim /\ AnswersAreSent'
  <2>1. CASE TakeKnown(w)
    <3>1. PICK d \in done[w] : acked' = acked \cup Announced(d.batch, d.absent)
      BY <2>1 DEF TakeKnown
    <3>2. d.batch \in DOMAIN batches
      BY <1>1 DEF WorkerOK
    <3>3. ASSUME NEW f \in batches[d.batch].files \ d.absent
          PROVE  Claim(f, batches[d.batch].version)
      BY DEF Claim
    <3>4. NoNewClaim
      <4> SUFFICES ASSUME NEW f, NEW v, Claim(f, v)' PROVE Claim(f, v)
        BY DEF NoNewClaim
      <4>1. CASE \E r \in acked : r.file = f /\ r.version = v
        BY <4>1 DEF Claim
      <4>2. CASE \E r \in Announced(d.batch, d.absent) : r.file = f /\ r.version = v
        BY <3>3, <4>2 DEF Announced
      <4>3. CASE \E u \in Workers : \E e \in done'[u] :
                    f \in batches'[e.batch].files \ e.absent /\ v = batches'[e.batch].version
        BY <1>1, <1>2, <4>3 DEF Claim
      <4>4. ~ \E u \in Workers : Treated(u, f)' /\ v = Batch(u)'.version
        <5>1. step'[w] = "idle"
          BY <1>2, <2>1 DEF TakeKnown
        <5> QED BY <1>1, <5>1 DEF Treated, RemapSteps
      <4> QED BY <3>1, <4>1, <4>2, <4>3, <4>4 DEF Claim
    <3>5. ASSUME NEW r \in Announced(d.batch, d.absent)
          PROVE  r.file \in Files /\ InBatch(r.file, r.version)
      BY <3>2, <3>5, BatchesAreKnown DEF Announced, InBatch
    <3>6. AnswersAreSent'
      BY <1>1, <3>1, <3>5 DEF AnswersAreSent, InBatch, BatchesHold
    <3> QED BY <3>4, <3>6
  <2>2. CASE TakeFeedback(w)
    <3> DEFINE b == Head(queue[w]).batch
    <3>1. Loop(w, batches[b].files, "remap", "idle") /\ job'[w] = [kind |-> "feedback", batch |-> b]
          /\ UNCHANGED acked
      BY <1>1, <2>2 DEF TakeFeedback, Functions, results
    <3> HIDE DEF b
    <3>2. todo'[w] = batches[b].files /\ job'[w].batch = b
      BY <1>1, <3>1, LoopMoves
    <3>3. Batch(w)'.files = batches[b].files
      BY <1>1, <3>2 DEF Batch
    <3>4. \A f : ~Treated(w, f)'
      BY <1>3, <3>2, <3>3 DEF Treated
    <3> QED BY <1>1, <1>2, <3>1, <3>4, QuietStep DEF BatchesHold
  <2>3. CASE TakeChanged(w)
    <3>1. job'[w] = [kind |-> "changed"] /\ UNCHANGED acked
      BY <1>1, <2>3 DEF TakeChanged, Functions, results
    <3>2. \A f : ~Treated(w, f)'
      BY <3>1 DEF Treated
    <3> QED BY <1>1, <1>2, <3>1, <3>2, QuietStep DEF BatchesHold
  <2> QED BY <2>1, <2>2, <2>3
<1>5. ClaimsHold'
  BY <1>2, <1>4, StoreStays, ClaimsStay DEF BatchesHold
<1>6. \A v \in Workers : WriterHolds(v)'
  BY <1>1, <1>3, NoWriter
<1>7. ASSUME NEW a \in Authors
      PROVE  AuthorHolds(a)'
  <2>1. Untouched(a)
    BY <1>1, MemoryAssumption DEF Framed, Actors
  <2> QED BY <1>1, <2>1, AuthorStays DEF BatchesHold
<1> QED BY <1>4, <1>5, <1>6, <1>7 DEF BatchesHold

LEMMA OutsideHolds ==
    ASSUME MemShape, OneAuthor, BatchesHold,
           \/ \E a \in Authors : \/ GoOn(a) \/ Notify(a) \/ \E hint \in SUBSET Files : Ask(a, hint)
                                 \/ \E files \in SUBSET Files : WriteFiles(a, files)
           \/ \E w \in Workers : \/ \E files \in SUBSET Files : SendChanged(w, files)
                                 \/ \E batch \in DOMAIN batches : SendAgain(w, batch)
           \/ \E f \in Files, there \in BOOLEAN : ChangeOnDisk(f, there)
    PROVE  BatchesHold'
<1>1. Grown /\ UNCHANGED <<store, acked>> /\ \A w \in Workers : Untouched(w)
  BY OutsideIsGrown
<1>2. NoNewClaim /\ AnswersAreSent'
  BY <1>1, QuietOthers DEF BatchesHold
<1>3. ClaimsHold'
  BY <1>1, <1>2, StoreStays, ClaimsStay DEF BatchesHold
<1>4. \A w \in Workers : WriterHolds(w)'
  BY <1>1, <1>2, WriterStays DEF BatchesHold
<1>5. ASSUME NEW a \in Authors
      PROVE  AuthorHolds(a)'
  <2>1. Functions /\ a \in Actors /\ \A b \in Authors : b = a
    BY DEF MemShape, Actors, OneAuthor
  <2>2. CASE step'[a] # "node"
    BY <2>2 DEF AuthorHolds
  <2>3. CASE UNCHANGED <<step, todo, held, batches>>
    BY <2>3 DEF BatchesHold, AuthorHolds, InBatch, Current
  <2>4. ASSUME GoOn(a) \/ Notify(a) \/ (\E hint : Ask(a, hint)) \/ \E files : WriteFiles(a, files)
        PROVE  step'[a] # "node"
    <3>1. CASE GoOn(a) \/ Notify(a) \/ \E hint : Ask(a, hint)
      BY <2>1, <3>1 DEF GoOn, Notify, Ask, Goto, Functions
    <3>2. CASE \E files : WriteFiles(a, files)
      BY <2>1, <3>2, LoopMoves DEF WriteFiles
    <3> QED BY <2>4, <3>1, <3>2
  <2>5. (\E w, files : SendChanged(w, files)) \/ (\E w, batch : SendAgain(w, batch)) \/ (\E f, there : ChangeOnDisk(f, there))
          => UNCHANGED <<step, todo, held, batches>>
    BY DEF SendChanged, SendAgain, ChangeOnDisk, progress, mail
  <2> QED BY <2>1, <2>2, <2>3, <2>4, <2>5
<1> QED BY <1>2, <1>3, <1>4, <1>5 DEF BatchesHold

LEMMA RestartHolds ==
    ASSUME MemShape, OneWorker, BatchesHold, NEW w \in Workers, Restart(w)
    PROVE  BatchesHold'
<1>1. w \in Actors /\ Functions
  BY DEF MemShape, Actors
<1>2. UNCHANGED <<store, acked, disk, edits, batches, job, todo, held, node, absent, done, indexed, answer>>
  BY DEF Restart, diskVars, progress, results
<1>3. Framed(w) /\ step'[w] = "idle"
  BY <1>1, <1>2 DEF Restart, Goto, Framed, Functions, Untouched
<1>4. FilesStay
  BY <1>2, StoreStays
<1>5. step'[w] \notin RemapSteps /\ WriterHolds(w)'
  BY <1>3, NoWriter DEF RemapSteps
<1> QED BY <1>2, <1>3, <1>4, <1>5, WorkHolds

LEMMA StutterHolds == BatchesHold /\ UNCHANGED vars => BatchesHold'
BY DEF BatchesHold, AnswersAreSent, ClaimsHold, WriterHolds, AuthorHolds, Claim, Treated, Batch, InBatch, FileHas,
       Current, vars, diskVars, progress, mail, results

LEMMA NextHolds ==
    ASSUME OneWorker, OneAuthor, MemShape, BatchesHold, [Next]_vars
    PROVE  BatchesHold'
<1>1. ASSUME NEW a \in Actors, Sync(a)
      PROVE  BatchesHold'
  BY <1>1, SyncHolds, AuthorSyncHolds DEF Actors
<1>2. CASE Next
  BY <1>1, <1>2, NextSteps, QueryEdgesHold, QueryHolds, TakeHolds, RemapHolds, RestartHolds, OutsideHolds
<1> QED BY <1>2, StutterHolds

(* Feedback that was answered is not lost in a project with one chat: with     *)
(* one worker and one author on a store, the node of every file an answered    *)
(* batch announced (memory_change_update_service.py) has the announced version *)
(* or a later one, from the answer on, whatever fails, is sent again or is     *)
(* forgotten in a restart.                                                     *)
THEOREM BatchesStayApplied == OneWorker /\ OneAuthor => (Spec => []AnsweredBatchIsApplied)
<1> SUFFICES ASSUME OneWorker, OneAuthor PROVE Spec => []AnsweredBatchIsApplied
  OBVIOUS
<1>1. Init => MemShape /\ BatchesHold
  BY InitHasShape, InitHolds
<1>2. MemShape /\ BatchesHold /\ [Next]_vars => (MemShape /\ BatchesHold)'
  BY NextKeepsShape, NextHolds
<1>3. MemShape /\ BatchesHold => AnsweredBatchIsApplied
  <2> SUFFICES ASSUME MemShape, BatchesHold, NEW r \in acked
               PROVE  Has(store, FileId(r.file)) /\ store.nodes[FileId(r.file)].print >= r.version
    BY DEF AnsweredBatchIsApplied
  <2>1. r.file \in Files /\ InBatch(r.file, r.version) /\ Claim(r.file, r.version)
    BY DEF BatchesHold, AnswersAreSent, Claim
  <2>2. r.version \in Nat
    BY <2>1, SentIsBeyond
  <2> QED BY <2>1, <2>2 DEF BatchesHold, ClaimsHold, FileHas
<1> QED BY <1>1, <1>2, <1>3, PTL DEF Spec

=============================================================================
