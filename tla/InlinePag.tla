------------------------------ MODULE InlinePag -----------------------------
(***************************************************************************)
(* PAG without AgentMemory: "ailit memory index" goes through a project in *)
(* a process of its own (pag_indexer.py), while chats that have no         *)
(* AgentMemory ask the store for the files to look at when a prompt comes  *)
(* and tell it of the files they write (pag_runtime.py, loop.py).          *)
(*                                                                         *)
(* Each read of a file and each statement of the indexer is a step; those  *)
(* of PagIndexer.sync_changes are in AgentMemory, here they are one.  One  *)
(* indexer at a time, no directories below the root.                       *)
(***************************************************************************)
EXTENDS PagStore, FiniteSetsExt

CONSTANTS
    PagFiles,          \* numbers, in the order of their names
    MaxPagChanges,     \* what chats and others do to files
    MaxIndexings,
    MaxPagRuns         \* prompts

ASSUME PagAssumption ==
    /\ PagFiles \subseteq Nat
    /\ {MaxPagChanges, MaxIndexings, MaxPagRuns} \subseteq Nat

VARIABLES
    tree,      \* version of each file, 0 for none
    pag,       \* the store
    indexing,  \* where the indexer is
    offered,   \* the files the last prompt was told to look at
    untouched, \* history: files neither changed nor synced since the last indexing began
    finished,  \* history: files that it has found, once it is over
    pagChanges, indexings, pagRuns

pagVars == <<tree, pag, indexing, offered, untouched, finished, pagChanges, indexings, pagRuns>>

NoIndexing == [pc |-> "none"]
NoSlice    == [used |-> FALSE, files |-> {}]

(* Of the files every other one has something to be split into.            *)
Splits(f) == f % 2 = 1

PagInit ==
    /\ tree \in [PagFiles -> {0, 1}]
    /\ pag = EmptyStore
    /\ indexing = NoIndexing /\ offered = NoSlice
    /\ untouched = {} /\ finished = {}
    /\ pagChanges = 0 /\ indexings = 0 /\ pagRuns = 0

-----------------------------------------------------------------------------
(* index_project.                                                           *)

StartIndexing ==
    /\ indexing = NoIndexing /\ indexings < MaxIndexings
    /\ indexings' = indexings + 1
    /\ pag' = UpsertNode(pag, IndexerId, Plain(0))
    /\ indexing' = [pc |-> "walk"]
    /\ untouched' = PagFiles /\ finished' = {}
    /\ UNCHANGED <<tree, offered, pagChanges, pagRuns>>

(* _walk_relpaths, and the edge from the project to itself                 *)
Walk ==
    /\ indexing.pc = "walk"
    /\ LET found == {f \in PagFiles : tree[f] # 0}
       IN  indexing' = [pc |-> "files", found |-> found, left |-> found]
    /\ pag' = UpsertEdge(pag, IndexerId, IndexerId)
    /\ UNCHANGED <<tree, offered, untouched, finished, pagChanges, indexings, pagRuns>>

(* The first file that is left is read.  One that is gone raises among the *)
(* files, where nothing is caught; among the sections it is passed over.   *)
ReadNext ==
    /\ indexing.pc \in {"files", "sections"} /\ indexing.left # {}
    /\ LET f == Min(indexing.left)
       IN  indexing' =
             IF tree[f] # 0
             THEN [pc |-> IF indexing.pc = "files" THEN "file" ELSE "section",
                   found |-> indexing.found, left |-> indexing.left \ {f}, file |-> f, text |-> tree[f]]
             ELSE IF indexing.pc = "files" THEN NoIndexing
             ELSE [indexing EXCEPT !.left = @ \ {f}]
    /\ UNCHANGED <<tree, pag, offered, untouched, finished, pagChanges, indexings, pagRuns>>

Proceed(pc, left) == indexing' = [pc |-> pc, found |-> indexing.found, left |-> left]

(* Mutant of UpsertFileNode: a file that has its node keeps it.            *)
UpsertFileNode_New ==
    /\ indexing.pc = "file"
    /\ pag' = IF Has(pag, FileId(indexing.file)) THEN pag
              ELSE UpsertNode(pag, FileId(indexing.file), Plain(indexing.text))
    /\ Proceed("files", indexing.left)
    /\ UNCHANGED <<tree, offered, untouched, finished, pagChanges, indexings, pagRuns>>

UpsertFileNode ==
    /\ indexing.pc = "file"
    /\ pag' = UpsertNode(pag, FileId(indexing.file), Plain(indexing.text))
    /\ Proceed("files", indexing.left)
    /\ UNCHANGED <<tree, offered, untouched, finished, pagChanges, indexings, pagRuns>>

NextPhase ==
    /\ indexing.pc \in {"files", "edges", "sections"} /\ indexing.left = {}
    /\ \/ indexing.pc = "files" /\ Proceed("edges", indexing.found) /\ UNCHANGED finished
       \/ indexing.pc = "edges" /\ Proceed("sections", indexing.found) /\ UNCHANGED finished
       \/ indexing.pc = "sections" /\ indexing' = NoIndexing /\ finished' = indexing.found
    /\ UNCHANGED <<tree, pag, offered, untouched, pagChanges, indexings, pagRuns>>

UpsertTreeEdge ==
    /\ indexing.pc = "edges" /\ indexing.left # {}
    /\ LET f == Min(indexing.left)
       IN  /\ pag' = UpsertEdge(pag, IndexerId, FileId(f))
           /\ Proceed("edges", indexing.left \ {f})
    /\ UNCHANGED <<tree, offered, untouched, finished, pagChanges, indexings, pagRuns>>

(* Node and edge of what a text is split into *)
WithSection(s, f, text) ==
    IF Splits(f) THEN UpsertEdge(UpsertNode(s, SectionId(f), Plain(text)), FileId(f), SectionId(f)) ELSE s

UpsertSection ==
    /\ indexing.pc = "section"
    /\ pag' = WithSection(pag, indexing.file, indexing.text)
    /\ Proceed("sections", indexing.left)
    /\ UNCHANGED <<tree, offered, untouched, finished, pagChanges, indexings, pagRuns>>

IndexerDies ==
    /\ indexing # NoIndexing
    /\ indexing' = NoIndexing
    /\ UNCHANGED <<tree, pag, offered, untouched, finished, pagChanges, indexings, pagRuns>>

-----------------------------------------------------------------------------
(* Chats.                                                                   *)

(* build_slice_for_goal, before the first request of a prompt: the project *)
(* must be known, fresh, and have fresh files, which need not be there any *)
(* more.  They are no more than a slice holds.                             *)
Ask ==
    /\ pagRuns < MaxPagRuns /\ pagRuns' = pagRuns + 1
    /\ LET files == FreshFiles(pag, PagFiles)
       IN  offered' = IF Has(pag, IndexerId) /\ pag.nodes[IndexerId].fresh /\ files # {}
                      THEN [used |-> TRUE, files |-> files]
                      ELSE NoSlice
    /\ UNCHANGED <<tree, pag, indexing, untouched, finished, pagChanges, indexings>>

Touched(f) ==
    /\ pagChanges < MaxPagChanges /\ pagChanges' = pagChanges + 1
    /\ untouched' = untouched \ {f}

(* sync_changes for one file: whatever pointed at it does so no more.      *)
SyncedStore(s, f) ==
    IF tree[f] = 0 THEN MarkStale(s, {FileId(f)})
    ELSE LET known == UpsertNode(s, FileId(f), Plain(tree[f]))
         IN  WithSection(DeleteSections(DeleteEdgesTouching(known, {FileId(f)}), f), f, tree[f])

(* write_file and others change a file, or remove it.                      *)
ChangeFile(f) ==
    /\ Touched(f)
    /\ \/ tree' = [tree EXCEPT ![f] = pagChanges + 2]
       \/ tree[f] # 0 /\ tree' = [tree EXCEPT ![f] = 0]
    /\ UNCHANGED <<pag, indexing, offered, finished, indexings, pagRuns>>

(* A chat tells of a file that it has written, whatever became of it.      *)
TellOfFile(f) ==
    /\ Touched(f)
    /\ pag' = SyncedStore(pag, f)
    /\ UNCHANGED <<tree, indexing, offered, finished, indexings, pagRuns>>

PagNext ==
    \/ StartIndexing \/ Walk \/ ReadNext \/ UpsertFileNode \/ NextPhase \/ UpsertTreeEdge
    \/ UpsertSection \/ IndexerDies \/ Ask
    \/ \E f \in PagFiles : ChangeFile(f) \/ TellOfFile(f)

PagSpec == PagInit /\ [][PagNext]_pagVars

-----------------------------------------------------------------------------

(* Whatever syncs, aborted indexings and changes left behind: once an      *)
(* indexing is over, each file that it found and that nobody has touched   *)
(* since it began has its node, fresh and of the text it has, hangs from   *)
(* the project and has its section.                                        *)
IndexRepairs ==
    \A f \in finished \cap untouched :
        /\ Has(pag, FileId(f)) /\ pag.nodes[FileId(f)] = Plain(tree[f])
        /\ <<IndexerId, FileId(f)>> \in pag.edges
        /\ Splits(f) => /\ Has(pag, SectionId(f)) /\ pag.nodes[SectionId(f)] = Plain(tree[f])
                        /\ <<FileId(f), SectionId(f)>> \in pag.edges

=============================================================================
