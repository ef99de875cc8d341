------------------------------ MODULE PagStore ------------------------------
(***************************************************************************)
(* The PAG store of one namespace (sqlite_pag.py): nodes and containment   *)
(* edges.  Every operation here is one sqlite transaction.  The revision   *)
(* that upserts count up is left to GraphView.                             *)
(*                                                                         *)
(* Of a node only what its readers tell apart is kept.  A text is named by *)
(* the version of the file it was taken from; 0 is none.                   *)
(***************************************************************************)
EXTENDS Naturals, FiniteSets

ProjectId == <<"A", 0>>     \* the project, as AgentMemory names it
IndexerId == <<"A", 1>>     \* the project, as the offline indexer names it
FileId(f) == <<"B", f>>     \* a file
SectionId(f) == <<"C", f>>  \* the section a file has, when it has one

(* print: what the fingerprint was taken from;  text: what the summary was  *)
(* made from;  fresh: staleness_state = "fresh".                            *)
NodeData(Version) == [print : Version, text : Version, fresh : BOOLEAN]

Plain(v) == [print |-> v, text |-> 0, fresh |-> TRUE]

EmptyStore == [nodes |-> [n \in {} |-> Plain(0)], edges |-> {}]

Has(s, id) == id \in DOMAIN s.nodes

UpsertNode(s, id, data) ==
    [s EXCEPT !.nodes = [n \in DOMAIN @ \cup {id} |-> IF n = id THEN data ELSE s.nodes[n]]]

UpsertEdge(s, from, to) == [s EXCEPT !.edges = @ \cup {<<from, to>>}]

(* No ids given means every node of the namespace. *)
MarkStale(s, ids) ==
    [s EXCEPT !.nodes =
        [n \in DOMAIN @ |->
            [print |-> @[n].print, text |-> @[n].text,
             fresh |-> @[n].fresh /\ ~(ids = {} \/ n \in ids)]]]

Touches(edge, ids) == edge[1] \in ids \/ edge[2] \in ids

DeleteEdgesTouching(s, ids) ==
    [s EXCEPT !.edges = {e \in @ : ~Touches(e, ids)}]

(* Mutant: the sections stay, only what hangs from them goes. *)
DeleteSections_EdgesOnly(s, f) == DeleteEdgesTouching(s, {SectionId(f)})

(* delete_nodes_by_level_and_path for the sections of a file: edges stay. *)
DeleteSections(s, f) ==
    [s EXCEPT !.nodes = [n \in DOMAIN @ \ {SectionId(f)} |-> @[n]]]

(* list_nodes without the stale ones: what a slice recommends. *)
FreshFiles(s, Files) == {f \in Files : Has(s, FileId(f)) /\ s.nodes[FileId(f)].fresh}

(* The store index_project leaves behind for the files it found, of which   *)
(* some have a section.                                                     *)
IndexedStore(files, disk, sectioned) ==
    LET sections == files \cap sectioned
        ids      == {IndexerId} \cup {FileId(f) : f \in files} \cup {SectionId(f) : f \in sections}
    IN  [nodes |-> [n \in ids |-> Plain(IF n = IndexerId THEN 0 ELSE disk[n[2]])],
         edges |-> {<<IndexerId, IndexerId>>}
                   \cup {<<IndexerId, FileId(f)>> : f \in files}
                   \cup {<<FileId(f), SectionId(f)>> : f \in sections}]

=============================================================================
