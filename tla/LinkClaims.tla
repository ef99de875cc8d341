----------------------------- MODULE LinkClaims -----------------------------
(***************************************************************************)
(* Claims that one symbol is related to another: an edge of the graph when *)
(* the target is known and is the only one, else a pending row that is     *)
(* tried again whenever a file is remapped (link_claim_resolver.py,        *)
(* memory_c_remap.py, sqlite_pag.py).                                      *)
(*                                                                         *)
(* The worker that remaps may die between two writes; every write is a     *)
(* transaction of its own. Remapping is AgentMemory's, apply_link_claims   *)
(* is the resolver's entry for a list of claims.                           *)
(***************************************************************************)
EXTENDS Naturals, FiniteSets, Functions

CONSTANTS
    Files, Names, SymKinds,  \* a C node is known by its file, title and kind
    None,
    KeyOf(_),                \* its stable_key, which several may share
    LinkClaim,               \* the claims that are made
    MaxClaims,               \* how many claims are applied
    MaxGraphOps              \* how often the indexer or a remap changes nodes

Symbols == [file : Files, name : Names, kind : SymKinds]

ASSUME LinkAssumption ==
    /\ None \notin Symbols
    /\ \A c \in LinkClaim : /\ c.from \in Symbols /\ c.to \in Symbols \cup {None}
                            /\ c.target = None
                               \/ c.target \in [name : Names, kind : SymKinds, hint : Files \cup {None}]
    /\ {MaxClaims, MaxGraphOps} \subseteq Nat

VARIABLES
    cnodes,    \* C nodes of the store
    edges,     \* semantic edges
    pending,   \* pag_pending_edges: a row for a pending id
    resolver,  \* what the resolver is doing
    batch,     \* edges to be written
    resolved,  \* pending ids to be deleted once they are
    accepted,  \* history: the ids a row was inserted for
    claims, graphOps

linkVars == <<cnodes, edges, pending, resolver, batch, resolved, accepted, claims, graphOps>>

(* _pending_tuple_missing_explicit_to: the row of a claim that named only  *)
(* a node                                                                  *)
ToBeNamed == [name |-> "(pending_to)", kind |-> "unresolved", hint |-> None]

LinkInit ==
    /\ cnodes \in {{}, Symbols}
    /\ edges = {} /\ pending = <<>>
    /\ resolver = "idle" /\ batch = {} /\ resolved = {}
    /\ accepted = {}
    /\ claims = 0 /\ graphOps = 0

-----------------------------------------------------------------------------

(* list_nodes_for_path, list_c_nodes_by_kind_title *)
InFile(f)          == {n \in cnodes : n.file = f}
OfKindTitle(k, nm) == {n \in cnodes : n.kind = k /\ n.name = nm}

(* _find_target_nodes: by name in the file of the hint, of any kind; else  *)
(* by name and kind anywhere                                               *)
TargetNodes(t) ==
    LET near == {n \in InFile(t.hint) : n.name = t.name}
    IN  IF t.hint # None /\ near # {} THEN near ELSE OfKindTitle(t.kind, t.name)

(* list_c_nodes_by_stable_key *)
KeyedNodes(k) == {n \in cnodes : KeyOf(n) = k}

Edge(c, n) == [from |-> c.from, rel |-> c.rel, to |-> n]

(* _stable_pending_id: the kind is not part of it *)
PendingId(c, t) == [from |-> c.from, rel |-> c.rel, name |-> t.name, hint |-> t.hint]

Resolved(c, n) == [edges |-> {Edge(c, n)}, row |-> None]
Waits(c, t)    == [edges |-> {}, row |-> t]
Skipped        == [edges |-> {}, row |-> None]

(* _resolve_from_c *)
FromKnown(c) == c.from \in cnodes

(* The claim's own target; the fallback of a claim without one             *)
ByTarget(c) ==
    IF c.target = None
    THEN IF c.to # None THEN Waits(c, ToBeNamed) ELSE Skipped
    ELSE LET found == TargetNodes(c.target)
         IN  IF Cardinality(found) = 1 THEN Resolved(c, CHOOSE n \in found : TRUE)
             ELSE Waits(c, c.target)

(* _process_claim_collect_edge: the node named, then the key, then the     *)
(* target; a claim whose source is unknown is skipped                      *)
Outcome(c) ==
    LET keyed == IF c.key = None THEN {} ELSE KeyedNodes(c.key)
    IN  IF ~FromKnown(c) THEN Skipped
        ELSE IF c.to \in cnodes THEN Resolved(c, c.to)
        ELSE CASE Cardinality(keyed) = 1 -> Resolved(c, CHOOSE n \in keyed : TRUE)
               [] Cardinality(keyed) > 1 ->
                    Waits(c, IF c.target = None THEN ToBeNamed ELSE c.target)
               [] keyed = {} -> ByTarget(c)

(* insert_pending_link_claim: a row with the same id is overwritten        *)
InsertPending(c, t) ==
    IF t = None THEN UNCHANGED <<pending, accepted>>
    ELSE /\ pending' = [p \in DOMAIN pending \cup {PendingId(c, t)} |->
                          IF p = PendingId(c, t) THEN t ELSE pending[p]]
         /\ accepted' = accepted \cup {PendingId(c, t)}

-----------------------------------------------------------------------------
(* apply_link_claims                                                        *)

StartApply ==
    /\ resolver = "idle" /\ claims < MaxClaims
    /\ resolver' = "claims" /\ batch' = {}
    /\ UNCHANGED <<cnodes, edges, pending, resolved, accepted, claims, graphOps>>

TakeClaim(c) ==
    /\ resolver = "claims" /\ claims < MaxClaims
    /\ claims' = claims + 1
    /\ batch' = batch \cup Outcome(c).edges
    /\ InsertPending(c, Outcome(c).row)
    /\ UNCHANGED <<cnodes, edges, resolver, resolved, graphOps>>

(* Edges written in one transaction                                        *)
WriteEdges ==
    /\ edges' = edges \cup batch
    /\ batch' = {}

WriteClaimed ==
    /\ resolver = "claims"
    /\ WriteEdges
    /\ resolver' = "scan"
    /\ UNCHANGED <<cnodes, pending, resolved, accepted, claims, graphOps>>

(* process_claim_dict: the same for one claim, written at once             *)
ClaimAtOnce(c) ==
    /\ resolver = "idle" /\ claims < MaxClaims
    /\ claims' = claims + 1
    /\ edges' = edges \cup Outcome(c).edges
    /\ InsertPending(c, Outcome(c).row)
    /\ UNCHANGED <<cnodes, resolver, batch, resolved, graphOps>>

-----------------------------------------------------------------------------
(* resolve_all_pending                                                      *)

(* _pending_to_edge: whether the source is still there is not asked        *)
Resolvable == {p \in DOMAIN pending : Cardinality(TargetNodes(pending[p])) = 1}

EdgeOfRow(p) == Edge(p, CHOOSE n \in TargetNodes(pending[p]) : TRUE)

Scan ==
    /\ resolver = "scan"
    /\ batch' = {EdgeOfRow(p) : p \in Resolvable}
    /\ resolved' = Resolvable
    /\ resolver' = IF Resolvable = {} THEN "idle" ELSE "write"
    /\ UNCHANGED <<cnodes, edges, pending, accepted, claims, graphOps>>

(* Mutant of WriteFound: the rows go first.                                *)
WriteFound_AfterDelete ==
    /\ resolver = "write"
    /\ IF resolved = {}
       THEN WriteEdges /\ resolver' = "delete" /\ UNCHANGED <<pending, resolved>>
       ELSE /\ resolved' = {} /\ UNCHANGED <<edges, batch, resolver>>
            /\ pending' = [p \in DOMAIN pending \ resolved |-> pending[p]]
    /\ UNCHANGED <<cnodes, accepted, claims, graphOps>>

WriteFound ==
    /\ resolver = "write"
    /\ WriteEdges
    /\ resolver' = "delete"
    /\ UNCHANGED <<cnodes, pending, resolved, accepted, claims, graphOps>>

(* One row is deleted after the other; then the next pass begins           *)
DeleteRow ==
    /\ resolver = "delete"
    /\ IF resolved = {}
       THEN resolver' = "scan" /\ UNCHANGED <<pending, resolved>>
       ELSE \E p \in resolved :
              /\ pending' = Restrict(pending, DOMAIN pending \ {p})
              /\ resolved' = resolved \ {p}
              /\ UNCHANGED resolver
    /\ UNCHANGED <<cnodes, edges, batch, accepted, claims, graphOps>>

-----------------------------------------------------------------------------
(* The rest of the store's life                                             *)

(* process_changes: the file's nodes are found again in its new text; then *)
(* every pending row is tried, whatever file it is of.                     *)
RemapFile(f) ==
    /\ resolver = "idle" /\ graphOps < MaxGraphOps
    /\ InFile(f) # {}
    /\ graphOps' = graphOps + 1
    /\ resolver' = "scan"
    /\ UNCHANGED <<cnodes, edges, pending, batch, resolved, accepted, claims>>

(* The indexer, at any time: the nodes of a file are dropped and put back  *)
(* one by one; edges to and from them stay.                                *)
DropSymbols(f) ==
    /\ graphOps < MaxGraphOps
    /\ InFile(f) # {}
    /\ graphOps' = graphOps + 1
    /\ cnodes' = cnodes \ InFile(f)
    /\ UNCHANGED <<edges, pending, resolver, batch, resolved, accepted, claims>>

PutSymbol(n) ==
    /\ graphOps < MaxGraphOps
    /\ n \notin cnodes
    /\ graphOps' = graphOps + 1
    /\ cnodes' = cnodes \cup {n}
    /\ UNCHANGED <<edges, pending, resolver, batch, resolved, accepted, claims>>

(* The worker dies; what it had only in memory is gone.                    *)
ResolverDies ==
    /\ resolver # "idle"
    /\ resolver' = "idle" /\ batch' = {} /\ resolved' = {}
    /\ UNCHANGED <<cnodes, edges, pending, accepted, claims, graphOps>>

LinkNext ==
    \/ StartApply \/ WriteClaimed \/ Scan \/ WriteFound \/ DeleteRow \/ ResolverDies
    \/ \E c \in LinkClaim : TakeClaim(c) \/ ClaimAtOnce(c)
    \/ \E f \in Files : RemapFile(f) \/ DropSymbols(f)
    \/ \E n \in Symbols : PutSymbol(n)

LinkSpec == LinkInit /\ [][LinkNext]_linkVars

-----------------------------------------------------------------------------

(* A claim that was put off is not forgotten, wherever the worker dies and *)
(* whatever the indexer does meanwhile: its row stays until the edge it    *)
(* asks for, from its source to a symbol of that name, is in the graph.    *)
PutOffIsNotForgotten ==
    \A p \in accepted :
        \/ p \in DOMAIN pending
        \/ \E e \in edges : e.from = p.from /\ e.rel = p.rel /\ e.to.name = p.name

=============================================================================
