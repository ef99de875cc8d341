--------------------------- MODULE KnowledgeBase ---------------------------
(***************************************************************************)
(* Facts in kb_records (sqlite_kb.py, kb_tools.py, promotion_policy.py).   *)
(*                                                                         *)
(* The processes of all chats and of the command line have one file.  A    *)
(* statement that reads runs outside the transaction that writes, so other *)
(* processes get in between; the statements that write are one step.  A    *)
(* fact is known by the operation that wrote its text; of its validity     *)
(* only counts whether it has an end in the past, which a write leaves     *)
(* open.  Namespaces and what promotion asks of a text are left out: where *)
(* they matter a promotion is refused, and a refusal changes nothing.      *)
(***************************************************************************)
EXTENDS Naturals, FiniteSets

CONSTANTS
    Facts,
    KbClients,   \* threads and processes
    MaxKbOps     \* bound: operations

ASSUME KbAssumption == MaxKbOps \in Nat

VARIABLES
    rec,        \* kb_records
    index,      \* kb_records_fts: the text it has of each fact, 0 for none
    kbTask,     \* what each client is in the middle of
    kbOps,      \* operations so far
    reviewed    \* history: facts that have been reviewed

kbVars == <<rec, index, kbTask, kbOps, reviewed>>

Statuses == {"none", "draft", "reviewed", "promoted", "deprecated", "superseded"}
Targets == {"reviewed", "promoted", "deprecated"}

NoFact == [status |-> "none", closed |-> FALSE, text |-> 0, audit |-> {}]
NoTask == [pc |-> "idle", facts |-> {}, old |-> {}, status |-> "none", op |-> 0, audit |-> {}]

KbOp == 1..MaxKbOps

KbRow == [status : Statuses, closed : BOOLEAN, text : 0..MaxKbOps, audit : SUBSET (0..MaxKbOps)]

KbTask == [pc : {"idle", "insert", "update", "audit", "append", "close"},
           facts : SUBSET Facts, old : SUBSET Facts, status : Statuses,
           op : 0..MaxKbOps, audit : SUBSET (0..MaxKbOps)]

KbTypeOK ==
    /\ rec \in [Facts -> KbRow]
    /\ \A f \in Facts : rec[f].status = "none" => rec[f] = NoFact
    /\ index \in [Facts -> 0..MaxKbOps]
    /\ \A f \in Facts : index[f] # 0 => rec[f].status # "none"
    /\ kbTask \in [KbClients -> KbTask]
    /\ kbOps \in 0..MaxKbOps
    /\ reviewed \subseteq Facts

KbInit ==
    /\ rec = [f \in Facts |-> NoFact]
    /\ index = [f \in Facts |-> 0]
    /\ kbTask = [c \in KbClients |-> NoTask]
    /\ kbOps = 0
    /\ reviewed = {}

Begin(c, pc, facts, old, status) ==
    /\ kbTask[c].pc = "idle"
    /\ kbOps < MaxKbOps
    /\ kbOps' = kbOps + 1
    /\ kbTask' = [kbTask EXCEPT ![c] = [pc |-> pc, facts |-> facts, old |-> old, status |-> status,
                                       op |-> kbOps', audit |-> {}]]

End(c) == kbTask' = [kbTask EXCEPT ![c] = NoTask]

-----------------------------------------------------------------------------
(* kb_write_fact.                                                           *)

(* A superseded record is not written; any other keeps its status.          *)
ReadForWrite(c, f, old) ==
    /\ rec[f].status # "superseded"
    /\ Begin(c, "insert", {f}, old, IF rec[f].status = "none" THEN "draft" ELSE rec[f].status)
    /\ UNCHANGED <<rec, index, reviewed>>

Superseding(records, old) ==
    [f \in Facts |-> IF f \in old /\ records[f].status # "none"
                     THEN [records[f] EXCEPT !.status = "superseded", !.closed = TRUE]
                     ELSE records[f]]

(* Mutant: what is superseded keeps its validity. *)
Insert_LeaveOpen(c) ==
    /\ kbTask[c].pc = "insert"
    /\ rec' = [f \in Facts |->
                  CASE f \in kbTask[c].facts ->
                         [status |-> kbTask[c].status, closed |-> FALSE, text |-> kbTask[c].op, audit |-> {}]
                    [] f \in kbTask[c].old \ kbTask[c].facts /\ rec[f].status # "none" ->
                         [rec[f] EXCEPT !.status = "superseded"]
                    [] OTHER -> rec[f]]
    /\ End(c)
    /\ UNCHANGED <<index, kbOps, reviewed>>

(* The old record is closed and, in the same transaction, the new one       *)
(* inserted or replaced - its provenance, with the audit trail, too.        *)
Insert(c) ==
    /\ kbTask[c].pc = "insert"
    /\ rec' = [f \in Facts |->
                  IF f \in kbTask[c].facts
                  THEN [status |-> kbTask[c].status, closed |-> FALSE, text |-> kbTask[c].op, audit |-> {}]
                  ELSE Superseding(rec, kbTask[c].old)[f]]
    /\ End(c)
    /\ UNCHANGED <<index, kbOps, reviewed>>

-----------------------------------------------------------------------------
(* kb_promote.                                                              *)

(* evaluate_promotion *)
MayBecome(status, to) ==
    \/ to = "reviewed" /\ status = "draft"
    \/ to = "promoted" /\ status = "reviewed"
    \/ to = "deprecated" /\ status # "superseded"

ReadForPromotion(c, f, to) ==
    /\ rec[f].status \notin {"none", to}
    /\ MayBecome(rec[f].status, to)
    /\ Begin(c, "update", {f}, {}, to)
    /\ UNCHANGED <<rec, index, reviewed>>

(* update_record_promotion *)
UpdateStatus(c) ==
    /\ kbTask[c].pc = "update"
    /\ rec' = [f \in Facts |-> IF f \in kbTask[c].facts
                               THEN [rec[f] EXCEPT !.status = kbTask[c].status] ELSE rec[f]]
    /\ reviewed' = IF kbTask[c].status = "reviewed" THEN reviewed \cup kbTask[c].facts ELSE reviewed
    /\ kbTask' = [kbTask EXCEPT ![c].pc = "audit"]
    /\ UNCHANGED <<index, kbOps>>

(* append_audit_event: reads the provenance and writes it back longer.      *)
ReadAudit(c) ==
    /\ kbTask[c].pc = "audit"
    /\ kbTask' = [kbTask EXCEPT ![c].pc = "append",
                            ![c].audit = UNION {rec[f].audit : f \in kbTask[c].facts}]
    /\ UNCHANGED <<rec, index, kbOps, reviewed>>

AppendAudit(c) ==
    /\ kbTask[c].pc = "append"
    /\ rec' = [f \in Facts |-> IF f \in kbTask[c].facts
                               THEN [rec[f] EXCEPT !.audit = kbTask[c].audit \cup {kbTask[c].op}] ELSE rec[f]]
    /\ End(c)
    /\ UNCHANGED <<index, kbOps, reviewed>>

-----------------------------------------------------------------------------
(* The command line: ailit kb ttl-apply and rebuild-index.                  *)

ReadDeprecated(c) ==
    /\ Begin(c, "close", {f \in Facts : rec[f].status = "deprecated" /\ ~rec[f].closed}, {}, "none")
    /\ UNCHANGED <<rec, index, reviewed>>

CloseDeprecated(c) ==
    /\ kbTask[c].pc = "close"
    /\ rec' = [f \in Facts |-> IF f \in kbTask[c].facts
                               THEN [rec[f] EXCEPT !.closed = TRUE] ELSE rec[f]]
    /\ End(c)
    /\ UNCHANGED <<index, kbOps, reviewed>>

RebuildIndex(c) ==
    /\ kbTask[c].pc = "idle"
    /\ index' = [f \in Facts |-> rec[f].text]
    /\ UNCHANGED <<rec, kbTask, kbOps, reviewed>>

KbNext ==
    \E c \in KbClients :
        \/ \E f \in Facts, old \in {{}} \cup {{g} : g \in Facts} : ReadForWrite(c, f, old)
        \/ \E f \in Facts, to \in Targets : ReadForPromotion(c, f, to)
        \/ Insert(c)
        \/ UpdateStatus(c)
        \/ ReadAudit(c)
        \/ AppendAudit(c)
        \/ ReadDeprecated(c)
        \/ CloseDeprecated(c)
        \/ RebuildIndex(c)

KbSpec == KbInit /\ [][KbNext]_kbVars

-----------------------------------------------------------------------------
(* kb_search.                                                               *)

(* search_fts: the index knows nothing of validity. *)
InIndex(op) == {f \in Facts : index[f] = op}

(* search: the rows of the table that are valid now. *)
InTable(op) == {f \in Facts : rec[f].text = op /\ ~rec[f].closed}

(* What a query for the text of one operation gives: the table is asked     *)
(* only where the index has nothing.                                        *)
KbFound(op) == IF InIndex(op) # {} THEN InIndex(op) ELSE InTable(op)

-----------------------------------------------------------------------------
(* Properties.                                                              *)

(* Whatever writes, promotions and clean-ups run side by side, what the     *)
(* table calls superseded has its validity closed, and so the search of the *)
(* table does not give it beside its successor (write, search).  The search *)
(* that is tried first, that of the index, asks about no validity           *)
(* (search_fts): by way of the index, and only so, kb_search does give a    *)
(* superseded record.  A promoted record was reviewed before                *)
(* (evaluate_promotion).  A write or a promotion that read before its       *)
(* record was superseded gives it another status again.                     *)
StatusTellsTruth ==
    \A f \in Facts :
        /\ rec[f].status = "superseded" =>
              /\ rec[f].closed
              /\ \A op \in KbOp : f \in KbFound(op) => index[f] = op
        /\ rec[f].status = "promoted" => f \in reviewed

=============================================================================
