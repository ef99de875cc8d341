-------------------------- MODULE KnowledgeProofs ---------------------------
(***************************************************************************)
(* Proofs about what is remembered of projects and chats: the modes of     *)
(* earlier chats, the records of the knowledge base and the calls that     *)
(* keep them, and the PAG without AgentMemory: an index of a project, the  *)
(* edges of its graph and the lines of a section.                          *)
(***************************************************************************)
EXTENDS PermMode, ModePermission, KnowledgeBase, LinkClaims, AutoMemory, SectionRemap, InlinePag, FiniteSetTheorems,
        SequenceTheorems, WellFoundedInduction, TLAPS

-----------------------------------------------------------------------------

(***************************************************************************)
(* A remembered mode stays within the decisions that are searched.         *)
(*                                                                         *)
(* A turn that began before it was remembered may still write a decision   *)
(* of its own; one that begins afterwards does not, for it finds the mode. *)
(* So the rows behind the remembered one and the turns that may yet write  *)
(* are together fewer than the chats.                                      *)
(***************************************************************************)

(* The turns that may still write a decision. *)
Undecided == {c \in PermChats : turn[c].pc \in {"classify", "gate"}}

(* Row i has what was remembered last, and will not be pushed out. *)
Keeps(i) ==
    /\ i \in DOMAIN decisions
    /\ decisions[i].always
    /\ decisions[i].mode = remembered
    /\ \A j \in DOMAIN decisions : j > i => ~decisions[j].always
    /\ Len(decisions) - i + Cardinality(Undecided) < PermWindow

(* A mode was remembered exactly if a row says so. *)
Kept == IF remembered = NoMode THEN Always = {} ELSE \E i \in Nat : Keeps(i)

PermInv ==
    /\ PermTypeOK
    /\ Kept
    /\ \A c \in PermChats : turn[c].pc = "remember" => turn[c].mode \in Modes

-----------------------------------------------------------------------------

(* Only tools that the policy may let through are shown to the model: no    *)
(* call the mode of the turn offered is denied outright (perm_tool_mode.py, *)
(* mode_permission_policy.py).                                              *)
THEOREM ToldToolsMayRun ==
    \A mode \in Modes, path \in PermPaths : \A tool \in Exposed(mode) :
        Evaluate(mode, tool, path) \in {"allow", "ask"}
<1> SUFFICES ASSUME NEW mode \in Modes, NEW path \in PermPaths, NEW tool \in Exposed(mode)
             PROVE  Evaluate(mode, tool, path) \in {"allow", "ask"}
  OBVIOUS
<1>1. CASE mode = "edit"
  BY <1>1 DEF Evaluate
<1>2. CASE mode = "read"
  BY <1>2 DEF Evaluate, Exposed, ReadTools, FileTools, ShellTools
<1>3. CASE mode = "read_plan"
  BY <1>3 DEF Evaluate, Exposed, ReadTools, FileTools, ShellTools
<1>4. CASE mode = "explore"
  BY <1>4 DEF Evaluate, Exposed, ReadTools, FileTools, ShellTools
<1> QED  BY <1>1, <1>2, <1>3, <1>4 DEF Modes

-----------------------------------------------------------------------------

(* The mode of the last row that says always. *)
LEMMA LastAlways ==
    ASSUME PermTypeOK, NEW i \in DOMAIN decisions, decisions[i].always,
           \A j \in DOMAIN decisions : j > i => ~decisions[j].always
    PROVE  ProjectDefault = decisions[i].mode
<1> DEFINE last == CHOOSE k \in Always : \A j \in Always : j <= k
<1>1. i \in Always /\ \A j \in Always : j <= i
  BY DEF Always, PermTypeOK
<1>2. last \in Always /\ \A j \in Always : j <= last
  BY <1>1
<1>3. last = i
  BY <1>1, <1>2 DEF Always, PermTypeOK
<1> QED  BY <1>1, <1>3 DEF ProjectDefault

LEMMA UndecidedIsFinite ==
    IsFiniteSet(Undecided) /\ Cardinality(Undecided) \in Nat
BY PermAssumption, FS_Subset, FS_CardinalityType DEF Undecided

(* A turn that leaves the undecided ones. *)
LEMMA OneFewer ==
    ASSUME NEW c \in Undecided, NEW t, t.pc \notin {"classify", "gate"},
           PermTypeOK, turn' = [turn EXCEPT ![c] = t]
    PROVE  Cardinality(Undecided') = Cardinality(Undecided) - 1
<1>1. Undecided' = Undecided \ {c}
  BY DEF Undecided, PermTypeOK
<1> QED  BY <1>1, UndecidedIsFinite, FS_RemoveElement

(* One row more, none of which the remembered one falls behind. *)
LEMMA RowsMove ==
    ASSUME PermTypeOK, NEW i \in Nat, Keeps(i), NEW mode \in Modes,
           WriteDecision(FALSE, mode), remembered' = remembered,
           Cardinality(Undecided') = Cardinality(Undecided) - 1,
           Cardinality(Undecided') \in Nat
    PROVE  \E k \in Nat : Keeps(k)'
<1> DEFINE row == [always |-> FALSE, mode |-> mode]
           all == Append(decisions, row)
<1> row \in Decision
  BY DEF Decision
<1>1. /\ all \in Seq(Decision)
      /\ Len(all) = Len(decisions) + 1
      /\ \A j \in 1..Len(decisions) : all[j] = decisions[j]
      /\ all[Len(all)] = row
  BY DEF PermTypeOK
<1>2. i \in 1..Len(decisions) /\ PermWindow \in Nat /\ Cardinality(Undecided) \in Nat
  BY PermAssumption, UndecidedIsFinite DEF Keeps, PermTypeOK
<1> HIDE DEF all
<1>3. CASE Len(all) > PermWindow
  <2>1. decisions' = Tail(all)
    BY <1>3 DEF WriteDecision, Newest, all
  <2>2. /\ Len(Tail(all)) = Len(decisions)
        /\ \A j \in 1..Len(decisions) : Tail(all)[j] = all[j + 1]
    BY <1>1, <1>2
  <2>3. i > 1
    BY <1>1, <1>2, <1>3 DEF Keeps
  <2>4. DOMAIN decisions' = 1..Len(decisions)
    BY <1>1, <1>2, <2>1, <2>2
  <2>5. decisions'[i - 1] = decisions[i]
    BY <1>1, <1>2, <2>1, <2>2, <2>3
  <2>6. ASSUME NEW j \in DOMAIN decisions', j > i - 1
        PROVE  ~decisions'[j].always
    <3>1. CASE j = Len(decisions)
      BY <3>1, <1>1, <1>2, <2>1, <2>2, <2>4
    <3>2. CASE j # Len(decisions)
      <4>1. j \in 1..(Len(decisions) - 1) /\ Len(decisions) \in Nat
        BY <3>2, <2>4 DEF PermTypeOK
      <4>2. j + 1 \in 1..Len(decisions) /\ j + 1 > i
        BY <4>1, <2>6, <1>2
      <4>3. decisions'[j] = decisions[j + 1]
        BY <4>1, <4>2, <1>1, <2>1, <2>2
      <4>4. j + 1 \in DOMAIN decisions
        BY <4>2 DEF PermTypeOK
      <4> QED  BY <4>2, <4>3, <4>4 DEF Keeps
    <3> QED  BY <3>1, <3>2
  <2>7. Len(decisions') - (i - 1) + Cardinality(Undecided') < PermWindow
    BY <1>1, <1>2, <2>1, <2>2, SMTT(30) DEF Keeps
  <2>8. Keeps(i - 1)'
    BY <1>2, <2>3, <2>4, <2>5, <2>6, <2>7 DEF Keeps
  <2> QED  BY <1>2, <2>3, <2>8
<1>4. CASE ~(Len(all) > PermWindow)
  <2>1. decisions' = all
    BY <1>4 DEF WriteDecision, Newest, all
  <2>2. DOMAIN decisions' = 1..(Len(decisions) + 1)
    BY <1>1, <2>1
  <2>3. ASSUME NEW j \in DOMAIN decisions', j > i
        PROVE  ~decisions'[j].always
    BY <1>1, <1>2, <2>1, <2>2, <2>3, SMTT(30) DEF Keeps, PermTypeOK
  <2>4. Len(decisions') - i + Cardinality(Undecided') < PermWindow
    BY <1>1, <1>2, <2>1, SMTT(30) DEF Keeps
  <2>5. Keeps(i)'
    BY <1>1, <1>2, <2>1, <2>2, <2>3, <2>4, SMTT(30) DEF Keeps
  <2> QED  BY <2>5
<1> QED  BY <1>3, <1>4

LEMMA WriteKeepsType ==
    ASSUME PermTypeOK, NEW always \in BOOLEAN, NEW mode \in Modes, WriteDecision(always, mode)
    PROVE  decisions' \in Seq(Decision) /\ Len(decisions') <= PermWindow
<1> DEFINE all == Append(decisions, [always |-> always, mode |-> mode])
<1>1. all \in Seq(Decision) /\ Len(all) = Len(decisions) + 1 /\ Len(decisions) \in Nat
  BY DEF PermTypeOK, Decision
<1>2. Len(decisions) <= PermWindow /\ PermWindow \in Nat
  BY PermAssumption DEF PermTypeOK
<1>3. CASE Len(all) > PermWindow
  <2>1. decisions' = Tail(all)
    BY <1>3 DEF WriteDecision, Newest
  <2> HIDE DEF all
  <2> QED  BY <1>1, <1>2, <2>1
<1>4. CASE ~(Len(all) > PermWindow)
  BY <1>1, <1>2, <1>4 DEF WriteDecision, Newest
<1> QED  BY <1>3, <1>4

(* What was written is the newest row. *)
LEMMA NewestLast ==
    ASSUME PermTypeOK, NEW always \in BOOLEAN, NEW mode \in Modes, WriteDecision(always, mode),
           PermWindow > 0
    PROVE  /\ Len(decisions') \in Nat \ {0}
           /\ decisions'[Len(decisions')] = [always |-> always, mode |-> mode]
<1> DEFINE row == [always |-> always, mode |-> mode]
           all == Append(decisions, row)
           n == Len(decisions)
<1>1. /\ all \in Seq(Decision) /\ Len(all) = n + 1 /\ n \in Nat
      /\ all[n + 1] = row
  BY DEF PermTypeOK, Decision
<1>2. n <= PermWindow /\ PermWindow \in Nat
  BY PermAssumption DEF PermTypeOK
<1>3. CASE Len(all) > PermWindow
  <2>1. decisions' = Tail(all)
    BY <1>3 DEF WriteDecision, Newest
  <2> HIDE DEF all
  <2>2. Len(Tail(all)) = n /\ n > 0
    BY <1>1, <1>2, <1>3
  <2>3. Tail(all)[n] = all[n + 1]
    BY <1>1, <2>2
  <2> QED  BY <1>1, <2>1, <2>2, <2>3
<1>4. CASE ~(Len(all) > PermWindow)
  <2>1. decisions' = all
    BY <1>4 DEF WriteDecision, Newest
  <2> HIDE DEF all
  <2> QED  BY <1>1, <2>1
<1> QED  BY <1>3, <1>4

(* Where no row is written and nobody joins the undecided turns.            *)
LEMMA NothingWritten ==
    ASSUME PermInv, UNCHANGED <<decisions, remembered>>, Undecided' \subseteq Undecided
    PROVE  Kept'
<1>1. Cardinality(Undecided') <= Cardinality(Undecided) /\ Cardinality(Undecided') \in Nat
  BY UndecidedIsFinite, FS_Subset, FS_CardinalityType
<1>2. ASSUME NEW i \in Nat, Keeps(i)  PROVE Keeps(i)'
  BY <1>1, <1>2, UndecidedIsFinite, PermAssumption DEF Keeps, PermInv, PermTypeOK
<1> QED  BY <1>2 DEF PermInv, Kept, Always

(* Once a row was written, the turn that wrote it is no longer undecided.   *)
LEMMA PlainRow ==
    ASSUME PermTypeOK, Kept, NEW mode \in Modes, WriteDecision(FALSE, mode), remembered' = remembered,
           Cardinality(Undecided') = Cardinality(Undecided) - 1,
           Cardinality(Undecided') \in Nat
    PROVE  Kept'
<1>1. CASE remembered # NoMode
  BY <1>1, RowsMove DEF Kept
<1>2. CASE remembered = NoMode
  <2>1. \A j \in DOMAIN decisions : ~decisions[j].always
    BY <1>2 DEF Kept, Always
  <2>2. \A j \in DOMAIN decisions' : ~decisions'[j].always
    <3> DEFINE all == Append(decisions, [always |-> FALSE, mode |-> mode])
    <3>1. /\ all \in Seq(Decision)
          /\ Len(all) = Len(decisions) + 1 /\ Len(decisions) \in Nat
          /\ \A j \in 1..Len(all) : ~all[j].always
      <4>1. all \in Seq(Decision) /\ Len(all) = Len(decisions) + 1 /\ Len(decisions) \in Nat
        BY DEF PermTypeOK, Decision
      <4>2. /\ \A j \in 1..Len(decisions) : all[j] = decisions[j] /\ j \in DOMAIN decisions
            /\ ~all[Len(decisions) + 1].always
        BY DEF PermTypeOK, Decision
      <4> HIDE DEF all
      <4> QED  BY <2>1, <4>1, <4>2
    <3>2. decisions' = all \/ decisions' = Tail(all)
      BY DEF WriteDecision, Newest
    <3> HIDE DEF all
    <3> QED  BY <3>1, <3>2, SMTT(30)
  <2> QED  BY <1>2, <2>2 DEF Kept, Always
<1> QED  BY <1>1, <1>2

LEMMA PermInvHolds == PermSpec => []PermInv
<1>1. PermInit => PermInv
  BY PermAssumption DEF PermInit, PermInv, PermTypeOK, NoTurn, Kept, Always
<1>2. PermInv /\ [PermNext]_permVars => PermInv'
  <2> SUFFICES ASSUME PermInv, [PermNext]_permVars  PROVE PermInv'
    OBVIOUS
  <2> USE DEF PermInv
  <2>1. CASE UNCHANGED permVars
    <3>1. Undecided' = Undecided
      BY <2>1 DEF permVars, Undecided
    <3> QED  BY <2>1, <3>1, NothingWritten DEF permVars, PermTypeOK
  <2>2. ASSUME NEW c \in PermChats, StartForced(c) \/ ClassifierFails(c) \/ EndPermTurn(c)
        PROVE  PermInv'
    <3>1. PermTypeOK' /\ \A d \in PermChats : turn'[d].pc = "remember" => turn'[d].mode \in Modes
      BY <2>2 DEF StartForced, ClassifierFails, EndPermTurn, Settle, NoTurn, PermTypeOK, Modes
    <3>2. Undecided' \subseteq Undecided /\ UNCHANGED <<decisions, remembered>>
      BY <2>2 DEF StartForced, ClassifierFails, EndPermTurn, Settle, NoTurn, PermTypeOK, Undecided
    <3> QED  BY <3>1, <3>2, NothingWritten
  <2>3. ASSUME NEW c \in PermChats, ClassifierAsks(c)
        PROVE  PermInv'
    <3>1. PermTypeOK' /\ \A d \in PermChats : turn'[d].pc = "remember" => turn'[d].mode \in Modes
      BY <2>3 DEF ClassifierAsks, PermTypeOK
    <3>2. Undecided' \subseteq Undecided /\ UNCHANGED <<decisions, remembered>>
      BY <2>3 DEF ClassifierAsks, PermTypeOK, Undecided
    <3> QED  BY <3>1, <3>2, NothingWritten
  <2>4. ASSUME NEW c \in PermChats, StartPermTurn(c)
        PROVE  PermInv'
    <3>1. ProjectDefault = remembered
      <4>1. CASE remembered = NoMode
        BY <4>1 DEF ProjectDefault, Kept
      <4>2. CASE remembered # NoMode
        <5>1. PICK i \in Nat : Keeps(i)
          BY <4>2 DEF Kept
        <5> QED  BY <5>1, LastAlways DEF Keeps
      <4> QED  BY <4>1, <4>2
    <3>2. PermTypeOK' /\ \A d \in PermChats : turn'[d].pc = "remember" => turn'[d].mode \in Modes
      BY <2>4, <3>1 DEF StartPermTurn, Settle, PermTypeOK
    <3>3. CASE remembered = NoMode
      BY <2>4, <3>2, <3>3 DEF StartPermTurn, Kept, Always
    <3>4. CASE remembered # NoMode
      <4>1. Undecided' \subseteq Undecided /\ UNCHANGED <<decisions, remembered>>
        BY <2>4, <3>1, <3>4 DEF StartPermTurn, Settle, Undecided, PermTypeOK
      <4> QED  BY <3>2, <4>1, NothingWritten
    <3> QED  BY <3>3, <3>4
  <2>5. ASSUME NEW c \in PermChats, ClassifierDecides(c) \/ UserChooses(c)
        PROVE  PermInv'
    <3>1. PICK mode \in Modes, t \in [pc : {"remember", "settled"}, mode : Modes] :
              WriteDecision(FALSE, mode) /\ turn' = [turn EXCEPT ![c] = t]
      <4>1. CASE ClassifierDecides(c)
        BY <4>1 DEF ClassifierDecides, Settle
      <4>2. CASE UserChooses(c)
        BY <4>2 DEF UserChooses
      <4> QED  BY <2>5, <4>1, <4>2
    <3>2. c \in Undecided /\ remembered' = remembered
      BY <2>5 DEF ClassifierDecides, UserChooses, Undecided
    <3>3. PermTypeOK' /\ \A d \in PermChats : turn'[d].pc = "remember" => turn'[d].mode \in Modes
      BY <3>1, <3>2, WriteKeepsType DEF PermTypeOK
    <3>4. Cardinality(Undecided') = Cardinality(Undecided) - 1
      BY <3>1, <3>2, OneFewer
    <3>5. Cardinality(Undecided') \in Nat
      <4>1. Undecided' \subseteq PermChats
        BY DEF Undecided
      <4> QED  BY <4>1, PermAssumption, FS_Subset, FS_CardinalityType
    <3>6. Kept'
      BY <3>1, <3>2, <3>4, <3>5, PlainRow
    <3> QED  BY <3>3, <3>6
  <2>6. ASSUME NEW c \in PermChats, RememberAlways(c)
        PROVE  PermInv'
    <3>1. turn[c].mode \in Modes /\ NoMode \notin Modes
      BY <2>6 DEF RememberAlways, Modes, NoMode
    <3>2. WriteDecision(TRUE, turn[c].mode) /\ remembered' = turn[c].mode /\ Settle(c, turn[c].mode)
      BY <2>6 DEF RememberAlways
    <3>3. PermTypeOK' /\ \A d \in PermChats : turn'[d].pc = "remember" => turn'[d].mode \in Modes
      BY <3>1, <3>2, WriteKeepsType DEF PermTypeOK, Settle
    <3> PermWindow > 0
      BY FS_EmptySet, FS_CardinalityType, PermAssumption
    <3>4. PICK i \in Nat \ {0} :
              i = Len(decisions') /\ decisions'[i] = [always |-> TRUE, mode |-> turn[c].mode]
      BY <3>1, <3>2, NewestLast
    <3>5. Cardinality(Undecided') < PermWindow
      <4>1. c \notin Undecided' /\ Undecided' \subseteq PermChats
        BY <3>2 DEF Undecided, Settle, PermTypeOK
      <4>2. Undecided' \subseteq PermChats \ {c}
        BY <4>1
      <4>3. /\ IsFiniteSet(PermChats \ {c})
            /\ Cardinality(PermChats \ {c}) = Cardinality(PermChats) - 1
        BY PermAssumption, FS_RemoveElement
      <4>4. Cardinality(Undecided') <= Cardinality(PermChats) - 1
        BY <4>2, <4>3, FS_Subset
      <4>5. Cardinality(Undecided') \in Nat /\ Cardinality(PermChats) \in Nat
        BY <4>2, <4>3, FS_Subset, FS_CardinalityType, PermAssumption
      <4> QED  BY <4>4, <4>5, PermAssumption
    <3>6. Keeps(i)'
      <4>1. DOMAIN decisions' = 1..i /\ i \in DOMAIN decisions'
        BY <3>3, <3>4 DEF PermTypeOK
      <4>2. decisions'[i].always /\ decisions'[i].mode = remembered'
        BY <3>2, <3>4
      <4>3. \A j \in DOMAIN decisions' : ~(j > i)
        BY <4>1, <3>4
      <4>4. Len(decisions') - i = 0
        BY <3>4
      <4>5. Cardinality(Undecided') \in Nat
        BY PermAssumption, FS_Subset, FS_CardinalityType DEF Undecided
      <4>6. Len(decisions') - i + Cardinality(Undecided') < PermWindow
        BY <3>4, <3>5, <4>5
      <4> QED  BY <4>1, <4>2, <4>3, <4>6 DEF Keeps
    <3> QED  BY <3>1, <3>2, <3>3, <3>4, <3>6 DEF Kept
  <2> QED  BY <2>1, <2>2, <2>3, <2>4, <2>5, <2>6 DEF PermNext
<1> QED  BY <1>1, <1>2, PTL DEF PermSpec

(* A mode the user had remembered for the project is found by every later   *)
(* turn, however many chats share the project, if the window of decisions   *)
(* that are searched is no shorter than the chats are many                  *)
(* (project_default_mode_from_kb).                                          *)
THEOREM RememberedStays == PermSpec => []RememberedModeIsFound
<1>1. PermInv => RememberedModeIsFound
  <2> SUFFICES ASSUME PermInv, remembered # NoMode
               PROVE  ProjectDefault = remembered
    BY DEF RememberedModeIsFound
  <2>1. PICK i \in Nat : Keeps(i)
    BY DEF PermInv, Kept
  <2> QED  BY <2>1, LastAlways DEF Keeps, PermInv
<1> QED  BY <1>1, PermInvHolds, PTL

-----------------------------------------------------------------------------

(***************************************************************************)
(* The status of a record, whatever is read before others write.           *)
(*                                                                         *)
(* A client writes back a status it read before: that of a record it is    *)
(* about to replace, or the next one. It never read "superseded", and if   *)
(* it read that a record was reviewed, the record was, whatever its status *)
(* is by then.                                                             *)
(***************************************************************************)

(* Records are never removed: what a client found is still there. *)
StillThere(c) ==
    kbTask[c].pc \in {"update", "audit", "append", "close"} =>
        \A f \in kbTask[c].facts : rec[f].status # "none"

(* A status a client is about to write. *)
MayWrite(c) ==
    /\ kbTask[c].pc \in {"insert", "update"} => kbTask[c].status \notin {"none", "superseded"}
    /\ kbTask[c].pc = "insert" /\ kbTask[c].status \in {"reviewed", "promoted"}
           => kbTask[c].facts \subseteq reviewed
    /\ kbTask[c].pc = "update" /\ kbTask[c].status = "promoted" => kbTask[c].facts \subseteq reviewed

RowIsRight(f) ==
    /\ rec[f].status = "superseded" => rec[f].closed
    /\ rec[f].status \in {"reviewed", "promoted"} => f \in reviewed

KbInv ==
    /\ KbTypeOK
    /\ \A c \in KbClients : StillThere(c) /\ MayWrite(c)
    /\ \A f \in Facts : RowIsRight(f)

-----------------------------------------------------------------------------

(* What a client does that changes no row. *)
LEMMA TaskChanges ==
    ASSUME KbInv, rec' = rec, index' = index, reviewed' = reviewed, kbOps' \in 0..MaxKbOps,
           NEW c \in KbClients, NEW t \in KbTask, kbTask' = [kbTask EXCEPT ![c] = t],
           StillThere(c)', MayWrite(c)'
    PROVE  KbInv'
<1>1. KbTypeOK'
  BY DEF KbInv, KbTypeOK
<1>2. ASSUME NEW d \in KbClients  PROVE StillThere(d)' /\ MayWrite(d)'
  <2>1. CASE d = c
    BY <2>1
  <2>2. CASE d # c
    BY <2>2 DEF KbInv, KbTypeOK, StillThere, MayWrite
  <2> QED  BY <2>1, <2>2
<1> QED  BY <1>1, <1>2 DEF KbInv, RowIsRight

(* What a client does that changes rows, but removes none. *)
LEMMA RowsChange ==
    ASSUME KbInv, rec' \in [Facts -> KbRow], index' = index, kbOps' = kbOps,
           reviewed \subseteq reviewed', reviewed' \subseteq Facts,
           NEW c \in KbClients, NEW t \in KbTask, kbTask' = [kbTask EXCEPT ![c] = t],
           t.pc \notin {"insert", "update"},
           t.pc \in {"audit", "append", "close"} => t.facts = kbTask[c].facts /\ kbTask[c].pc = "update",
           \A f \in Facts : /\ rec[f].status # "none" => rec'[f].status # "none"
                            /\ rec'[f].status = "none" => rec'[f] = rec[f]
                            /\ RowIsRight(f)'
    PROVE  KbInv'
<1>1. KbTypeOK'
  BY DEF KbInv, KbTypeOK
<1>2. ASSUME NEW d \in KbClients  PROVE StillThere(d)' /\ MayWrite(d)'
  <2>1. kbTask[d].facts \subseteq Facts /\ t.facts \subseteq Facts
    BY DEF KbInv, KbTypeOK, KbTask
  <2>2. CASE d = c
    BY <2>1, <2>2 DEF KbInv, KbTypeOK, StillThere, MayWrite
  <2>3. CASE d # c
    BY <2>1, <2>3 DEF KbInv, KbTypeOK, StillThere, MayWrite
  <2> QED  BY <2>2, <2>3
<1> QED  BY <1>1, <1>2 DEF KbInv

LEMMA KbInvHolds == KbSpec => []KbInv
<1>1. KbInit => KbInv
  BY KbAssumption DEF KbInit, KbInv, KbTypeOK, KbRow, KbTask, Statuses, NoFact, NoTask,
     StillThere, MayWrite, RowIsRight
<1>2. KbInv /\ [KbNext]_kbVars => KbInv'
  <2> SUFFICES ASSUME KbInv, [KbNext]_kbVars  PROVE KbInv'
    OBVIOUS
  <2> USE KbAssumption
  <2>1. ASSUME NEW c \in KbClients, NEW f \in Facts, NEW old \in SUBSET Facts, ReadForWrite(c, f, old)
        PROVE  KbInv'
    <3> DEFINE status == IF rec[f].status = "none" THEN "draft" ELSE rec[f].status
               t == [pc |-> "insert", facts |-> {f}, old |-> old, status |-> status,
                     op |-> kbOps + 1, audit |-> {}]
    <3>1. kbTask' = [kbTask EXCEPT ![c] = t] /\ kbOps' \in 0..MaxKbOps
          /\ UNCHANGED <<rec, index, reviewed>>
      BY <2>1 DEF ReadForWrite, Begin, KbInv, KbTypeOK
    <3>2. status \in Statuses \ {"none", "superseded"}
      BY <2>1 DEF ReadForWrite, KbInv, KbTypeOK, KbRow, Statuses
    <3>3. t \in KbTask
      BY <2>1, <3>2 DEF ReadForWrite, Begin, KbInv, KbTypeOK, KbTask
    <3>4. StillThere(c)' /\ MayWrite(c)'
      BY <3>1, <3>2 DEF KbInv, KbTypeOK, StillThere, MayWrite, RowIsRight
    <3> QED  BY <3>1, <3>3, <3>4, TaskChanges
  <2>2. ASSUME NEW c \in KbClients, NEW f \in Facts, NEW to \in Targets, ReadForPromotion(c, f, to)
        PROVE  KbInv'
    <3> DEFINE t == [pc |-> "update", facts |-> {f}, old |-> {}, status |-> to,
                     op |-> kbOps + 1, audit |-> {}]
    <3>1. kbTask' = [kbTask EXCEPT ![c] = t] /\ kbOps' \in 0..MaxKbOps
          /\ UNCHANGED <<rec, index, reviewed>>
      BY <2>2 DEF ReadForPromotion, Begin, KbInv, KbTypeOK
    <3>2. t \in KbTask
      BY <2>2 DEF ReadForPromotion, Begin, KbInv, KbTypeOK, KbTask, Targets, Statuses
    <3>3. StillThere(c)' /\ MayWrite(c)'
      BY <2>2, <3>1 DEF ReadForPromotion, MayBecome, Targets, KbInv, KbTypeOK, StillThere, MayWrite, RowIsRight
    <3> QED  BY <3>1, <3>2, <3>3, TaskChanges
  <2>3. ASSUME NEW c \in KbClients, ReadDeprecated(c)
        PROVE  KbInv'
    <3> DEFINE facts == {f \in Facts : rec[f].status = "deprecated" /\ ~rec[f].closed}
               t == [pc |-> "close", facts |-> facts, old |-> {}, status |-> "none",
                     op |-> kbOps + 1, audit |-> {}]
    <3>1. kbTask' = [kbTask EXCEPT ![c] = t] /\ kbOps' \in 0..MaxKbOps
          /\ UNCHANGED <<rec, index, reviewed>>
      BY <2>3 DEF ReadDeprecated, Begin, KbInv, KbTypeOK
    <3>2. t \in KbTask
      BY <2>3 DEF ReadDeprecated, Begin, KbInv, KbTypeOK, KbTask, Statuses
    <3>3. StillThere(c)' /\ MayWrite(c)'
      BY <3>1 DEF KbInv, KbTypeOK, StillThere, MayWrite
    <3> QED  BY <3>1, <3>2, <3>3, TaskChanges
  <2>4. ASSUME NEW c \in KbClients, ReadAudit(c)
        PROVE  KbInv'
    <3> DEFINE t == [kbTask[c] EXCEPT !.pc = "append",
                                      !.audit = UNION {rec[f].audit : f \in kbTask[c].facts}]
    <3>1. kbTask' = [kbTask EXCEPT ![c] = t] /\ UNCHANGED <<rec, index, reviewed, kbOps>>
      BY <2>4 DEF ReadAudit
    <3>2. t \in KbTask
      <4>1. \A f \in kbTask[c].facts : rec[f].audit \subseteq 0..MaxKbOps
        BY DEF KbInv, KbTypeOK, KbTask, KbRow
      <4>2. (UNION {rec[f].audit : f \in kbTask[c].facts}) \subseteq 0..MaxKbOps
        BY <4>1
      <4> QED  BY <4>2, ZenonT(30) DEF KbInv, KbTypeOK, KbTask
    <3>3. StillThere(c)' /\ MayWrite(c)'
      BY <2>4, <3>1, <3>2, ZenonT(30) DEF ReadAudit, KbInv, KbTypeOK, KbTask, StillThere, MayWrite
    <3>4. kbOps' \in 0..MaxKbOps
      BY <3>1 DEF KbInv, KbTypeOK
    <3> QED  BY <3>1, <3>2, <3>3, <3>4, TaskChanges
  <2>5. NoTask \in KbTask
    BY DEF NoTask, KbTask, Statuses
  <2>6. ASSUME NEW c \in KbClients, Insert(c)
        PROVE  KbInv'
    <3>1. rec' \in [Facts -> KbRow]
      <4> DEFINE row == [status |-> kbTask[c].status, closed |-> FALSE, text |-> kbTask[c].op, audit |-> {}]
      <4>1. row \in KbRow
        BY DEF KbInv, KbTypeOK, KbRow, KbTask
      <4>2. ASSUME NEW f \in Facts  PROVE Superseding(rec, kbTask[c].old)[f] \in KbRow
        BY DEF Superseding, KbInv, KbTypeOK, KbRow, Statuses
      <4>3. rec' = [f \in Facts |-> IF f \in kbTask[c].facts THEN row
                                   ELSE Superseding(rec, kbTask[c].old)[f]]
        BY <2>6 DEF Insert
      <4> HIDE DEF row
      <4> QED  BY <4>1, <4>2, <4>3
    <3>2. ASSUME NEW f \in Facts
          PROVE  /\ rec[f].status # "none" => rec'[f].status # "none"
                 /\ rec'[f].status = "none" => rec'[f] = rec[f]
                 /\ RowIsRight(f)'
      BY <2>6, <3>2 DEF Insert, Superseding, KbInv, KbTypeOK, KbRow, MayWrite, RowIsRight
    <3> QED  BY <2>5, <2>6, <3>1, <3>2, RowsChange DEF Insert, End, NoTask, KbInv, KbTypeOK
  <2>7. ASSUME NEW c \in KbClients, UpdateStatus(c)
        PROVE  KbInv'
    <3> DEFINE t == [kbTask[c] EXCEPT !.pc = "audit"]
    <3>1. t \in KbTask /\ t.pc = "audit" /\ t.facts = kbTask[c].facts
      BY DEF KbInv, KbTypeOK, KbTask
    <3>2. rec' \in [Facts -> KbRow]
      BY <2>7, SMTT(30) DEF UpdateStatus, KbInv, KbTypeOK, KbRow, KbTask
    <3>3. reviewed \subseteq reviewed' /\ reviewed' \subseteq Facts
      BY <2>7 DEF UpdateStatus, KbInv, KbTypeOK, KbTask
    <3>4. ASSUME NEW f \in Facts
          PROVE  /\ rec[f].status # "none" => rec'[f].status # "none"
                 /\ rec'[f].status = "none" => rec'[f] = rec[f]
                 /\ RowIsRight(f)'
      BY <2>7, <3>4 DEF UpdateStatus, KbInv, KbTypeOK, KbRow, MayWrite, StillThere, RowIsRight
    <3> QED  BY <2>7, <3>1, <3>2, <3>3, <3>4, RowsChange DEF UpdateStatus
  <2>8. ASSUME NEW c \in KbClients, AppendAudit(c)
        PROVE  KbInv'
    <3>1. rec' \in [Facts -> KbRow]
      <4> DEFINE audit == kbTask[c].audit \cup {kbTask[c].op}
      <4>1. audit \subseteq 0..MaxKbOps
        BY <2>8 DEF AppendAudit, KbInv, KbTypeOK, KbTask
      <4>2. ASSUME NEW f \in Facts  PROVE [rec[f] EXCEPT !.audit = audit] \in KbRow
        BY <4>1 DEF KbInv, KbTypeOK, KbRow
      <4> QED  BY <2>8, <4>2 DEF AppendAudit, KbInv, KbTypeOK
    <3>2. ASSUME NEW f \in Facts
          PROVE  /\ rec[f].status # "none" => rec'[f].status # "none"
                 /\ rec'[f].status = "none" => rec'[f] = rec[f]
                 /\ RowIsRight(f)'
      BY <2>8, <3>2 DEF AppendAudit, KbInv, KbTypeOK, KbRow, StillThere, RowIsRight
    <3> QED  BY <2>5, <2>8, <3>1, <3>2, RowsChange DEF AppendAudit, End, NoTask, KbInv, KbTypeOK
  <2>9. ASSUME NEW c \in KbClients, CloseDeprecated(c)
        PROVE  KbInv'
    <3>1. rec' \in [Facts -> KbRow]
      BY <2>9, ZenonT(30) DEF CloseDeprecated, KbInv, KbTypeOK, KbRow
    <3>2. ASSUME NEW f \in Facts
          PROVE  /\ rec[f].status # "none" => rec'[f].status # "none"
                 /\ rec'[f].status = "none" => rec'[f] = rec[f]
                 /\ RowIsRight(f)'
      BY <2>9, <3>2 DEF CloseDeprecated, KbInv, KbTypeOK, KbRow, StillThere, RowIsRight
    <3> QED  BY <2>5, <2>9, <3>1, <3>2, RowsChange DEF CloseDeprecated, End, NoTask, KbInv, KbTypeOK
  <2>10. ASSUME NEW c \in KbClients, RebuildIndex(c)
         PROVE  KbInv'
    BY <2>10 DEF RebuildIndex, KbInv, KbTypeOK, KbRow, StillThere, MayWrite, RowIsRight, NoFact
  <2>11. CASE UNCHANGED kbVars
    BY <2>11 DEF kbVars, KbInv, KbTypeOK, StillThere, MayWrite, RowIsRight
  <2> QED
    BY <2>1, <2>2, <2>3, <2>4, <2>6, <2>7, <2>8, <2>9, <2>10, <2>11 DEF KbNext
<1> QED  BY <1>1, <1>2, PTL DEF KbSpec

(* However many processes write, promote and clean up side by side, a       *)
(* superseded record is closed and found by way of the index only, which    *)
(* asks about no validity, and none is promoted that was not reviewed       *)
(* (SqliteKb.write, search, search_fts, evaluate_promotion).                *)
THEOREM StatusIsTrue == KbSpec => []StatusTellsTruth
<1>1. KbInv => StatusTellsTruth
  BY DEF KbInv, RowIsRight, StatusTellsTruth, KbFound, InIndex, InTable
<1> QED  BY <1>1, KbInvHolds, PTL

-----------------------------------------------------------------------------

(***************************************************************************)
(* The graph's edges: a claim that is put off is not forgotten, whatever   *)
(* is indexed, rescanned or resolved in between.                           *)
(***************************************************************************)

(* While the resolver turns rows into edges, each row it will delete has    *)
(* its edge in what is to be written, and then in the graph.                *)
Asked(e, p) == e.from = p.from /\ e.rel = p.rel /\ e.to.name = p.name

RowsAreNamed == \A p \in DOMAIN pending : pending[p].name = p.name

FoundHaveEdges ==
    /\ resolver = "write" => \A p \in resolved : \E e \in batch : Asked(e, p)
    /\ resolver = "delete" => \A p \in resolved : \E e \in edges : Asked(e, p)

LinkInv == RowsAreNamed /\ FoundHaveEdges /\ PutOffIsNotForgotten

(* A row is for the target of its claim. *)
LEMMA RowIsNamed ==
    ASSUME NEW c, NEW t, InsertPending(c, t), RowsAreNamed
    PROVE  /\ RowsAreNamed'
           /\ DOMAIN pending \subseteq DOMAIN pending'
           /\ \A p \in accepted' : p \in accepted \/ p \in DOMAIN pending'
BY DEF InsertPending, RowsAreNamed, PendingId

(* Edges are only added. *)
LEMMA KeepsRows ==
    ASSUME LinkInv, RowsAreNamed', edges \subseteq edges',
           DOMAIN pending \subseteq DOMAIN pending',
           \A p \in accepted' : p \in accepted \/ p \in DOMAIN pending',
           resolver' \in {"write", "delete"} => UNCHANGED <<resolver, batch, resolved>>
    PROVE  LinkInv'
<1>1. FoundHaveEdges'
  BY DEF LinkInv, FoundHaveEdges
<1>2. PutOffIsNotForgotten'
  BY DEF LinkInv, PutOffIsNotForgotten
<1> QED BY <1>1, <1>2 DEF LinkInv

LEMMA LinkStep ==
    ASSUME LinkInv, LinkNext
    PROVE  LinkInv'
<1> USE DEF LinkInv
<1>1. CASE StartApply
  BY <1>1, KeepsRows DEF StartApply, RowsAreNamed
<1>2. CASE WriteClaimed
  BY <1>2, KeepsRows DEF WriteClaimed, WriteEdges, RowsAreNamed
<1>3. CASE Scan
  <2>1. /\ batch' = {EdgeOfRow(p) : p \in Resolvable} /\ resolved' = Resolvable
        /\ resolver' \in {"idle", "write"}
        /\ UNCHANGED <<edges, pending, accepted>>
    BY <1>3 DEF Scan
  <2>2. ASSUME NEW p \in Resolvable
        PROVE  Asked(EdgeOfRow(p), p)
    <3>1. PICK n : n \in TargetNodes(pending[p])
      <4>1. Cardinality(TargetNodes(pending[p])) = 1
        BY DEF Resolvable
      <4>2. TargetNodes(pending[p]) # {}
        BY <4>1, FS_EmptySet
      <4> QED BY <4>2
    <3>2. (CHOOSE m \in TargetNodes(pending[p]) : TRUE) \in TargetNodes(pending[p])
      BY <3>1
    <3>3. \A m \in TargetNodes(pending[p]) : m.name = p.name
      BY DEF TargetNodes, OfKindTitle, Resolvable, RowsAreNamed
    <3> QED BY <3>2, <3>3 DEF Asked, EdgeOfRow, Edge
  <2>3. RowsAreNamed' /\ PutOffIsNotForgotten'
    BY <2>1 DEF RowsAreNamed, PutOffIsNotForgotten
  <2>4. FoundHaveEdges'
    BY <2>1, <2>2 DEF FoundHaveEdges
  <2> QED BY <2>3, <2>4
<1>4. CASE WriteFound
  <2>1. /\ resolver = "write" /\ resolver' = "delete"
        /\ edges' = edges \cup batch
        /\ UNCHANGED <<pending, resolved, accepted>>
    BY <1>4 DEF WriteFound, WriteEdges
  <2>2. RowsAreNamed' /\ PutOffIsNotForgotten' /\ FoundHaveEdges'
    BY <2>1 DEF RowsAreNamed, PutOffIsNotForgotten, FoundHaveEdges
  <2> QED BY <2>2
<1>5. CASE DeleteRow
  <2>1. CASE resolved = {}
    <3>1. resolver' = "scan" /\ UNCHANGED <<pending, edges, accepted>>
      BY <1>5, <2>1 DEF DeleteRow
    <3> QED BY <3>1, KeepsRows DEF RowsAreNamed
  <2>2. CASE resolved # {}
    <3>1. PICK p \in resolved :
            /\ pending' = Restrict(pending, DOMAIN pending \ {p})
            /\ resolved' = resolved \ {p}
            /\ resolver = "delete"
            /\ UNCHANGED <<resolver, edges, accepted>>
      BY <1>5, <2>2 DEF DeleteRow
    <3>2. /\ DOMAIN pending' = DOMAIN pending \ {p}
          /\ \A q \in DOMAIN pending' : pending'[q] = pending[q]
      BY <3>1 DEF Restrict
    <3>3. \E e \in edges : Asked(e, p)
      BY <3>1 DEF FoundHaveEdges
    <3>4. RowsAreNamed' /\ FoundHaveEdges'
      BY <3>1, <3>2 DEF RowsAreNamed, FoundHaveEdges
    <3>5. PutOffIsNotForgotten'
      BY <3>1, <3>2, <3>3 DEF PutOffIsNotForgotten, Asked
    <3> QED BY <3>4, <3>5
  <2> QED BY <2>1, <2>2
<1>6. CASE ResolverDies
  BY <1>6, KeepsRows DEF ResolverDies, RowsAreNamed
<1>7. ASSUME NEW c \in LinkClaim, TakeClaim(c)
      PROVE  LinkInv'
  <2>1. /\ InsertPending(c, Outcome(c).row)
        /\ resolver = "claims"
        /\ UNCHANGED <<resolver, edges>>
    BY <1>7 DEF TakeClaim
  <2> QED BY <2>1, RowIsNamed, KeepsRows
<1>8. ASSUME NEW c \in LinkClaim, ClaimAtOnce(c)
      PROVE  LinkInv'
  <2>1. /\ InsertPending(c, Outcome(c).row)
        /\ edges \subseteq edges'
        /\ UNCHANGED <<resolver, batch, resolved>>
    BY <1>8 DEF ClaimAtOnce
  <2> QED BY <2>1, RowIsNamed, KeepsRows
<1>9. ASSUME NEW f \in Files, RemapFile(f) \/ DropSymbols(f)
      PROVE  LinkInv'
  <2>1. UNCHANGED <<edges, pending, accepted, batch, resolved>> /\ resolver' \in {resolver, "scan"}
    BY <1>9 DEF RemapFile, DropSymbols
  <2> QED BY <2>1, KeepsRows DEF RowsAreNamed
<1>10. ASSUME NEW n \in Symbols, PutSymbol(n)
       PROVE  LinkInv'
  BY <1>10, KeepsRows DEF PutSymbol, RowsAreNamed
<1> QED BY <1>1, <1>2, <1>3, <1>4, <1>5, <1>6, <1>7, <1>8, <1>9, <1>10 DEF LinkNext

(* A claim that was put off keeps its row until its edge is in the graph,   *)
(* however many files, names and claims there are, wherever the worker that *)
(* resolves them dies and whatever the indexer does meanwhile.              *)
THEOREM PutOffStays == LinkSpec => []PutOffIsNotForgotten
<1>1. LinkInit => LinkInv
  BY DEF LinkInit, LinkInv, RowsAreNamed, FoundHaveEdges, PutOffIsNotForgotten
<1>2. LinkInv /\ [LinkNext]_linkVars => LinkInv'
  <2> SUFFICES ASSUME LinkInv, UNCHANGED linkVars PROVE LinkInv'
    BY LinkStep
  <2> QED BY DEF linkVars, LinkInv, RowsAreNamed, FoundHaveEdges, PutOffIsNotForgotten
<1>3. LinkInv => PutOffIsNotForgotten
  BY DEF LinkInv
<1> QED BY <1>1, <1>2, <1>3, PTL DEF LinkSpec

-----------------------------------------------------------------------------

(***************************************************************************)
(* What the session loop notes by itself, for any caps and number of       *)
(* turns.                                                                  *)
(***************************************************************************)

(* A turn without a request is either for a fact that was noted in it or    *)
(* for the second search, of which there is one.                            *)
Idle == Cardinality(noted \cap Insistent) + (IF looked /\ step # "fallback" THEN 1 ELSE 0)

AutoInv ==
    /\ noted \subseteq FactSet /\ attempted \subseteq noted /\ ~again
    /\ looked \in BOOLEAN /\ capSearch \in CapsSearch
    /\ turnNo \in Nat /\ requests \in Nat /\ writes \in Nat /\ searches \in Nat /\ fetches \in Nat
    /\ writes <= CapWrite /\ searches <= capSearch /\ fetches <= CapFetch
    /\ ~looked => searches = 0 /\ step # "fallback"
    /\ turnNo <= requests + Idle

LEMMA FactsAreFinite ==
    ASSUME NEW S
    PROVE  /\ IsFiniteSet(Insistent) /\ Cardinality(Insistent) = 3
           /\ Cardinality(S \cap Insistent) \in Nat
           /\ Cardinality(S \cap Insistent) <= 3
           /\ \A k \in Insistent \ S :
                 Cardinality((S \cup {k}) \cap Insistent) = Cardinality(S \cap Insistent) + 1
<1>1. IsFiniteSet({}) /\ Cardinality({}) = 0
  BY FS_EmptySet
<1>2. IsFiniteSet({"repo"}) /\ Cardinality({"repo"}) = 1
  BY FS_Singleton
<1>3. IsFiniteSet({"repo"} \cup {"tree"}) /\ Cardinality({"repo"} \cup {"tree"}) = 2
  BY <1>2, FS_AddElement
<1>4. /\ IsFiniteSet({"repo"} \cup {"tree"} \cup {"signals"})
      /\ Cardinality({"repo"} \cup {"tree"} \cup {"signals"}) = 3
  BY <1>3, FS_AddElement
<1>5. Insistent = {"repo"} \cup {"tree"} \cup {"signals"}
  BY DEF Insistent
<1>6. IsFiniteSet(Insistent) /\ Cardinality(Insistent) = 3
  BY <1>4, <1>5
<1>7. /\ IsFiniteSet(S \cap Insistent) /\ Cardinality(S \cap Insistent) \in Nat
      /\ Cardinality(S \cap Insistent) <= 3
  BY <1>6, FS_Subset, FS_CardinalityType
<1>8. ASSUME NEW k \in Insistent \ S
      PROVE  Cardinality((S \cup {k}) \cap Insistent) = Cardinality(S \cap Insistent) + 1
  <2>1. (S \cup {k}) \cap Insistent = (S \cap Insistent) \cup {k}
    OBVIOUS
  <2>2. Cardinality((S \cap Insistent) \cup {k}) = Cardinality(S \cap Insistent) + 1
    BY <1>7, FS_AddElement
  <2> QED BY <2>1, <2>2
<1> QED BY <1>6, <1>7, <1>8

LEMMA CapsAreNumbers ==
    /\ CapWrite \in Nat \ {0} /\ CapFetch \in Nat \ {0} /\ MaxTurns \in Nat \ {0}
    /\ \A c \in CapsSearch : c \in Nat \ {0}
BY AutoAssumption

LEMMA AfterIsPlain ==
    ASSUME NEW k \in FactSet
    PROVE  After(k) # "fallback"
<1> DEFINE plain == {"repo", "intent", "tree", "signals", "entrypoints", "commands"}
           i == CHOOSE j \in DOMAIN FactKinds : FactKinds[j] = k
<1>1. FactKinds \in Seq(plain) /\ Len(FactKinds) = 6 /\ DOMAIN FactKinds = 1..6
  BY DEF FactKinds
<1>2. i \in DOMAIN FactKinds
  BY DEF FactSet
<1>3. After(k) = IF i = Len(FactKinds) THEN "search" ELSE FactKinds[i + 1]
  BY DEF After
<1> HIDE DEF i
<1>4. i # Len(FactKinds) => FactKinds[i + 1] \in plain
  <2>1. ASSUME NEW S, NEW q \in Seq(S), NEW j \in DOMAIN q, j # Len(q)
        PROVE  q[j + 1] \in S
    BY <2>1
  <2> QED BY <1>1, <1>2, <2>1
<1> QED BY <1>3, <1>4

LEMMA AutoStep == AutoInv /\ [AutoNext]_autoVars => AutoInv'
<1> SUFFICES ASSUME AutoInv, [AutoNext]_autoVars PROVE AutoInv'
  OBVIOUS
<1> USE CapsAreNumbers DEF AutoInv, settings, counters
<1>1. Cardinality(noted \cap Insistent) \in Nat
  BY FactsAreFinite
<1>2. CASE UNCHANGED autoVars
  BY <1>2 DEF autoVars, Idle
<1>3. CASE StartAutoRun
  <2>1. /\ noted' = {} /\ attempted' = {} /\ ~again' /\ looked' = FALSE /\ step' = "repo"
        /\ turnNo' = 0 /\ requests' = 0 /\ writes' = 0 /\ searches' = 0 /\ fetches' = 0
        /\ capSearch' \in CapsSearch
    BY <1>3 DEF StartAutoRun
  <2>2. Idle' \in Nat
    <3>1. Cardinality(noted' \cap Insistent) \in Nat
      BY FactsAreFinite
    <3> QED BY <2>1, <3>1 DEF Idle
  <2>3. capSearch' \in Nat
    BY <2>1
  <2>4. turnNo' <= requests' + Idle'
    <3>1. \A i \in Nat : 0 <= 0 + i
      OBVIOUS
    <3>2. 0 <= 0 + Idle'
      BY ONLY <2>2, <3>1
    <3> QED BY ONLY <2>1, <3>2
  <2>5. /\ noted' \subseteq FactSet /\ attempted' \subseteq noted' /\ ~again'
        /\ looked' \in BOOLEAN /\ capSearch' \in CapsSearch
    BY <2>1
  <2>6. /\ turnNo' \in Nat /\ requests' \in Nat /\ writes' \in Nat /\ searches' \in Nat /\ fetches' \in Nat
        /\ writes' <= CapWrite /\ searches' <= capSearch' /\ fetches' <= CapFetch
    <3>1. 0 <= CapWrite /\ 0 <= capSearch' /\ 0 <= CapFetch
      BY <2>3, CapsAreNumbers
    <3> QED BY <3>1, <2>1
  <2>7. ~looked' => searches' = 0 /\ step' # "fallback"
    BY <2>1
  <2> QED BY <2>4, <2>5, <2>6, <2>7
<1>4. CASE StopAutoRun
  BY <1>1, <1>4 DEF StopAutoRun, Idle
<1>5. ASSUME NEW k \in FactSet, Fact(k)
      PROVE  AutoInv'
  <2>1. After(k) # "fallback" /\ k # "fallback" /\ step = k
    BY <1>5, AfterIsPlain DEF FactSet, FactKinds, Fact
  <2>2. UNCHANGED <<looked, searches, fetches, capSearch, requests>>
    BY <1>5 DEF Fact
  <2>3. CASE PassFact(k)
    BY <1>1, <2>1, <2>2, <2>3 DEF PassFact, NextStep, Idle
  <2>4. k \notin noted =>
          /\ Cardinality((noted \cup {k}) \cap Insistent) \in Nat
          /\ Cardinality((noted \cup {k}) \cap Insistent) >= Cardinality(noted \cap Insistent)
          /\ k \in Insistent =>
                Cardinality((noted \cup {k}) \cap Insistent) = Cardinality(noted \cap Insistent) + 1
    <3>1. CASE k \in Insistent
      BY <1>1, <3>1, FactsAreFinite
    <3>2. CASE k \notin Insistent
      <4>1. (noted \cup {k}) \cap Insistent = noted \cap Insistent
        BY <3>2
      <4> QED BY <1>1, <3>2, <4>1
    <3> QED BY <3>1, <3>2
  <2>5. CASE k \notin noted /\ LimitFact(k)
    BY <1>1, <2>1, <2>2, <2>4, <2>5 DEF LimitFact, NextTurn, NextStep, Idle
  <2>6. CASE k \notin noted /\ AskFact(k)
    BY <1>1, <2>1, <2>2, <2>4, <2>6 DEF AskFact, NextStep, Idle
  <2>7. CASE k \notin noted /\ WriteFact(k)
    <3>1. /\ noted' = noted \cup {k} /\ attempted' = attempted \cup {k} /\ ~again'
          /\ writes' = writes + 1 /\ writes < CapWrite /\ step' = After(k) /\ turnNo' = turnNo
      BY <2>7 DEF WriteFact, NextStep
    <3>2. Idle' >= Idle /\ Idle' \in Nat
      BY <1>1, <2>1, <2>2, <2>4, <2>7, <3>1 DEF Idle
    <3>3. turnNo' <= requests' + Idle'
      BY <1>1, <2>2, <3>1, <3>2 DEF Idle
    <3> QED BY <2>1, <2>2, <3>1, <3>3
  <2> QED BY <1>5, <2>3, <2>5, <2>6, <2>7 DEF Fact
<1>6. CASE SkipSearch
  BY <1>1, <1>6 DEF SkipSearch, Idle
<1>7. CASE AutoKbSearch
  BY <1>1, <1>7 DEF AutoKbSearch, FetchTop, Idle
<1>8. CASE LimitFallback
  BY <1>1, <1>8 DEF LimitFallback, NextTurn, Idle
<1>9. CASE AutoFallback
  BY <1>1, <1>9 DEF AutoFallback, FetchTop, Idle
<1>10. CASE AskForTools
  BY <1>1, <1>10 DEF AskForTools, NextTurn, Idle
<1>11. CASE AskForText
  BY <1>1, <1>11 DEF AskForText, Idle
<1>12. CASE RepoFact \/ IntentFact \/ TreeFact \/ SignalsFact \/ EntrypointsFact \/ CommandsFact
  <2>1. {"repo", "intent", "tree", "signals", "entrypoints", "commands"} \subseteq FactSet
    <3>1. DOMAIN FactKinds = 1..6
      BY DEF FactKinds
    <3>2. /\ FactKinds[1] = "repo" /\ FactKinds[2] = "intent" /\ FactKinds[3] = "tree"
          /\ FactKinds[4] = "signals" /\ FactKinds[5] = "entrypoints" /\ FactKinds[6] = "commands"
      BY DEF FactKinds
    <3> QED BY <3>1, <3>2 DEF FactSet
  <2> QED BY <1>5, <1>12, <2>1 DEF RepoFact, IntentFact, TreeFact, SignalsFact, EntrypointsFact, CommandsFact
<1> QED BY <1>2, <1>3, <1>4, <1>6, <1>7, <1>8, <1>9, <1>10, <1>11, <1>12 DEF AutoNext

(* What the loop notes by itself stays small: whatever the caps and however *)
(* many turns a run may have, the calls stay within the caps, no fact is    *)
(* tried twice, and all but four turns have a request to the model.         *)
THEOREM NotingStaysSmall == AutoSpec => []BookkeepingIsBounded
<1>1. AutoInit => AutoInv
  <2> SUFFICES ASSUME AutoInit PROVE AutoInv
    OBVIOUS
  <2>1. Idle \in Nat
    <3>1. Cardinality(noted \cap Insistent) \in Nat
      BY FactsAreFinite
    <3> QED BY <3>1 DEF Idle
  <2>2. capSearch \in Nat
    BY CapsAreNumbers DEF AutoInit
  <2>3. turnNo <= requests + Idle
    <3>1. \A i \in Nat : 0 <= 0 + i
      OBVIOUS
    <3>2. 0 <= 0 + Idle
      BY ONLY <2>1, <3>1
    <3>3. turnNo = 0 /\ requests = 0
      BY DEF AutoInit
    <3> QED BY ONLY <3>2, <3>3
  <2>5. /\ noted \subseteq FactSet /\ attempted \subseteq noted /\ ~again
        /\ looked \in BOOLEAN /\ capSearch \in CapsSearch
    BY DEF AutoInit, counters
  <2>6. /\ turnNo \in Nat /\ requests \in Nat /\ writes \in Nat /\ searches \in Nat /\ fetches \in Nat
        /\ writes <= CapWrite /\ searches <= capSearch /\ fetches <= CapFetch
    <3>1. 0 <= CapWrite /\ 0 <= capSearch /\ 0 <= CapFetch
      BY <2>2, CapsAreNumbers
    <3> QED BY <3>1 DEF AutoInit, counters
  <2>7. ~looked => searches = 0 /\ step # "fallback"
    BY DEF AutoInit, counters
  <2> QED BY <2>3, <2>5, <2>6, <2>7 DEF AutoInv
<1>2. AutoInv => BookkeepingIsBounded
  BY FactsAreFinite DEF AutoInv, Idle, BookkeepingIsBounded
<1> QED BY <1>1, <1>2, AutoStep, PTL DEF AutoSpec

-----------------------------------------------------------------------------

(***************************************************************************)
(* The least of a set of numbers: the first line that is found, the first  *)
(* file that is left.                                                      *)
(***************************************************************************)

LEMMA LeastOfNumbers ==
    ASSUME NEW T \in SUBSET Nat, T # {}
    PROVE  \E x \in T : \A y \in T : x <= y
<1>1. \E x \in T : \A y \in T : ~ (<<y, x>> \in OpToRel(<, Nat))
  BY NatLessThanWellFounded, WFMin
<1>2. ASSUME NEW x \in T, NEW y \in T, ~ (<<y, x>> \in OpToRel(<, Nat))
      PROVE  x <= y
  <2>1. ~ (y < x)
    BY <1>2 DEF OpToRel
  <2> QED BY <2>1
<1> QED BY <1>1, <1>2

LEMMA MinOfNumbers ==
    ASSUME NEW T \in SUBSET Nat, T # {}
    PROVE  /\ Min(T) \in T
           /\ \A y \in T : Min(T) <= y
<1>1. \E x \in T : \A y \in T : x <= y
  BY LeastOfNumbers
<1> QED BY <1>1 DEF Min

-----------------------------------------------------------------------------

(***************************************************************************)
(* A section that is found again, in files of any length.                  *)
(***************************************************************************)

LEMMA MinOfTwo ==
    ASSUME NEW a \in Int, NEW b \in Int
    PROVE  /\ Min({a, b}) \in {a, b} /\ Min({a, b}) <= a /\ Min({a, b}) <= b
<1>1. \E x \in {a, b} : \A y \in {a, b} : x <= y
  <2>1. CASE a <= b
    BY <2>1
  <2>2. CASE ~ (a <= b)
    BY <2>2
  <2> QED BY <2>1, <2>2
<1> QED BY <1>1 DEF Min

LEMMA MaxOfTwo ==
    ASSUME NEW a \in Int, NEW b \in Int
    PROVE  /\ Max({a, b}) \in {a, b} /\ Max({a, b}) >= a /\ Max({a, b}) >= b
<1>1. \E x \in {a, b} : \A y \in {a, b} : x >= y
  <2>1. CASE a >= b
    BY <2>1
  <2>2. CASE ~ (a >= b)
    BY <2>2
  <2> QED BY <2>1, <2>2
<1> QED BY <1>1 DEF Max

LEMMA OneOfOne ==
    ASSUME NEW S, IsFiniteSet(S), Cardinality(S) <= 1, NEW a \in S, NEW b \in S
    PROVE  a = b
<1> SUFFICES ASSUME a # b PROVE FALSE
  OBVIOUS
<1>1. IsFiniteSet({a}) /\ Cardinality({a}) = 1
  BY FS_Singleton
<1>2. Cardinality({a} \cup {b}) = 2
  BY <1>1, FS_AddElement, SMTT(30)
<1>3. Cardinality({a} \cup {b}) <= Cardinality(S) /\ Cardinality(S) \in Nat
  BY FS_Subset, FS_CardinalityType
<1> QED BY <1>2, <1>3

(* The line that defines the section looks like a definition of its kind,   *)
(* or is the heading or the tag.                                            *)
HomeDefines ==
    home # 0 =>
        /\ suffix \in {"py", "ts"} => lines[home] \in Structural
        /\ suffix = "py" => nodeKind \in {"function", "class"}
        /\ suffix = "md" => lines[home] = "heading"
        /\ suffix = "xml" => lines[home] = "tag"

RemapShape ==
    /\ suffix \in {"py", "ts", "md", "xml"}
    /\ lines \in Seq(AllForms)
    /\ hint \in [start : Nat, end : Nat]
    /\ home \in 0 .. Len(lines)

RemapInv == RemapShape /\ HomeDefines /\ FoundIsTheSame

LEMMA FirstIsThere ==
    ASSUME RemapShape, NEW forms
    PROVE  /\ First(forms) \in Nat
           /\ First(forms) # 0 => First(forms) \in DOMAIN lines /\ lines[First(forms)] \in forms
           /\ \A i \in DOMAIN lines : lines[i] \in forms => First(forms) # 0 /\ First(forms) <= i
<1> DEFINE S == {i \in DOMAIN lines : lines[i] \in forms}
<1>1. S \in SUBSET Nat /\ 0 \notin S
  BY DEF RemapShape
<1>2. S # {} => Min(S) \in S /\ \A y \in S : Min(S) <= y
  BY <1>1, MinOfNumbers
<1>3. First(forms) = IF S = {} THEN 0 ELSE Min(S)
  BY DEF First, Least
<1> HIDE DEF S
<1>4. CASE S = {}
  <2>1. First(forms) = 0
    BY <1>3, <1>4
  <2> QED BY <1>4, <2>1 DEF S
<1>5. CASE S # {}
  <2>1. First(forms) \in S /\ \A y \in S : First(forms) <= y
    BY <1>2, <1>3, <1>5
  <2>2. First(forms) \in Nat /\ First(forms) # 0
    BY <1>1, <2>1
  <2> QED BY <2>1, <2>2 DEF S
<1> QED BY <1>4, <1>5 DEF S

LEMMA HitsAreFinite ==
    ASSUME RemapShape
    PROVE  /\ IsFiniteSet(AllHits) /\ AllHits \in SUBSET Nat
           /\ AllHits = {i \in DOMAIN lines : lines[i] \in Structural}
<1>1. DOMAIN lines = 1 .. Len(lines) /\ Len(lines) \in Nat
  BY DEF RemapShape
<1>2. AllHits = {i \in 1 .. Len(lines) : lines[i] \in Structural}
  BY DEF AllHits, HitsIn
<1>3. IsFiniteSet(1 .. Len(lines))
  BY <1>1, FS_Interval
<1>4. AllHits \subseteq 1 .. Len(lines)
  BY <1>2
<1> QED BY <1>1, <1>2, <1>3, <1>4, FS_Subset

LEMMA AroundIsInside ==
    ASSUME RemapShape, lines # <<>>, NEW m \in Nat
    PROVE  Around(m).lo \in 1 .. Len(lines) /\ Around(m).hi \in Int /\ Around(m).hi <= Len(lines)
<1> DEFINE h == hint.start - m
           a == Max({1, h})
           b == hint.end + m
<1>1. Len(lines) \in Nat \ {0} /\ hint.start \in Nat /\ hint.end \in Nat
  BY DEF RemapShape
<1>2. a \in Int /\ a >= 1
  <2>1. h \in Int /\ 1 \in Int
    BY <1>1
  <2> HIDE DEF h
  <2>2. a \in {1, h} /\ a >= 1
    BY ONLY <2>1, MaxOfTwo
  <2> QED BY <2>1, <2>2
<1>3. b \in Int
  BY <1>1
<1>4. Around(m).lo = Min({Len(lines), a}) /\ Around(m).hi = Min({Len(lines), b})
  BY DEF Around
<1> HIDE DEF a, b
<1> DEFINE n == Len(lines)
<1>0. n \in Int
  BY <1>1
<1> HIDE DEF n
<1>5. Min({n, a}) \in {n, a} /\ Min({n, a}) <= n
  BY ONLY <1>0, <1>2, MinOfTwo
<1>6. Min({n, b}) \in {n, b} /\ Min({n, b}) <= n
  BY ONLY <1>0, <1>3, MinOfTwo
<1> USE DEF n
<1> QED BY <1>1, <1>2, <1>3, <1>4, <1>5, <1>6

LEMMA WindowsAreInside ==
    ASSUME RemapShape, lines # <<>>
    PROVE  /\ DOMAIN Windows \in SUBSET Nat
           /\ \A w \in DOMAIN Windows : HitsIn(Windows[w]) \subseteq AllHits
<1> DEFINE W == [lo : Int, hi : Int]
           Inside == {v \in W : v.lo >= 1 /\ v.hi <= Len(lines)}
           mid == [m \in DOMAIN Margins |-> Around(Margins[m])]
           last == IF Len(lines) <= WholeMax THEN <<[lo |-> 1, hi |-> Len(lines)]>> ELSE <<>>
<1>1. \A m \in Nat : Around(m) \in Inside
  <2>1. ASSUME NEW m \in Nat PROVE Around(m) \in Inside
    <3>1. Around(m) = [lo |-> Around(m).lo, hi |-> Around(m).hi]
      BY DEF Around
    <3>2. Around(m).lo \in Int /\ Around(m).lo >= 1 /\ Around(m).hi \in Int /\ Around(m).hi <= Len(lines)
      BY AroundIsInside DEF RemapShape
    <3> QED BY <3>1, <3>2
  <2> QED BY <2>1
<1>2. Len(lines) \in Int
  BY DEF RemapShape
<1>3. [lo |-> 1, hi |-> Len(lines)] \in Inside
  BY <1>2
<1> HIDE DEF Inside
<1>4. <<Around(0)>> \in Seq(Inside)
  BY <1>1
<1>5. mid \in Seq(Inside)
  <2>1. Margins \in Seq(Nat)
    BY RemapAssumption
  <2>2. \A m \in DOMAIN Margins : Margins[m] \in Nat
    BY <2>1
  <2>3. mid \in [1 .. Len(Margins) -> Inside] /\ Len(Margins) \in Nat
    BY <1>1, <2>1, <2>2
  <2> QED BY <2>3
<1>6. last \in Seq(Inside)
  BY <1>3
<1>7. Windows = <<Around(0)>> \o mid \o last
  BY DEF Windows
<1> HIDE DEF mid, last
<1>8. Windows \in Seq(Inside)
  BY <1>4, <1>5, <1>6, <1>7
<1>9. DOMAIN Windows \in SUBSET Nat /\ \A w \in DOMAIN Windows : Windows[w] \in Inside
  BY <1>8
<1>10. \A v \in Inside : HitsIn(v) \subseteq AllHits
  BY <1>2 DEF Inside, HitsIn, AllHits
<1> QED BY <1>9, <1>10

LEMMA NearestAreHits ==
    ASSUME RemapShape
    PROVE  Nearest \subseteq AllHits
<1> DEFINE seeing == {w \in DOMAIN Windows : HitsIn(Windows[w]) # {}}
<1>1. Nearest = IF hint = NoHint \/ lines = <<>> \/ seeing = {} THEN {} ELSE HitsIn(Windows[Min(seeing)])
  BY DEF Nearest
<1>2. CASE hint = NoHint \/ lines = <<>> \/ seeing = {}
  BY <1>1, <1>2
<1>3. CASE lines # <<>> /\ seeing # {} /\ hint # NoHint
  <2>1. seeing \in SUBSET Nat
    BY <1>3, WindowsAreInside
  <2>2. Min(seeing) \in seeing
    BY <1>3, <2>1, MinOfNumbers
  <2> QED BY <1>1, <1>3, <2>2, WindowsAreInside
<1> QED BY <1>2, <1>3

LEMMA SearchesFindLines ==
    ASSUME RemapShape, NEW parses \in BOOLEAN
    PROVE  /\ InTree(parses) \in {0} \cup DOMAIN lines
           /\ Signature \in {0} \cup DOMAIN lines
           /\ Named(parses) \in {0} \cup DOMAIN lines
           /\ Nearest # {} => Min(Nearest) \in DOMAIN lines
<1>1. \A forms : First(forms) \in {0} \cup DOMAIN lines
  BY FirstIsThere
<1>2. InTree(parses) \in {0} \cup DOMAIN lines
  BY <1>1 DEF InTree
<1>3. Signature \in {0} \cup DOMAIN lines
  <2> DEFINE matching == {p \in DOMAIN Patterns : First(Patterns[p]) # 0}
  <2>1. Signature = IF matching = {} THEN 0 ELSE First(Patterns[Min(matching)])
    BY DEF Signature
  <2> HIDE DEF matching
  <2> QED BY <1>1, <2>1
<1>4. Named(parses) \in {0} \cup DOMAIN lines
  BY <1>1, <1>2 DEF Named, FirstHeading
<1>5. Nearest # {} => Min(Nearest) \in DOMAIN lines
  <2>1. Nearest \subseteq AllHits /\ Nearest \in SUBSET Nat
    BY NearestAreHits, HitsAreFinite
  <2>2. Nearest # {} => Min(Nearest) \in Nearest
    BY <2>1, MinOfNumbers
  <2> QED BY <2>1, <2>2, HitsAreFinite
<1> QED BY <1>2, <1>3, <1>4, <1>5

LEMMA SpanIsALine ==
    ASSUME RemapShape, NEW parses \in BOOLEAN, Span(parses).sure
    PROVE  Span(parses).at \in DOMAIN lines
<1>1. ~ Unsure.sure
  BY DEF Unsure
<1>2. \A by, i : At(by, i).at = i
  BY DEF At
<1>3. ~TagIsRepeated
  BY <1>1 DEF Span
<1>4. CASE Named(parses) # 0
  BY <1>2, <1>3, <1>4, SearchesFindLines DEF Span
<1>5. CASE Named(parses) = 0
  <2>1. ~ (Cardinality(Nearest) > 1 \/ Cardinality(AllHits) > 1)
    BY <1>1, <1>3, <1>5 DEF Span
  <2>2. CASE Nearest # {}
    <3>1. Span(parses) = InWindow(parses)
      BY <1>3, <1>5, <2>1, <2>2 DEF Span
    <3> QED BY <1>2, <2>2, <3>1, SearchesFindLines DEF InWindow
  <2>3. CASE Nearest = {}
    <3>1. Span(parses) = At("signature", Signature) /\ Signature # 0
      BY <1>1, <1>3, <1>5, <2>1, <2>3 DEF Span
    <3> QED BY <1>2, <3>1, SearchesFindLines
  <2> QED BY <2>2, <2>3
<1> QED BY <1>4, <1>5

(* What a look at the file says is sure is the section.                     *)
Finds(span) ==
    span.sure =>
        \/ span.at = home
        \/ suffix = "md" /\ \E i \in 1 .. home - 1 : lines[i] = "heading"
        \/ span.by = "signature" /\ lines[span.at] \notin Structural

LEMMA SpanFinds ==
    ASSUME RemapShape, HomeDefines, home # 0, NEW parses \in BOOLEAN
    PROVE  Finds(Span(parses))
<1>0. home \in DOMAIN lines /\ Len(lines) \in Nat /\ DOMAIN lines = 1 .. Len(lines)
  BY DEF RemapShape
<1>1. ~ Unsure.sure
  BY DEF Unsure
<1>2. \A by, i : At(by, i).sure /\ At(by, i).at = i /\ At(by, i).by = by
  BY DEF At
<1>3. SUFFICES ASSUME Span(parses).sure
               PROVE  \/ Span(parses).at = home
                      \/ suffix = "md" /\ \E i \in 1 .. home - 1 : lines[i] = "heading"
                      \/ Span(parses).by = "signature" /\ lines[Span(parses).at] \notin Structural
  BY DEF Finds
<1>4. ~TagIsRepeated
  BY <1>1, <1>3 DEF Span
<1>5. suffix \in {"py", "ts"} => home \in AllHits
  BY <1>0, HitsAreFinite DEF HomeDefines
<1>6. suffix = "py" => InTree(parses) = 0 \/ InTree(parses) \in AllHits
  <2>1. CASE suffix = "py" /\ parses /\ nodeKind = "class"
    <3>1. InTree(parses) = First({"class"})
      BY <2>1 DEF InTree
    <3>2. {"class"} \subseteq Structural
      BY <2>1 DEF Structural
    <3> QED BY <3>1, <3>2, FirstIsThere, HitsAreFinite
  <2>2. CASE suffix = "py" /\ parses /\ nodeKind # "class"
    <3>1. InTree(parses) = First({"def", "async"})
      BY <2>2 DEF InTree
    <3>2. {"def", "async"} \subseteq Structural
      BY <2>2 DEF Structural
    <3> QED BY <3>1, <3>2, FirstIsThere, HitsAreFinite
  <2>3. CASE suffix = "py" /\ ~parses
    BY <2>3 DEF InTree
  <2> QED BY <2>1, <2>2, <2>3
<1>7. Signature = 0 \/ Signature \in DOMAIN lines
  <2> DEFINE matching == {p \in DOMAIN Patterns : First(Patterns[p]) # 0}
  <2>1. Signature = IF matching = {} THEN 0 ELSE First(Patterns[Min(matching)])
    BY DEF Signature
  <2> HIDE DEF matching
  <2>2. CASE matching = {}
    BY <2>1, <2>2
  <2>3. CASE matching # {}
    BY <2>1, <2>3, FirstIsThere
  <2> QED BY <2>2, <2>3
<1>8. suffix \in {"py", "ts"} /\ Cardinality(AllHits) <= 1 => \A i \in AllHits : i = home
  BY <1>5, HitsAreFinite, OneOfOne
<1>9. CASE Named(parses) # 0
  <2>1. Span(parses).at = Named(parses)
    BY <1>2, <1>4, <1>9 DEF Span
  <2>2. CASE suffix = "py"
    <3>1. Named(parses) = InTree(parses) /\ Cardinality(AllHits) <= 1
      BY <1>9, <2>2 DEF Named
    <3> QED BY <1>0, <1>6, <1>8, <1>9, <2>1, <2>2, <3>1
  <2>3. CASE suffix = "md"
    <3>1. Named(parses) = First({"heading"})
      BY <2>3 DEF Named, FirstHeading
    <3>2. /\ Named(parses) \in DOMAIN lines /\ lines[Named(parses)] = "heading"
          /\ Named(parses) <= home
      BY <1>0, <1>9, <2>3, <3>1, FirstIsThere DEF HomeDefines
    <3>3. Named(parses) # home => Named(parses) \in 1 .. home - 1
      BY <1>0, <3>2
    <3> QED BY <1>0, <2>1, <2>3, <3>2, <3>3
  <2>4. CASE suffix = "xml"
    <3> DEFINE tags == {i \in DOMAIN lines : lines[i] = "tag"}
    <3>1. Named(parses) = First({"tag"})
      BY <2>4 DEF Named
    <3>2. Named(parses) \in tags
      BY <1>9, <3>1, FirstIsThere
    <3>3. home \in tags
      BY <1>0, <2>4 DEF HomeDefines
    <3>4. IsFiniteSet(tags)
      <4>1. IsFiniteSet(1 .. Len(lines))
        BY <1>0, FS_Interval
      <4>2. tags \subseteq 1 .. Len(lines)
        BY <1>0
      <4> QED BY <4>1, <4>2, FS_Subset
    <3>5. Cardinality(tags) <= 1
      <4>1. ~ (Cardinality(tags) > 1)
        BY <1>4, <2>4 DEF TagIsRepeated
      <4>2. Cardinality(tags) \in Nat
        BY <3>4, FS_CardinalityType
      <4> HIDE DEF tags
      <4> QED BY <4>1, <4>2
    <3> HIDE DEF tags
    <3>6. Named(parses) = home
      BY <3>2, <3>3, <3>4, <3>5, OneOfOne
    <3> QED BY <1>0, <2>1, <3>6
  <2>5. CASE suffix = "ts"
    BY <1>9, <2>5 DEF Named
  <2> QED BY <2>2, <2>3, <2>4, <2>5 DEF RemapShape
<1>10. CASE Named(parses) = 0
  <2>1. suffix # "md"
    <3>1. suffix = "md" => Named(parses) = First({"heading"})
      BY DEF Named, FirstHeading
    <3> QED BY <1>0, <1>10, <3>1, FirstIsThere DEF HomeDefines
  <2>2. suffix # "xml"
    <3>1. suffix = "xml" => Named(parses) = First({"tag"})
      BY DEF Named
    <3> QED BY <1>0, <1>10, <3>1, FirstIsThere DEF HomeDefines
  <2>3. suffix \in {"py", "ts"}
    BY <2>1, <2>2 DEF RemapShape
  <2>4. ~ (Cardinality(AllHits) > 1)
    BY <1>1, <1>3, <1>4, <1>10 DEF Span
  <2>5. Cardinality(AllHits) <= 1
    BY <2>4, HitsAreFinite, FS_CardinalityType
  <2>6. \A i \in AllHits : i = home
    BY <1>8, <2>3, <2>5
  <2>7. Signature # 0 => Signature = home \/ lines[Signature] \notin Structural
    BY <1>7, <2>6, HitsAreFinite
  <2>8. CASE Nearest # {} /\ ~ (Cardinality(Nearest) > 1)
    <3>1. Span(parses) = InWindow(parses)
      BY <1>4, <1>10, <2>4, <2>8 DEF Span
    <3>2. CASE InTree(parses) # 0
      <4>1. Span(parses).at = InTree(parses)
        BY <1>2, <3>1, <3>2 DEF InWindow
      <4>2. suffix = "py"
        BY <3>2 DEF InTree
      <4> QED BY <1>0, <1>6, <2>6, <3>2, <4>1, <4>2
    <3>3. CASE InTree(parses) = 0 /\ suffix = "ts" /\ Signature # 0
      <4>1. Span(parses).at = Signature /\ Span(parses).by = "signature"
        BY <1>2, <3>1, <3>3 DEF InWindow
      <4> QED BY <1>0, <1>7, <2>7, <3>3, <4>1
    <3>4. CASE InTree(parses) = 0 /\ ~ (suffix = "ts" /\ Signature # 0)
      <4>1. Span(parses).at = Min(Nearest)
        BY <1>2, <3>1, <3>4 DEF InWindow
      <4>2. Nearest \subseteq AllHits /\ Nearest \in SUBSET Nat
        BY NearestAreHits, HitsAreFinite
      <4>3. Min(Nearest) \in Nearest
        BY <2>8, <4>2, MinOfNumbers
      <4> QED BY <1>0, <2>6, <4>1, <4>2, <4>3
    <3> QED BY <3>2, <3>3, <3>4
  <2>9. CASE Nearest = {} /\ ~ (Cardinality(Nearest) > 1)
    <3>1. Span(parses) = At("signature", Signature) /\ Signature # 0
      BY <1>1, <1>3, <1>4, <1>10, <2>4, <2>9 DEF Span
    <3>2. Span(parses).at = Signature /\ Span(parses).by = "signature"
      BY <1>2, <3>1
    <3> QED BY <1>0, <1>7, <2>7, <3>1, <3>2
  <2>10. CASE Cardinality(Nearest) > 1
    BY <1>1, <1>3, <1>4, <1>10, <2>10 DEF Span
  <2> QED BY <2>8, <2>9, <2>10
<1> QED BY <1>9, <1>10

-----------------------------------------------------------------------------

LEMMA RemapKeepsInv ==
    ASSUME RemapInv, NEW parses \in BOOLEAN, Remap(parses)
    PROVE  RemapInv'
<1> DEFINE span == Span(parses)
<1>1. /\ UNCHANGED <<suffix, nodeKind, lines, home>> /\ found' = span
      /\ hint' = IF span.sure THEN [start |-> span.at, end |-> EndOf(span)] ELSE hint
  BY DEF Remap
<1>2. Structural' = Structural
  BY <1>1 DEF Structural
<1>3. HomeDefines'
  BY <1>1, <1>2 DEF RemapInv, HomeDefines
<1>4. ASSUME span.sure PROVE span.at \in Nat /\ EndOf(span) \in Nat
  <2>1. Len(lines) \in Nat /\ DOMAIN lines = 1 .. Len(lines)
    BY DEF RemapInv, RemapShape
  <2>2. span.at \in DOMAIN lines
    BY <1>4, SpanIsALine DEF RemapInv
  <2> HIDE DEF span
  <2>3. span.at \in Nat
    BY <2>1, <2>2
  <2>4. Run \in Nat
    BY RemapAssumption
  <2> DEFINE e == span.at + Run
             n == Len(lines)
  <2>5. e \in Int /\ n \in Int /\ e \in Nat /\ n \in Nat
    BY <2>1, <2>3, <2>4
  <2> HIDE DEF e, n
  <2>6. Min({n, e}) \in {n, e}
    BY ONLY <2>5, MinOfTwo
  <2>7. EndOf(span) \in {Min({n, e}), span.at}
    BY DEF EndOf, e, n
  <2> QED BY <2>3, <2>5, <2>6, <2>7
<1>5. RemapShape'
  <2>1. hint' \in [start : Nat, end : Nat]
    <3>1. CASE span.sure
      <4>1. hint' = [start |-> span.at, end |-> EndOf(span)]
        BY <1>1, <3>1
      <4> HIDE DEF span
      <4> QED BY <1>4, <3>1, <4>1
    <3>2. CASE ~span.sure
      BY <1>1, <3>2 DEF RemapInv, RemapShape
    <3> QED BY <3>1, <3>2
  <2> QED BY <1>1, <2>1 DEF RemapInv, RemapShape
<1>6. FoundIsTheSame'
  <2>1. home # 0 => Finds(span)
    BY SpanFinds DEF RemapInv
  <2> HIDE DEF span
  <2> QED BY <1>1, <1>2, <2>1 DEF Finds, FoundIsTheSame
<1> QED BY <1>3, <1>5, <1>6 DEF RemapInv

(* The file after a line was put in, or taken out.                          *)
Inserted(q, j, f) == SubSeq(q, 1, j - 1) \o <<f>> \o SubSeq(q, j, Len(q))
Deleted(q, j)     == SubSeq(q, 1, j - 1) \o SubSeq(q, j + 1, Len(q))

LEMMA InsertedInto ==
    ASSUME NEW S, NEW q \in Seq(S), NEW f \in S, NEW j \in 1 .. Len(q) + 1
    PROVE  /\ Inserted(q, j, f) \in Seq(S) /\ Len(Inserted(q, j, f)) = Len(q) + 1
           /\ \A k \in 1 .. Len(q) : k < j => Inserted(q, j, f)[k] = q[k]
           /\ \A k \in 1 .. Len(q) : j <= k => Inserted(q, j, f)[k + 1] = q[k]
<1> DEFINE r == Inserted(q, j, f)
           a == SubSeq(q, 1, j - 1)
           b == SubSeq(q, j, Len(q))
           c == a \o <<f>>
<1>0. Len(q) \in Nat /\ j \in 1 .. Len(q) + 1 /\ \A k \in 1 .. Len(q) : q[k] \in S
  OBVIOUS
<1>1. a \in Seq(S) /\ Len(a) = j - 1 /\ \A k \in 1 .. j - 1 : a[k] = q[k]
  <2>1. \A k \in 1 .. j - 1 : q[k] \in S
    BY <1>0
  <2>2. Len(a) = IF 1 <= j - 1 THEN (j - 1) - 1 + 1 ELSE 0
    BY <2>1, <1>0, SubSeqProperties
  <2> QED BY <2>1, <2>2, <1>0, SubSeqProperties
<1>2. b \in Seq(S) /\ Len(b) = Len(q) - j + 1 /\ \A k \in 1 .. Len(q) - j + 1 : b[k] = q[j + k - 1]
  <2>1. \A k \in j .. Len(q) : q[k] \in S
    BY <1>0
  <2>2. Len(b) = IF j <= Len(q) THEN Len(q) - j + 1 ELSE 0
    BY <2>1, <1>0, SubSeqProperties
  <2> QED BY <2>1, <2>2, <1>0, SubSeqProperties
<1>3. r = c \o b
  BY DEF Inserted
<1> HIDE DEF a, b, r
<1>4. c \in Seq(S) /\ Len(c) = j /\ \A k \in 1 .. j - 1 : c[k] = q[k]
  BY <1>1
<1> HIDE DEF c
<1>5. /\ r \in Seq(S) /\ Len(r) = Len(c) + Len(b)
      /\ \A k \in 1 .. Len(c) + Len(b) : r[k] = IF k <= Len(c) THEN c[k] ELSE b[k - Len(c)]
  BY ONLY <1>2, <1>3, <1>4, ConcatProperties, ZenonT(30)
<1>6. Len(c) = j /\ Len(b) = Len(q) - j + 1 /\ Len(c) + Len(b) = Len(q) + 1
  BY <1>0, <1>2, <1>4
<1>7. ASSUME NEW k \in 1 .. Len(q), k < j PROVE r[k] = q[k]
  <2>1. k \in 1 .. Len(q) + 1 /\ k <= j /\ k \in 1 .. j - 1
    BY <1>0, <1>7
  <2>2. r[k] = c[k]
    BY ONLY <1>5, <1>6, <2>1
  <2> QED BY <1>4, <2>1, <2>2
<1>8. ASSUME NEW k \in 1 .. Len(q), j <= k PROVE r[k + 1] = q[k]
  <2>1. k + 1 - j \in 1 .. Len(q) - j + 1 /\ j + (k + 1 - j) - 1 = k
    BY <1>0, <1>8
  <2>2. b[k + 1 - j] = q[k]
    BY <1>2, <2>1
  <2>3. k + 1 \in 1 .. Len(c) + Len(b) /\ ~ (k + 1 <= Len(c)) /\ k + 1 - Len(c) = k + 1 - j
    BY <1>0, <1>6, <1>8
  <2>4. r[k + 1] = b[k + 1 - Len(c)]
    BY ONLY <1>5, <2>3
  <2> QED BY <2>2, <2>3, <2>4
<1> QED BY <1>5, <1>6, <1>7, <1>8 DEF r

LEMMA DeletedFrom ==
    ASSUME NEW S, NEW q \in Seq(S), NEW j \in DOMAIN q
    PROVE  /\ Deleted(q, j) \in Seq(S) /\ Len(Deleted(q, j)) = Len(q) - 1
           /\ \A k \in 1 .. Len(q) : k < j => Deleted(q, j)[k] = q[k]
           /\ \A k \in 1 .. Len(q) : j < k => Deleted(q, j)[k - 1] = q[k]
<1> DEFINE r == Deleted(q, j)
           a == SubSeq(q, 1, j - 1)
           b == SubSeq(q, j + 1, Len(q))
<1>0. Len(q) \in Nat /\ j \in 1 .. Len(q) /\ \A k \in 1 .. Len(q) : q[k] \in S
  OBVIOUS
<1>1. a \in Seq(S) /\ Len(a) = j - 1 /\ \A k \in 1 .. j - 1 : a[k] = q[k]
  <2>1. \A k \in 1 .. j - 1 : q[k] \in S
    BY <1>0
  <2>2. Len(a) = IF 1 <= j - 1 THEN (j - 1) - 1 + 1 ELSE 0
    BY <2>1, <1>0, SubSeqProperties
  <2> QED BY <2>1, <2>2, <1>0, SubSeqProperties
<1>2. b \in Seq(S) /\ Len(b) = Len(q) - j /\ \A k \in 1 .. Len(q) - j : b[k] = q[j + k]
  <2>1. \A k \in j + 1 .. Len(q) : q[k] \in S
    BY <1>0
  <2>2. Len(b) = IF j + 1 <= Len(q) THEN Len(q) - (j + 1) + 1 ELSE 0
    BY <2>1, <1>0, SubSeqProperties
  <2>3. \A k \in 1 .. Len(q) - (j + 1) + 1 : b[k] = q[(j + 1) + k - 1]
    <3> DEFINE m == j + 1
               n == Len(q)
    <3>1. m \in Int /\ n \in Int /\ \A k \in m .. n : q[k] \in S
      BY <2>1, <1>0
    <3>2. b = SubSeq(q, m, n)
      OBVIOUS
    <3> HIDE DEF m, n, b
    <3>3. \A k \in 1 .. n - m + 1 : b[k] = q[m + k - 1]
      BY ONLY <3>1, <3>2, SubSeqProperties
    <3> QED BY <3>3 DEF m, n
  <2>4. b \in Seq(S)
    BY <2>1, <1>0, SubSeqProperties
  <2> HIDE DEF b
  <2>5. \A k \in 1 .. Len(q) - j : b[k] = q[j + k]
    <3>1. TAKE k \in 1 .. Len(q) - j
    <3>2. (j + 1) + k - 1 = j + k /\ k \in 1 .. Len(q) - (j + 1) + 1
      BY <1>0
    <3> QED BY <2>3, <3>2
  <2>6. Len(b) = Len(q) - j
    BY <1>0, <2>2
  <2> QED BY ONLY <2>4, <2>5, <2>6
<1>3. r = a \o b
  BY DEF Deleted
<1> HIDE DEF a, b, r
<1>5. /\ r \in Seq(S) /\ Len(r) = Len(a) + Len(b)
      /\ \A k \in 1 .. Len(a) + Len(b) : r[k] = IF k <= Len(a) THEN a[k] ELSE b[k - Len(a)]
  BY ONLY <1>1, <1>2, <1>3, ConcatProperties, SMTT(30)
<1>6. Len(a) = j - 1 /\ Len(b) = Len(q) - j /\ Len(a) + Len(b) = Len(q) - 1
  BY <1>0, <1>1, <1>2
<1>7. ASSUME NEW k \in 1 .. Len(q), k < j PROVE r[k] = q[k]
  <2>1. k \in 1 .. Len(q) - 1 /\ k <= j - 1 /\ k \in 1 .. j - 1
    BY <1>0, <1>7
  <2>2. r[k] = a[k]
    BY ONLY <1>5, <1>6, <2>1
  <2> QED BY <1>1, <2>1, <2>2
<1>8. ASSUME NEW k \in 1 .. Len(q), j < k PROVE r[k - 1] = q[k]
  <2>1. k - j \in 1 .. Len(q) - j /\ j + (k - j) = k /\ (k - 1) - (j - 1) = k - j
    BY <1>0, <1>8
  <2>2. b[k - j] = q[k]
    BY <1>2, <2>1
  <2>3. k - 1 \in 1 .. Len(q) - 1 /\ ~ (k - 1 <= j - 1)
    BY <1>0, <1>8
  <2>4. r[k - 1] = b[(k - 1) - (j - 1)]
    BY ONLY <1>5, <1>6, <2>3
  <2> QED BY <2>1, <2>2, <2>4
<1> QED BY <1>5, <1>6, <1>7, <1>8 DEF r

LEMMA InsertKeepsInv ==
    ASSUME RemapInv, NEW i \in Nat, NEW form \in AllForms, InsertLine(i, form)
    PROVE  RemapInv'
<1>1. i \in 1 .. Len(lines) + 1 /\ ~settled' /\ lines' = Inserted(lines, i, form)
  BY DEF InsertLine, Inserted
<1>2. home' = (IF i <= home THEN home + 1 ELSE home) /\ UNCHANGED <<suffix, nodeKind, hint, found>>
  BY DEF InsertLine
<1>3. lines \in Seq(AllForms) /\ Len(lines) \in Nat /\ home \in 0 .. Len(lines)
  BY DEF RemapInv, RemapShape
<1>4. /\ lines' \in Seq(AllForms) /\ Len(lines') = Len(lines) + 1
      /\ \A k \in 1 .. Len(lines) : k < i => lines'[k] = lines[k]
      /\ \A k \in 1 .. Len(lines) : i <= k => lines'[k + 1] = lines[k]
  BY <1>1, <1>3, InsertedInto, SMTT(30)
<1>5. home' \in 0 .. Len(lines) + 1
  BY <1>1, <1>2, <1>3
<1>6. home' # 0 => home # 0 /\ lines'[home'] = lines[home]
  <2>1. CASE home = 0
    BY <1>1, <1>2, <2>1
  <2>2. CASE home # 0 /\ i <= home
    <3>1. home \in 1 .. Len(lines)
      BY <1>3, <2>2
    <3>2. lines'[home + 1] = lines[home]
      BY <1>4, <2>2, <3>1
    <3> QED BY <1>2, <2>2, <3>2
  <2>3. CASE home # 0 /\ ~ (i <= home)
    <3>1. home \in 1 .. Len(lines) /\ home < i
      BY <1>1, <1>3, <2>3
    <3>2. lines'[home] = lines[home]
      BY <1>4, <3>1
    <3> QED BY <1>2, <2>3, <3>2
  <2> QED BY <2>1, <2>2, <2>3
<1>7. RemapShape'
  BY <1>2, <1>4, <1>5 DEF RemapInv, RemapShape
<1>8. HomeDefines'
  <2>1. Structural' = Structural
    BY <1>2 DEF Structural
  <2> QED BY <1>2, <1>6, <2>1 DEF RemapInv, HomeDefines
<1> QED BY <1>1, <1>7, <1>8 DEF RemapInv, FoundIsTheSame

LEMMA DeleteKeepsInv ==
    ASSUME RemapInv, NEW i \in Nat, DeleteLine(i)
    PROVE  RemapInv'
<1>1. i \in DOMAIN lines /\ ~settled' /\ lines' = Deleted(lines, i)
  BY DEF DeleteLine, Deleted
<1>2. /\ home' = IF i = home THEN 0 ELSE IF i < home THEN home - 1 ELSE home
      /\ UNCHANGED <<suffix, nodeKind, hint, found>>
  BY DEF DeleteLine
<1>3. /\ lines \in Seq(AllForms) /\ Len(lines) \in Nat /\ home \in 0 .. Len(lines)
      /\ i \in 1 .. Len(lines)
  BY <1>1 DEF RemapInv, RemapShape
<1>4. /\ lines' \in Seq(AllForms) /\ Len(lines') = Len(lines) - 1
      /\ \A k \in 1 .. Len(lines) : k < i => lines'[k] = lines[k]
      /\ \A k \in 1 .. Len(lines) : i < k => lines'[k - 1] = lines[k]
  BY <1>1, <1>3, DeletedFrom
<1>5. home' \in 0 .. Len(lines) - 1
  BY <1>2, <1>3
<1>6. home' # 0 => home # 0 /\ lines'[home'] = lines[home]
  <2>1. CASE home = 0
    BY <1>2, <1>3, <2>1
  <2>2. CASE i = home
    BY <1>2, <2>2
  <2>3. CASE home # 0 /\ i < home
    <3>1. home \in 1 .. Len(lines) /\ i # home
      BY <1>3, <2>3
    <3>2. lines'[home - 1] = lines[home]
      BY <1>4, <2>3, <3>1
    <3> QED BY <1>2, <2>3, <3>1, <3>2
  <2>4. CASE home # 0 /\ home < i
    <3>1. home \in 1 .. Len(lines) /\ i # home /\ ~ (i < home)
      BY <1>3, <2>4
    <3>2. lines'[home] = lines[home]
      BY <1>4, <2>4, <3>1
    <3> QED BY <1>2, <2>4, <3>1, <3>2
  <2> QED BY <1>3, <2>1, <2>2, <2>3, <2>4
<1>7. RemapShape'
  BY <1>2, <1>4, <1>5 DEF RemapInv, RemapShape
<1>8. HomeDefines'
  <2>1. Structural' = Structural
    BY <1>2 DEF Structural
  <2> QED BY <1>2, <1>6, <2>1 DEF RemapInv, HomeDefines
<1> QED BY <1>1, <1>7, <1>8 DEF RemapInv, FoundIsTheSame

(* A section that was found again is the one that was lost                  *)
(* (_remap_node_span), for files of any length, any edits between two looks *)
(* and any windows around the lines where it was.  Every way of finding     *)
(* gives a line that looks like the definition or bears its name; where it  *)
(* is trusted there is one such line at most, and the section's own is one  *)
(* (HomeDefines).                                                           *)
THEOREM SectionsAreFoundAgain == RemapSpec => []FoundIsTheSame
<1>1. RemapInit => RemapInv
  <2> SUFFICES ASSUME RemapInit PROVE RemapInv
    OBVIOUS
  <2>1. suffix \in {"py", "ts", "md", "xml"} /\ home = 1 /\ found.at = 1
    BY DEF RemapInit, LineForms
  <2>2. PICK form \in CanBeSection(suffix) : lines = <<form>> /\ nodeKind = KindOf[form]
    BY DEF RemapInit
  <2>3. form \in AllForms
    BY <2>1, <2>2 DEF CanBeSection, AllForms, LineForms
  <2>4. hint \in [start : Nat, end : Nat]
    BY DEF RemapInit, NoHint
  <2>5. RemapShape
    BY <2>1, <2>2, <2>3, <2>4 DEF RemapShape
  <2>6. HomeDefines
    BY <2>1, <2>2 DEF HomeDefines, CanBeSection, LineForms, KindOf, Structural
  <2> QED BY <2>1, <2>5, <2>6 DEF RemapInv, FoundIsTheSame
<1>2. RemapInv /\ [RemapNext]_remapVars => RemapInv'
  <2> SUFFICES ASSUME RemapInv, [RemapNext]_remapVars PROVE RemapInv'
    OBVIOUS
  <2>1. CASE UNCHANGED remapVars
    BY <2>1 DEF RemapInv, RemapShape, HomeDefines, FoundIsTheSame, Structural, remapVars
  <2>2. CASE \E parses \in BOOLEAN : Remap(parses)
    BY <2>2, RemapKeepsInv
  <2>3. CASE \E i \in 1 .. MaxLines, form \in AllForms : InsertLine(i, form)
    BY <2>3, InsertKeepsInv, RemapAssumption
  <2>4. CASE \E i \in 1 .. MaxLines : DeleteLine(i)
    BY <2>4, DeleteKeepsInv, RemapAssumption
  <2> QED BY <2>1, <2>2, <2>3, <2>4 DEF RemapNext
<1>3. RemapInv => FoundIsTheSame
  BY DEF RemapInv
<1> QED BY <1>1, <1>2, <1>3, PTL DEF RemapSpec

-----------------------------------------------------------------------------

(***************************************************************************)
(* An index of a project: whatever was in the store before, and whatever   *)
(* chats write and sync meanwhile.                                         *)
(***************************************************************************)

IsStore(s) ==
    /\ s = [nodes |-> s.nodes, edges |-> s.edges]
    /\ s.nodes \in [DOMAIN s.nodes -> NodeData(Nat)]

(* What s has of the files of F is in t, too.                               *)
NodeKept(s, t, id) == Has(s, id) => Has(t, id) /\ t.nodes[id] = s.nodes[id]
EdgeKept(s, t, e)  == e \in s.edges => e \in t.edges

KeepsFile(s, t, f) ==
    /\ NodeKept(s, t, FileId(f)) /\ NodeKept(s, t, SectionId(f))
    /\ EdgeKept(s, t, <<IndexerId, FileId(f)>>) /\ EdgeKept(s, t, <<FileId(f), SectionId(f)>>)

KeepsFiles(s, t, F) == \A f \in F : KeepsFile(s, t, f)

LEMMA KeepsAll ==
    ASSUME NEW s, NEW t, NEW u, NEW F, KeepsFiles(s, t, F), KeepsFiles(t, u, F)
    PROVE  KeepsFiles(s, u, F)
BY DEF KeepsFiles, KeepsFile, NodeKept, EdgeKept

LEMMA StoreUpdates ==
    ASSUME NEW s, IsStore(s), NEW new
    PROVE  /\ [s EXCEPT !.nodes = new] = [nodes |-> new, edges |-> s.edges]
           /\ [s EXCEPT !.edges = new] = [nodes |-> s.nodes, edges |-> new]
<1>1. ASSUME NEW n, NEW e
      PROVE  /\ [[nodes |-> n, edges |-> e] EXCEPT !.nodes = new] = [nodes |-> new, edges |-> e]
             /\ [[nodes |-> n, edges |-> e] EXCEPT !.edges = new] = [nodes |-> n, edges |-> new]
  OBVIOUS
<1>2. s = [nodes |-> s.nodes, edges |-> s.edges]
  BY DEF IsStore
<1> QED BY <1>1, <1>2

LEMMA PlainIsData == \A v \in Nat : Plain(v) \in NodeData(Nat)
BY DEF Plain, NodeData

LEMMA UpsertedNode ==
    ASSUME NEW s, IsStore(s), NEW id, NEW data \in NodeData(Nat)
    PROVE  /\ IsStore(UpsertNode(s, id, data))
           /\ Has(UpsertNode(s, id, data), id) /\ UpsertNode(s, id, data).nodes[id] = data
           /\ \A n : n # id => NodeKept(s, UpsertNode(s, id, data), n)
           /\ UpsertNode(s, id, data).edges = s.edges
<1> DEFINE new == [n \in DOMAIN s.nodes \cup {id} |-> IF n = id THEN data ELSE s.nodes[n]]
<1>1. UpsertNode(s, id, data) = [nodes |-> new, edges |-> s.edges]
  BY StoreUpdates DEF UpsertNode
<1>2. new \in [DOMAIN s.nodes \cup {id} -> NodeData(Nat)]
  BY DEF IsStore
<1>3. new[id] = data /\ \A n \in DOMAIN s.nodes : n # id => new[n] = s.nodes[n]
  OBVIOUS
<1>4. DOMAIN new = DOMAIN s.nodes \cup {id}
  OBVIOUS
<1> HIDE DEF new
<1> QED BY <1>1, <1>2, <1>3, <1>4 DEF IsStore, Has, NodeKept

LEMMA UpsertedEdge ==
    ASSUME NEW s, IsStore(s), NEW x, NEW y
    PROVE  /\ IsStore(UpsertEdge(s, x, y)) /\ UpsertEdge(s, x, y).nodes = s.nodes
           /\ UpsertEdge(s, x, y).edges = s.edges \cup {<<x, y>>}
<1>1. UpsertEdge(s, x, y) = [nodes |-> s.nodes, edges |-> s.edges \cup {<<x, y>>}]
  BY StoreUpdates DEF UpsertEdge
<1> QED BY <1>1 DEF IsStore

LEMMA EdgesDeleted ==
    ASSUME NEW s, IsStore(s), NEW ids
    PROVE  /\ IsStore(DeleteEdgesTouching(s, ids)) /\ DeleteEdgesTouching(s, ids).nodes = s.nodes
           /\ \A e \in s.edges : Touches(e, ids) \/ e \in DeleteEdgesTouching(s, ids).edges
<1>1. DeleteEdgesTouching(s, ids) = [nodes |-> s.nodes, edges |-> {e \in s.edges : ~Touches(e, ids)}]
  BY StoreUpdates DEF DeleteEdgesTouching
<1> QED BY <1>1 DEF IsStore

LEMMA StaleNodes ==
    ASSUME NEW s, IsStore(s), NEW ids, ids # {}
    PROVE  /\ IsStore(MarkStale(s, ids)) /\ MarkStale(s, ids).edges = s.edges
           /\ \A n : n \notin ids => NodeKept(s, MarkStale(s, ids), n)
<1> DEFINE new == [n \in DOMAIN s.nodes |-> [print |-> s.nodes[n].print, text |-> s.nodes[n].text,
                                            fresh |-> s.nodes[n].fresh /\ ~(ids = {} \/ n \in ids)]]
<1>1. MarkStale(s, ids) = [nodes |-> new, edges |-> s.edges]
  BY StoreUpdates DEF MarkStale
<1>2. new \in [DOMAIN s.nodes -> NodeData(Nat)]
  BY DEF NodeData, IsStore
<1>3. ASSUME NEW n \in DOMAIN s.nodes, n \notin ids
      PROVE  new[n] = s.nodes[n]
  <2>1. s.nodes[n] \in NodeData(Nat)
    BY DEF IsStore
  <2>2. s.nodes[n] = [print |-> s.nodes[n].print, text |-> s.nodes[n].text, fresh |-> s.nodes[n].fresh]
        /\ s.nodes[n].fresh \in BOOLEAN
    BY <2>1 DEF NodeData
  <2>3. (s.nodes[n].fresh /\ ~(ids = {} \/ n \in ids)) = s.nodes[n].fresh
    BY <1>3, <2>2
  <2> QED BY <2>2, <2>3
<1>4. DOMAIN new = DOMAIN s.nodes
  OBVIOUS
<1> HIDE DEF new
<1> QED BY <1>1, <1>2, <1>3, <1>4 DEF IsStore, Has, NodeKept

LEMMA SectionsDropped ==
    ASSUME NEW s, IsStore(s), NEW f
    PROVE  /\ IsStore(DeleteSections(s, f)) /\ DeleteSections(s, f).edges = s.edges
           /\ \A n : n # SectionId(f) => NodeKept(s, DeleteSections(s, f), n)
<1>1. DeleteSections(s, f) = [nodes |-> [n \in DOMAIN s.nodes \ {SectionId(f)} |-> s.nodes[n]], edges |-> s.edges]
  BY StoreUpdates DEF DeleteSections
<1> QED BY <1>1 DEF IsStore, Has, NodeKept

LEMMA IdsDiffer ==
    \A f, g : /\ FileId(f) # SectionId(g) /\ FileId(f) # IndexerId /\ SectionId(f) # IndexerId
              /\ FileId(f) = FileId(g) => f = g
              /\ SectionId(f) = SectionId(g) => f = g
BY DEF FileId, SectionId, IndexerId

-----------------------------------------------------------------------------
(* What the statements of the indexer and of the chats keep.                *)

LEMMA IndexerUpserted ==
    ASSUME NEW s, IsStore(s)
    PROVE  LET t == UpsertNode(s, IndexerId, Plain(0))
           IN  IsStore(t) /\ KeepsFiles(s, t, PagFiles)
<1>1. Plain(0) \in NodeData(Nat)
  BY PlainIsData
<1> QED BY <1>1, UpsertedNode, IdsDiffer DEF KeepsFiles, KeepsFile, EdgeKept

LEMMA EdgeUpserted ==
    ASSUME NEW s, IsStore(s), NEW x, NEW y
    PROVE  LET t == UpsertEdge(s, x, y)
           IN  IsStore(t) /\ KeepsFiles(s, t, PagFiles) /\ <<x, y>> \in t.edges
BY UpsertedEdge DEF KeepsFiles, KeepsFile, NodeKept, EdgeKept, Has

LEMMA FileUpserted ==
    ASSUME NEW s, IsStore(s), NEW f, NEW v \in Nat
    PROVE  LET t == UpsertNode(s, FileId(f), Plain(v))
           IN  /\ IsStore(t) /\ KeepsFiles(s, t, PagFiles \ {f})
               /\ Has(t, FileId(f)) /\ t.nodes[FileId(f)] = Plain(v)
<1>1. Plain(v) \in NodeData(Nat)
  BY PlainIsData
<1> QED BY <1>1, UpsertedNode, IdsDiffer DEF KeepsFiles, KeepsFile, EdgeKept

LEMMA SectionUpserted ==
    ASSUME NEW s, IsStore(s), NEW f, NEW v \in Nat
    PROVE  LET t == WithSection(s, f, v)
           IN  /\ IsStore(t) /\ KeepsFiles(s, t, PagFiles \ {f})
               /\ NodeKept(s, t, FileId(f)) /\ EdgeKept(s, t, <<IndexerId, FileId(f)>>)
               /\ Splits(f) => /\ Has(t, SectionId(f)) /\ t.nodes[SectionId(f)] = Plain(v)
                               /\ <<FileId(f), SectionId(f)>> \in t.edges
<1> DEFINE u == UpsertNode(s, SectionId(f), Plain(v))
           t == UpsertEdge(u, FileId(f), SectionId(f))
<1>1. CASE ~Splits(f)
  BY <1>1 DEF WithSection, KeepsFiles, KeepsFile, NodeKept, EdgeKept
<1>2. CASE Splits(f)
  <2>1. Plain(v) \in NodeData(Nat)
    BY PlainIsData
  <2>2. /\ IsStore(u) /\ Has(u, SectionId(f)) /\ u.nodes[SectionId(f)] = Plain(v)
        /\ \A n : n # SectionId(f) => NodeKept(s, u, n)
        /\ u.edges = s.edges
    BY <2>1, UpsertedNode
  <2> HIDE DEF u
  <2>3. IsStore(t) /\ t.nodes = u.nodes /\ t.edges = u.edges \cup {<<FileId(f), SectionId(f)>>}
    BY <2>2, UpsertedEdge
  <2>4. WithSection(s, f, v) = t
    BY <1>2 DEF WithSection, u
  <2> HIDE DEF t
  <2>5. \A n : n # SectionId(f) => NodeKept(s, t, n)
    BY <2>2, <2>3 DEF NodeKept, Has
  <2>6. KeepsFiles(s, t, PagFiles \ {f})
    BY <2>2, <2>3, <2>5, IdsDiffer DEF KeepsFiles, KeepsFile, EdgeKept
  <2>7. NodeKept(s, t, FileId(f)) /\ EdgeKept(s, t, <<IndexerId, FileId(f)>>)
    BY <2>2, <2>3, <2>5, IdsDiffer DEF EdgeKept
  <2>8. /\ Has(t, SectionId(f)) /\ t.nodes[SectionId(f)] = Plain(v)
        /\ <<FileId(f), SectionId(f)>> \in t.edges
    BY <2>2, <2>3 DEF Has
  <2> QED BY <2>3, <2>4, <2>6, <2>7, <2>8
<1> QED BY <1>1, <1>2

LEMMA FileSynced ==
    ASSUME NEW s, IsStore(s), NEW f \in PagFiles, tree[f] \in Nat
    PROVE  IsStore(SyncedStore(s, f)) /\ KeepsFiles(s, SyncedStore(s, f), PagFiles \ {f})
<1> DEFINE known == UpsertNode(s, FileId(f), Plain(tree[f]))
           cut   == DeleteEdgesTouching(known, {FileId(f)})
           bare  == DeleteSections(cut, f)
<1>1. CASE tree[f] = 0
  <2>1. IsStore(MarkStale(s, {FileId(f)})) /\ MarkStale(s, {FileId(f)}).edges = s.edges
        /\ \A n : n \notin {FileId(f)} => NodeKept(s, MarkStale(s, {FileId(f)}), n)
    BY StaleNodes
  <2>2. KeepsFiles(s, MarkStale(s, {FileId(f)}), PagFiles \ {f})
    BY <2>1, IdsDiffer DEF KeepsFiles, KeepsFile, EdgeKept
  <2> QED BY <1>1, <2>1, <2>2 DEF SyncedStore
<1>2. CASE tree[f] # 0
  <2>1. IsStore(known) /\ KeepsFiles(s, known, PagFiles \ {f})
    BY FileUpserted
  <2>2. SyncedStore(s, f) = WithSection(bare, f, tree[f])
    BY <1>2 DEF SyncedStore
  <2> HIDE DEF known
  <2>3. IsStore(cut) /\ KeepsFiles(known, cut, PagFiles \ {f})
    <3>1. /\ IsStore(cut) /\ cut.nodes = known.nodes
          /\ \A e \in known.edges : Touches(e, {FileId(f)}) \/ e \in cut.edges
      BY <2>1, EdgesDeleted
    <3>2. \A g \in PagFiles \ {f} : /\ ~Touches(<<IndexerId, FileId(g)>>, {FileId(f)})
                                    /\ ~Touches(<<FileId(g), SectionId(g)>>, {FileId(f)})
      BY IdsDiffer DEF Touches
    <3> HIDE DEF cut
    <3> QED BY <3>1, <3>2 DEF KeepsFiles, KeepsFile, NodeKept, EdgeKept, Has
  <2> HIDE DEF cut
  <2>4. IsStore(bare) /\ KeepsFiles(cut, bare, PagFiles \ {f})
    <3>1. /\ IsStore(bare) /\ bare.edges = cut.edges
          /\ \A n : n # SectionId(f) => NodeKept(cut, bare, n)
      BY <2>3, SectionsDropped
    <3> HIDE DEF bare
    <3> QED BY <3>1, IdsDiffer DEF KeepsFiles, KeepsFile, EdgeKept
  <2> HIDE DEF bare
  <2>5. IsStore(WithSection(bare, f, tree[f])) /\ KeepsFiles(bare, WithSection(bare, f, tree[f]), PagFiles \ {f})
    BY <2>4, SectionUpserted
  <2>6. KeepsFiles(s, bare, PagFiles \ {f})
    BY <2>1, <2>3, <2>4, KeepsAll
  <2> QED BY <2>2, <2>5, <2>6, KeepsAll
<1> QED BY <1>1, <1>2

-----------------------------------------------------------------------------

HasFile(f)    == Has(pag, FileId(f)) /\ pag.nodes[FileId(f)] = Plain(tree[f])
Hangs(f)      == <<IndexerId, FileId(f)>> \in pag.edges
HasSection(f) ==
    Splits(f) => /\ Has(pag, SectionId(f)) /\ pag.nodes[SectionId(f)] = Plain(tree[f])
                 /\ <<FileId(f), SectionId(f)>> \in pag.edges

Passes == [pc : {"files", "edges", "sections"}, found : SUBSET PagFiles, left : SUBSET PagFiles]
Texts  == [pc : {"file", "section"}, found : SUBSET PagFiles, left : SUBSET PagFiles,
           file : PagFiles, text : Nat]

PagShape ==
    /\ IsStore(pag)
    /\ tree \in [PagFiles -> Nat]
    /\ pagChanges \in Nat
    /\ untouched \subseteq PagFiles
    /\ finished \subseteq PagFiles
    /\ indexing \in {NoIndexing, [pc |-> "walk"]} \cup Passes \cup Texts
    /\ indexing # NoIndexing => finished = {}

(* How far the indexer has come with a file that nobody has touched.        *)
GotFile(f) ==
    \/ f \in finished
    \/ indexing.pc \in {"edges", "sections", "section"}
    \/ indexing.pc = "files" /\ f \notin indexing.left
    \/ indexing.pc = "file" /\ f \notin indexing.left /\ f # indexing.file

GotEdge(f) ==
    \/ f \in finished
    \/ indexing.pc \in {"sections", "section"}
    \/ indexing.pc = "edges" /\ f \notin indexing.left

GotSection(f) ==
    \/ f \in finished
    \/ indexing.pc = "sections" /\ f \notin indexing.left
    \/ indexing.pc = "section" /\ f \notin indexing.left /\ f # indexing.file

Going == indexing \in Passes \cup Texts

(* The files whose indexing has come to something, or is over.             *)
InHand(f) == f \in untouched /\ (f \in finished \/ (Going /\ f \in indexing.found))

FileIndexed(f) ==
    /\ GotFile(f) => HasFile(f)
    /\ GotEdge(f) => Hangs(f)
    /\ GotSection(f) => HasSection(f)
    /\ Going => tree[f] # 0
    /\ indexing \in Texts /\ indexing.file = f => indexing.text = tree[f]

PagInv == PagShape /\ \A f \in PagFiles : InHand(f) => FileIndexed(f)

LEMMA PassesAndTexts ==
    /\ \A i \in Passes : /\ i.pc \in {"files", "edges", "sections"} /\ i \notin Texts
                         /\ i.found \subseteq PagFiles /\ i.left \subseteq PagFiles /\ i # NoIndexing
    /\ \A i \in Texts :  /\ i.pc \in {"file", "section"} /\ i \notin Passes
                         /\ i.found \subseteq PagFiles /\ i.left \subseteq PagFiles /\ i # NoIndexing
                         /\ i.file \in PagFiles /\ i.text \in Nat
    /\ NoIndexing.pc = "none" /\ NoIndexing \notin Passes \cup Texts
    /\ [pc |-> "walk"].pc = "walk" /\ [pc |-> "walk"] \notin Passes \cup Texts /\ [pc |-> "walk"] # NoIndexing
<1>1. \A i \in Passes : i.pc \in {"files", "edges", "sections"} /\ i.found \subseteq PagFiles /\ i.left \subseteq PagFiles
  BY DEF Passes
<1>2. \A i \in Texts : /\ i.pc \in {"file", "section"} /\ i.found \subseteq PagFiles /\ i.left \subseteq PagFiles
                       /\ i.file \in PagFiles /\ i.text \in Nat
  BY DEF Texts
<1>3. NoIndexing.pc = "none" /\ [pc |-> "walk"].pc = "walk"
  BY DEF NoIndexing
<1> QED BY <1>1, <1>2, <1>3

LEMMA Proceeds ==
    ASSUME NEW pc \in {"files", "edges", "sections"}, NEW left \in SUBSET PagFiles,
           indexing.found \subseteq PagFiles, Proceed(pc, left)
    PROVE  /\ indexing' \in Passes /\ indexing'.pc = pc /\ indexing'.left = left
           /\ indexing'.found = indexing.found
BY DEF Proceed, Passes

(* What stays as it was for a file when what is kept of it in the store is. *)
LEMMA FileStays ==
    ASSUME NEW f \in PagFiles, KeepsFile(pag, pag', f), tree'[f] = tree[f]
    PROVE  /\ HasFile(f) => HasFile(f)'
           /\ Hangs(f) => Hangs(f)'
           /\ HasSection(f) => HasSection(f)'
BY DEF KeepsFile, NodeKept, EdgeKept, HasFile, Hangs, HasSection, Has

(* A step of others: where the indexer is stays.                            *)
LEMMA OthersKeepFile ==
    ASSUME NEW f \in PagFiles, UNCHANGED <<indexing, finished>>, f \in untouched' => f \in untouched,
           InHand(f) => FileIndexed(f),
           f \in untouched' => KeepsFile(pag, pag', f) /\ tree'[f] = tree[f]
    PROVE  InHand(f)' => FileIndexed(f)'
<1> SUFFICES ASSUME InHand(f)' PROVE FileIndexed(f)'
  OBVIOUS
<1>1. f \in untouched' /\ InHand(f)
  BY DEF InHand, Going
<1>2. /\ GotFile(f)' = GotFile(f) /\ GotEdge(f)' = GotEdge(f) /\ GotSection(f)' = GotSection(f)
      /\ Going' = Going
  BY DEF GotFile, GotEdge, GotSection, Going
<1> QED BY <1>1, <1>2, FileStays DEF FileIndexed

LEMMA StartKeepsInv == PagInv /\ StartIndexing => PagInv'
<1> SUFFICES ASSUME PagInv, StartIndexing PROVE PagInv'
  OBVIOUS
<1>1. /\ pag' = UpsertNode(pag, IndexerId, Plain(0)) /\ indexing' = [pc |-> "walk"]
      /\ untouched' = PagFiles /\ finished' = {} /\ UNCHANGED <<tree, pagChanges>>
  BY DEF StartIndexing
<1>2. IsStore(pag')
  BY <1>1, IndexerUpserted DEF PagInv, PagShape
<1>3. PagShape'
  BY <1>1, <1>2 DEF PagInv, PagShape
<1>4. ~Going'
  BY <1>1, PassesAndTexts DEF Going
<1> QED BY <1>1, <1>3, <1>4 DEF PagInv, InHand

LEMMA WalkKeepsInv == PagInv /\ Walk => PagInv'
<1> SUFFICES ASSUME PagInv, Walk PROVE PagInv'
  OBVIOUS
<1> DEFINE there == {f \in PagFiles : tree[f] # 0}
<1>1. /\ indexing.pc = "walk" /\ indexing' = [pc |-> "files", found |-> there, left |-> there]
      /\ pag' = UpsertEdge(pag, IndexerId, IndexerId) /\ UNCHANGED <<tree, untouched, finished, pagChanges>>
  BY DEF Walk
<1>2. indexing # NoIndexing /\ finished = {}
  BY <1>1, PassesAndTexts DEF PagInv, PagShape
<1>3. IsStore(pag')
  BY <1>1, EdgeUpserted DEF PagInv, PagShape
<1>4. indexing' \in Passes
  BY <1>1 DEF Passes
<1>5. PagShape'
  BY <1>1, <1>2, <1>3, <1>4 DEF PagInv, PagShape
<1>6. indexing'.pc = "files" /\ indexing'.found = there /\ indexing'.left = there /\ indexing' \notin Texts
  BY <1>1, <1>4, PassesAndTexts
<1>7. ASSUME NEW f \in PagFiles, InHand(f)' PROVE FileIndexed(f)'
  <2>1. f \in there
    BY <1>1, <1>2, <1>6, <1>7 DEF InHand
  <2>2. ~GotFile(f)' /\ ~GotEdge(f)' /\ ~GotSection(f)'
    BY <1>1, <1>2, <1>6, <2>1 DEF GotFile, GotEdge, GotSection
  <2> QED BY <1>1, <1>6, <2>1, <2>2 DEF FileIndexed
<1> QED BY <1>5, <1>7 DEF PagInv

(* The first of the files that are left is one of them.                     *)
LEMMA FirstIsLeft ==
    ASSUME NEW L \in SUBSET PagFiles, L # {}
    PROVE  Min(L) \in L /\ Min(L) \in PagFiles
BY PagAssumption, MinOfNumbers

LEMMA ReadKeepsInv == PagInv /\ ReadNext => PagInv'
<1> SUFFICES ASSUME PagInv, ReadNext PROVE PagInv'
  OBVIOUS
<1> DEFINE f == Min(indexing.left)
<1>1. /\ indexing.pc \in {"files", "sections"} /\ indexing.left # {}
      /\ UNCHANGED <<tree, pag, untouched, finished, pagChanges>>
  BY DEF ReadNext
<1>2. indexing \in Passes /\ finished = {}
  BY <1>1, PassesAndTexts DEF PagInv, PagShape
<1>3. indexing.found \subseteq PagFiles /\ indexing.left \subseteq PagFiles
  BY <1>2, PassesAndTexts
<1>4. f \in indexing.left /\ f \in PagFiles
  BY <1>1, <1>3, FirstIsLeft
<1>5. indexing' = IF tree[f] # 0
             THEN [pc |-> IF indexing.pc = "files" THEN "file" ELSE "section",
                   found |-> indexing.found, left |-> indexing.left \ {f}, file |-> f, text |-> tree[f]]
             ELSE IF indexing.pc = "files" THEN NoIndexing
             ELSE [indexing EXCEPT !.left = @ \ {f}]
  BY DEF ReadNext
<1> HIDE DEF f
<1>6. CASE tree[f] # 0
  <2>1. indexing' = [pc |-> IF indexing.pc = "files" THEN "file" ELSE "section",
                     found |-> indexing.found, left |-> indexing.left \ {f}, file |-> f, text |-> tree[f]]
    BY <1>5, <1>6
  <2>2. /\ indexing' \in Texts /\ indexing'.found = indexing.found /\ indexing'.left = indexing.left \ {f}
        /\ indexing'.file = f /\ indexing'.text = tree[f]
        /\ indexing'.pc = IF indexing.pc = "files" THEN "file" ELSE "section"
    BY <1>1, <1>3, <1>4, <2>1 DEF Texts, PagInv, PagShape
  <2>3. PagShape'
    BY <1>1, <1>2, <2>2 DEF PagInv, PagShape
  <2>4. ASSUME NEW g \in PagFiles, InHand(g)' PROVE FileIndexed(g)'
    <3>1. InHand(g) /\ FileIndexed(g)
      BY <1>1, <1>2, <2>2, <2>4 DEF InHand, Going, PagInv
    <3>2. /\ GotFile(g)' => GotFile(g)
          /\ GotEdge(g)' => GotEdge(g)
          /\ GotSection(g)' => GotSection(g)
      BY <1>1, <1>2, <2>2 DEF GotFile, GotEdge, GotSection
    <3>3. HasFile(g)' = HasFile(g) /\ Hangs(g)' = Hangs(g) /\ HasSection(g)' = HasSection(g)
      BY <1>1 DEF HasFile, Hangs, HasSection
    <3>4. tree[g] # 0
      BY <1>2, <3>1 DEF FileIndexed, Going
    <3> QED BY <1>1, <2>2, <3>1, <3>2, <3>3, <3>4 DEF FileIndexed
  <2> QED BY <2>3, <2>4 DEF PagInv
<1>7. CASE tree[f] = 0 /\ indexing.pc = "files"
  <2>1. indexing' = NoIndexing
    BY <1>5, <1>7
  <2>2. PagShape' /\ ~Going'
    BY <1>1, <1>2, <2>1, PassesAndTexts DEF PagInv, PagShape, Going
  <2> QED BY <1>1, <1>2, <2>2 DEF PagInv, InHand
<1>8. CASE tree[f] = 0 /\ indexing.pc = "sections"
  <2>1. indexing' = [indexing EXCEPT !.left = @ \ {f}]
    BY <1>5, <1>8
  <2>2. /\ indexing' \in Passes /\ indexing'.pc = "sections" /\ indexing'.found = indexing.found
        /\ indexing'.left = indexing.left \ {f}
    BY <1>2, <1>3, <1>8, <2>1 DEF Passes
  <2>3. PagShape'
    BY <1>1, <1>2, <2>2 DEF PagInv, PagShape
  <2>4. ASSUME NEW g \in PagFiles, InHand(g)' PROVE FileIndexed(g)'
    <3>1. InHand(g) /\ FileIndexed(g)
      BY <1>1, <1>2, <2>2, <2>4 DEF InHand, Going, PagInv
    <3>2. tree[g] # 0 /\ g # f
      BY <1>2, <1>8, <3>1 DEF FileIndexed, Going
    <3>3. /\ GotFile(g)' => GotFile(g)
          /\ GotEdge(g)' => GotEdge(g)
          /\ GotSection(g)' => GotSection(g)
      BY <1>1, <1>2, <1>8, <2>2, <3>2 DEF GotFile, GotEdge, GotSection
    <3>4. HasFile(g)' = HasFile(g) /\ Hangs(g)' = Hangs(g) /\ HasSection(g)' = HasSection(g)
      BY <1>1 DEF HasFile, Hangs, HasSection
    <3>5. indexing' \notin Texts
      BY <2>2, PassesAndTexts
    <3> QED BY <1>1, <3>1, <3>2, <3>3, <3>4, <3>5 DEF FileIndexed
  <2> QED BY <2>3, <2>4 DEF PagInv
<1> QED BY <1>1, <1>6, <1>7, <1>8

LEMMA UpsertFileKeepsInv == PagInv /\ UpsertFileNode => PagInv'
<1> SUFFICES ASSUME PagInv, UpsertFileNode PROVE PagInv'
  OBVIOUS
<1>1. /\ indexing.pc = "file" /\ pag' = UpsertNode(pag, FileId(indexing.file), Plain(indexing.text))
      /\ Proceed("files", indexing.left) /\ UNCHANGED <<tree, untouched, finished, pagChanges>>
  BY DEF UpsertFileNode
<1>2. indexing \in Texts /\ finished = {}
  BY <1>1, PassesAndTexts DEF PagInv, PagShape
<1>3. /\ indexing.found \subseteq PagFiles /\ indexing.left \in SUBSET PagFiles
      /\ indexing.file \in PagFiles /\ indexing.text \in Nat
  BY <1>2, PassesAndTexts
<1>4. /\ indexing' \in Passes /\ indexing'.pc = "files" /\ indexing'.left = indexing.left
      /\ indexing'.found = indexing.found
  BY <1>1, <1>3, Proceeds
<1>5. /\ IsStore(pag') /\ KeepsFiles(pag, pag', PagFiles \ {indexing.file})
      /\ Has(pag', FileId(indexing.file)) /\ pag'.nodes[FileId(indexing.file)] = Plain(indexing.text)
  <2>1. IsStore(pag)
    BY DEF PagInv, PagShape
  <2> DEFINE g == indexing.file
             v == indexing.text
  <2>2. v \in Nat /\ pag' = UpsertNode(pag, FileId(g), Plain(v))
    BY <1>1, <1>3
  <2> HIDE DEF g, v
  <2>3. /\ IsStore(pag') /\ KeepsFiles(pag, pag', PagFiles \ {g})
        /\ Has(pag', FileId(g)) /\ pag'.nodes[FileId(g)] = Plain(v)
    BY <2>1, <2>2, FileUpserted
  <2> QED BY <2>3 DEF g, v
<1>6. PagShape'
  BY <1>1, <1>2, <1>4, <1>5 DEF PagInv, PagShape
<1>7. ASSUME NEW g \in PagFiles, InHand(g)' PROVE FileIndexed(g)'
  <2>1. InHand(g) /\ FileIndexed(g)
    BY <1>1, <1>2, <1>4, <1>7 DEF InHand, Going, PagInv
  <2>2. tree[g] # 0 /\ (indexing.file = g => indexing.text = tree[g])
    BY <1>2, <2>1 DEF FileIndexed, Going
  <2>3. ~GotEdge(g)' /\ ~GotSection(g)' /\ indexing' \notin Texts
    BY <1>1, <1>2, <1>4, PassesAndTexts DEF GotEdge, GotSection
  <2>4. GotFile(g)' => HasFile(g)'
    <3>1. CASE g = indexing.file
      BY <1>1, <1>5, <2>2, <3>1 DEF HasFile
    <3>2. CASE g # indexing.file
      <4>1. KeepsFile(pag, pag', g)
        BY <1>5, <3>2 DEF KeepsFiles
      <4>2. GotFile(g)' => GotFile(g)
        BY <1>1, <1>2, <1>4, <3>2 DEF GotFile
      <4> QED BY <1>1, <2>1, <4>1, <4>2, FileStays DEF FileIndexed
    <3> QED BY <3>1, <3>2
  <2> QED BY <1>1, <2>2, <2>3, <2>4 DEF FileIndexed
<1> QED BY <1>6, <1>7 DEF PagInv

LEMMA PhaseKeepsInv == PagInv /\ NextPhase => PagInv'
<1> SUFFICES ASSUME PagInv, NextPhase PROVE PagInv'
  OBVIOUS
<1>1. /\ indexing.pc \in {"files", "edges", "sections"} /\ indexing.left = {}
      /\ UNCHANGED <<tree, pag, untouched, pagChanges>>
  BY DEF NextPhase
<1>2. indexing \in Passes /\ finished = {}
  BY <1>1, PassesAndTexts DEF PagInv, PagShape
<1>3. indexing.found \in SUBSET PagFiles
  BY <1>2, PassesAndTexts
<1>4. \A g \in PagFiles : HasFile(g)' = HasFile(g) /\ Hangs(g)' = Hangs(g) /\ HasSection(g)' = HasSection(g)
  BY <1>1 DEF HasFile, Hangs, HasSection
<1>5. CASE \/ indexing.pc = "files" /\ Proceed("edges", indexing.found) /\ UNCHANGED finished
           \/ indexing.pc = "edges" /\ Proceed("sections", indexing.found) /\ UNCHANGED finished
  <2>1. /\ indexing' \in Passes /\ indexing'.left = indexing.found /\ indexing'.found = indexing.found
        /\ \/ indexing.pc = "files" /\ indexing'.pc = "edges"
           \/ indexing.pc = "edges" /\ indexing'.pc = "sections"
        /\ UNCHANGED finished
    BY <1>3, <1>5, Proceeds
  <2>2. PagShape'
    BY <1>1, <1>2, <2>1 DEF PagInv, PagShape
  <2>3. ASSUME NEW g \in PagFiles, InHand(g)' PROVE FileIndexed(g)'
    <3>1. InHand(g) /\ FileIndexed(g) /\ g \in indexing.found
      BY <1>1, <1>2, <2>1, <2>3 DEF InHand, Going, PagInv
    <3>2. /\ GotFile(g)' => GotFile(g)
          /\ GotEdge(g)' => GotEdge(g)
          /\ GotSection(g)' => GotSection(g)
      BY <1>1, <1>2, <2>1, <3>1 DEF GotFile, GotEdge, GotSection
    <3>3. tree[g] # 0 /\ indexing' \notin Texts
      BY <1>2, <2>1, <3>1, PassesAndTexts DEF FileIndexed, Going
    <3> QED BY <1>1, <1>4, <3>1, <3>2, <3>3 DEF FileIndexed
  <2> QED BY <2>2, <2>3 DEF PagInv
<1>6. CASE indexing.pc = "sections" /\ indexing' = NoIndexing /\ finished' = indexing.found
  <2>1. PagShape'
    BY <1>1, <1>3, <1>6 DEF PagInv, PagShape
  <2>2. ~Going' /\ indexing' \notin Texts
    BY <1>6, PassesAndTexts DEF Going
  <2>3. ASSUME NEW g \in PagFiles, InHand(g)' PROVE FileIndexed(g)'
    <3>1. InHand(g) /\ FileIndexed(g)
      BY <1>1, <1>2, <1>6, <2>2, <2>3 DEF InHand, Going, PagInv
    <3>2. GotFile(g) /\ GotEdge(g) /\ GotSection(g)
      BY <1>1, <1>6 DEF GotFile, GotEdge, GotSection
    <3> QED BY <1>4, <2>2, <3>1, <3>2 DEF FileIndexed
  <2> QED BY <2>1, <2>3 DEF PagInv
<1> QED BY <1>1, <1>5, <1>6 DEF NextPhase

LEMMA EdgeKeepsInv == PagInv /\ UpsertTreeEdge => PagInv'
<1> SUFFICES ASSUME PagInv, UpsertTreeEdge PROVE PagInv'
  OBVIOUS
<1> DEFINE f == Min(indexing.left)
<1>1. /\ indexing.pc = "edges" /\ indexing.left # {}
      /\ pag' = UpsertEdge(pag, IndexerId, FileId(f)) /\ Proceed("edges", indexing.left \ {f})
      /\ UNCHANGED <<tree, untouched, finished, pagChanges>>
  BY DEF UpsertTreeEdge
<1>2. indexing \in Passes /\ finished = {}
  BY <1>1, PassesAndTexts DEF PagInv, PagShape
<1>3. indexing.found \subseteq PagFiles /\ indexing.left \subseteq PagFiles
  BY <1>2, PassesAndTexts
<1> HIDE DEF f
<1>4. /\ indexing' \in Passes /\ indexing'.pc = "edges" /\ indexing'.left = indexing.left \ {f}
      /\ indexing'.found = indexing.found
  <2>1. indexing.left \ {f} \in SUBSET PagFiles
    BY <1>3
  <2> QED BY <1>1, <1>3, <2>1, Proceeds
<1>5. IsStore(pag') /\ KeepsFiles(pag, pag', PagFiles) /\ <<IndexerId, FileId(f)>> \in pag'.edges
  BY <1>1, EdgeUpserted DEF PagInv, PagShape
<1>6. PagShape'
  BY <1>1, <1>2, <1>4, <1>5 DEF PagInv, PagShape
<1>7. ASSUME NEW g \in PagFiles, InHand(g)' PROVE FileIndexed(g)'
  <2>1. InHand(g) /\ FileIndexed(g)
    BY <1>1, <1>2, <1>4, <1>7 DEF InHand, Going, PagInv
  <2>2. KeepsFile(pag, pag', g) /\ tree[g] # 0 /\ indexing' \notin Texts
    BY <1>2, <1>4, <1>5, <2>1, PassesAndTexts DEF KeepsFiles, FileIndexed, Going
  <2>3. /\ GotFile(g)
        /\ GotEdge(g)' => GotEdge(g) \/ g = f
        /\ ~GotSection(g)'
    BY <1>1, <1>2, <1>4 DEF GotFile, GotEdge, GotSection
  <2>4. g = f => Hangs(g)'
    BY <1>5 DEF Hangs
  <2> QED BY <1>1, <2>1, <2>2, <2>3, <2>4, FileStays DEF FileIndexed
<1> QED BY <1>6, <1>7 DEF PagInv

LEMMA SectionKeepsInv == PagInv /\ UpsertSection => PagInv'
<1> SUFFICES ASSUME PagInv, UpsertSection PROVE PagInv'
  OBVIOUS
<1> DEFINE f == indexing.file
<1>1. /\ indexing.pc = "section" /\ pag' = WithSection(pag, f, indexing.text)
      /\ Proceed("sections", indexing.left) /\ UNCHANGED <<tree, untouched, finished, pagChanges>>
  BY DEF UpsertSection
<1>2. indexing \in Texts /\ finished = {}
  BY <1>1, PassesAndTexts DEF PagInv, PagShape
<1>3. /\ indexing.found \subseteq PagFiles /\ indexing.left \in SUBSET PagFiles
      /\ f \in PagFiles /\ indexing.text \in Nat
  BY <1>2, PassesAndTexts
<1>4. /\ indexing' \in Passes /\ indexing'.pc = "sections" /\ indexing'.left = indexing.left
      /\ indexing'.found = indexing.found
  BY <1>1, <1>3, Proceeds
<1>5. /\ IsStore(pag') /\ KeepsFiles(pag, pag', PagFiles \ {f})
      /\ NodeKept(pag, pag', FileId(f)) /\ EdgeKept(pag, pag', <<IndexerId, FileId(f)>>)
      /\ Splits(f) => /\ Has(pag', SectionId(f)) /\ pag'.nodes[SectionId(f)] = Plain(indexing.text)
                      /\ <<FileId(f), SectionId(f)>> \in pag'.edges
  <2>1. IsStore(pag)
    BY DEF PagInv, PagShape
  <2> DEFINE v == indexing.text
  <2>2. v \in Nat /\ pag' = WithSection(pag, f, v)
    BY <1>1, <1>3
  <2> HIDE DEF f, v
  <2>3. /\ IsStore(pag') /\ KeepsFiles(pag, pag', PagFiles \ {f})
        /\ NodeKept(pag, pag', FileId(f)) /\ EdgeKept(pag, pag', <<IndexerId, FileId(f)>>)
        /\ Splits(f) => /\ Has(pag', SectionId(f)) /\ pag'.nodes[SectionId(f)] = Plain(v)
                        /\ <<FileId(f), SectionId(f)>> \in pag'.edges
    BY <2>1, <2>2, SectionUpserted
  <2> QED BY <2>3 DEF v
<1>6. PagShape'
  BY <1>1, <1>2, <1>4, <1>5 DEF PagInv, PagShape
<1>7. ASSUME NEW g \in PagFiles, InHand(g)' PROVE FileIndexed(g)'
  <2>1. InHand(g) /\ FileIndexed(g)
    BY <1>1, <1>2, <1>4, <1>7 DEF InHand, Going, PagInv
  <2>2. tree[g] # 0 /\ (f = g => indexing.text = tree[g]) /\ indexing' \notin Texts
    BY <1>2, <1>4, <2>1, PassesAndTexts DEF FileIndexed, Going
  <2>3. GotFile(g) /\ GotEdge(g)
    BY <1>1 DEF GotFile, GotEdge
  <2>4. HasFile(g) /\ Hangs(g)
    BY <2>1, <2>3 DEF FileIndexed
  <2>5. HasFile(g)' /\ Hangs(g)' /\ (GotSection(g)' => HasSection(g)')
    <3>1. CASE g = f
      <4>1. NodeKept(pag, pag', FileId(g)) /\ EdgeKept(pag, pag', <<IndexerId, FileId(g)>>)
        BY <1>5, <3>1
      <4>2. HasFile(g)' /\ Hangs(g)'
        BY <1>1, <2>4, <4>1 DEF HasFile, Hangs, NodeKept, EdgeKept, Has
      <4>3. HasSection(g)'
        BY <1>1, <1>5, <2>2, <3>1 DEF HasSection
      <4> QED BY <4>2, <4>3
    <3>2. CASE g # f
      <4>1. KeepsFile(pag, pag', g)
        BY <1>5, <3>2 DEF KeepsFiles
      <4>2. GotSection(g)' => GotSection(g)
        BY <1>1, <1>2, <1>4, <3>2 DEF GotSection
      <4> QED BY <1>1, <2>1, <2>4, <4>1, <4>2, FileStays DEF FileIndexed
    <3> QED BY <3>1, <3>2
  <2> QED BY <1>1, <2>2, <2>5 DEF FileIndexed
<1> QED BY <1>6, <1>7 DEF PagInv

LEMMA DeathKeepsInv == PagInv /\ IndexerDies => PagInv'
<1> SUFFICES ASSUME PagInv, IndexerDies PROVE PagInv'
  OBVIOUS
<1>1. indexing' = NoIndexing /\ UNCHANGED <<tree, pag, untouched, finished, pagChanges>> /\ finished = {}
  BY DEF IndexerDies, PagInv, PagShape
<1>2. ~Going'
  BY <1>1, PassesAndTexts DEF Going
<1> QED BY <1>1, <1>2 DEF PagInv, PagShape, InHand

LEMMA FilesKeepInv ==
    ASSUME PagInv, NEW f \in PagFiles, ChangeFile(f) \/ TellOfFile(f)
    PROVE  PagInv'
<1>1. /\ pagChanges' = pagChanges + 1 /\ untouched' = untouched \ {f} /\ UNCHANGED <<indexing, finished>>
  BY DEF ChangeFile, TellOfFile, Touched
<1>2. /\ IsStore(pag') /\ KeepsFiles(pag, pag', PagFiles \ {f}) /\ tree' \in [PagFiles -> Nat]
      /\ \A g \in PagFiles \ {f} : tree'[g] = tree[g]
  <2>1. CASE ChangeFile(f)
    <3>1. /\ UNCHANGED pag
          /\ \/ tree' = [tree EXCEPT ![f] = pagChanges + 2]
             \/ tree' = [tree EXCEPT ![f] = 0]
      BY <2>1 DEF ChangeFile
    <3>2. tree' \in [PagFiles -> Nat] /\ \A g \in PagFiles \ {f} : tree'[g] = tree[g]
      BY <3>1 DEF PagInv, PagShape
    <3>3. KeepsFiles(pag, pag', PagFiles \ {f})
      BY <3>1 DEF KeepsFiles, KeepsFile, NodeKept, EdgeKept
    <3> QED BY <3>1, <3>2, <3>3 DEF PagInv, PagShape
  <2>2. CASE TellOfFile(f)
    <3>1. pag' = SyncedStore(pag, f) /\ UNCHANGED tree
      BY <2>2 DEF TellOfFile
    <3> QED BY <3>1, FileSynced DEF PagInv, PagShape
  <2> QED BY <2>1, <2>2
<1>3. PagShape'
  BY <1>1, <1>2 DEF PagInv, PagShape
<1>4. ASSUME NEW g \in PagFiles PROVE InHand(g)' => FileIndexed(g)'
  <2>1. g \in untouched' => g \in untouched /\ g # f
    BY <1>1
  <2>2. g \in untouched' => KeepsFile(pag, pag', g) /\ tree'[g] = tree[g]
    BY <1>2, <2>1 DEF KeepsFiles
  <2>3. InHand(g) => FileIndexed(g)
    BY DEF PagInv
  <2> QED BY <1>1, <2>1, <2>2, <2>3, OthersKeepFile
<1> QED BY <1>3, <1>4 DEF PagInv

LEMMA StillKeepsInv ==
    ASSUME PagInv, UNCHANGED <<tree, pag, indexing, untouched, finished, pagChanges>>
    PROVE  PagInv'
BY DEF PagInv, PagShape, InHand, FileIndexed, GotFile, GotEdge, GotSection, Going, HasFile, Hangs, HasSection

(* Once an indexing is over (PagIndexer.index_project), what it found and   *)
(* nobody has touched is in the store as it is in the tree, for any files,  *)
(* changes, deaths and syncs of chats in between, whatever the store held   *)
(* before.  The invariant says of every untouched file how much of it must  *)
(* be there by now: its node once the first pass is past it, the edge after *)
(* the second, the section after the third.                                 *)
THEOREM IndexingRepairs == PagSpec => []IndexRepairs
<1>1. PagInit => PagInv
  <2> SUFFICES ASSUME PagInit PROVE PagInv
    OBVIOUS
  <2>1. IsStore(EmptyStore)
    BY DEF EmptyStore, IsStore
  <2>2. tree \in [PagFiles -> Nat]
    BY DEF PagInit
  <2>3. PagShape
    BY <2>1, <2>2 DEF PagInit, PagShape
  <2> QED BY <2>3 DEF PagInit, PagInv, InHand
<1>2. PagInv /\ [PagNext]_pagVars => PagInv'
  <2> SUFFICES ASSUME PagInv, [PagNext]_pagVars PROVE PagInv'
    OBVIOUS
  <2>1. CASE UNCHANGED pagVars
    BY <2>1, StillKeepsInv DEF pagVars
  <2>2. CASE Ask
    <3>1. UNCHANGED <<tree, pag, indexing, untouched, finished, pagChanges>>
      BY <2>2 DEF Ask
    <3> QED BY <3>1, StillKeepsInv
  <2>3. CASE \E f \in PagFiles : ChangeFile(f) \/ TellOfFile(f)
    BY <2>3, FilesKeepInv
  <2> QED BY <2>1, <2>2, <2>3, StartKeepsInv, WalkKeepsInv, ReadKeepsInv, UpsertFileKeepsInv, PhaseKeepsInv,
             EdgeKeepsInv, SectionKeepsInv, DeathKeepsInv DEF PagNext
<1>3. PagInv => IndexRepairs
  <2> SUFFICES ASSUME PagInv, NEW f \in finished \cap untouched
               PROVE  HasFile(f) /\ Hangs(f) /\ HasSection(f)
    BY DEF IndexRepairs, HasFile, Hangs, HasSection
  <2>1. f \in PagFiles /\ InHand(f)
    BY DEF PagInv, PagShape, InHand
  <2> QED BY <2>1 DEF PagInv, FileIndexed, GotFile, GotEdge, GotSection
<1> QED BY <1>1, <1>2, <1>3, PTL DEF PagSpec

=============================================================================
