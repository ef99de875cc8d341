------------------------------ MODULE PermMode ------------------------------
(***************************************************************************)
(* The permission mode of a turn: what was remembered for the project, the *)
(* classifier or the user decides it (perm_turn.py).  What a mode allows   *)
(* is ModePermission's matter.                                             *)
(*                                                                         *)
(* The chats of one project share its decisions in the knowledge base.     *)
(* Waking the turn that waits for the user is AgentWork's matter.  Older   *)
(* rows than the PermWindow newest are never read and are left out.        *)
(***************************************************************************)
EXTENDS Naturals, Sequences, FiniteSets

CONSTANTS
    PermChats,
    PermWindow    \* decisions that are searched for the remembered one (30)

ASSUME PermAssumption ==
    /\ IsFiniteSet(PermChats)
    /\ PermWindow \in Nat
    /\ PermWindow >= Cardinality(PermChats)

Modes == {"read", "read_plan", "explore", "edit"}
NoMode == "none"

VARIABLES
    decisions,    \* rows of kind mode_decision, the newest last
    turn,         \* the turn of each chat
    remembered    \* history: the mode last remembered for the project

permVars == <<decisions, turn, remembered>>

Decision == [always : BOOLEAN, mode : Modes]

NoTurn == [pc |-> "idle", mode |-> NoMode]

PermTypeOK ==
    /\ decisions \in Seq(Decision) /\ Len(decisions) <= PermWindow
    /\ turn \in [PermChats -> [pc : {"idle", "classify", "gate", "remember", "settled"},
                               mode : Modes \cup {NoMode}]]
    /\ remembered \in Modes \cup {NoMode}

PermInit ==
    /\ decisions = <<>>
    /\ turn = [c \in PermChats |-> NoTurn]
    /\ remembered = NoMode

-----------------------------------------------------------------------------
(* The mode.                                                                *)

Newest(rows) == IF Len(rows) > PermWindow THEN Tail(rows) ELSE rows

WriteDecision(always, mode) ==
    decisions' = Newest(Append(decisions, [always |-> always, mode |-> mode]))

(* The rows that say: always. *)
Always == {i \in DOMAIN decisions : decisions[i].always}

(* Mutant: the oldest remembered decision counts. *)
ProjectDefault_Oldest ==
    IF Always = {} THEN NoMode
    ELSE decisions[CHOOSE i \in Always : \A j \in Always : i <= j].mode

(* project_default_mode_from_kb *)
ProjectDefault ==
    IF Always = {} THEN NoMode
    ELSE decisions[CHOOSE i \in Always : \A j \in Always : j <= i].mode

Settle(c, mode) == turn' = [turn EXCEPT ![c] = [pc |-> "settled", mode |-> mode]]

(* resolve_turn with the classifier switched off: a mode is forced.         *)
StartForced(c) ==
    /\ turn[c].pc = "idle"
    /\ \E mode \in Modes : Settle(c, mode)
    /\ UNCHANGED <<decisions, remembered>>

StartPermTurn(c) ==
    /\ turn[c].pc = "idle"
    /\ IF ProjectDefault = NoMode
       THEN turn' = [turn EXCEPT ![c].pc = "classify"]
       ELSE Settle(c, ProjectDefault)
    /\ UNCHANGED <<decisions, remembered>>

(* The classifier's answer cannot be used: read.                            *)
ClassifierFails(c) ==
    /\ turn[c].pc = "classify"
    /\ Settle(c, "read")
    /\ UNCHANGED <<decisions, remembered>>

ClassifierDecides(c) ==
    /\ turn[c].pc = "classify"
    /\ \E mode \in Modes : WriteDecision(FALSE, mode) /\ Settle(c, mode)
    /\ UNCHANGED remembered

(* not_sure *)
ClassifierAsks(c) ==
    /\ turn[c].pc = "classify"
    /\ turn' = [turn EXCEPT ![c].pc = "gate"]
    /\ UNCHANGED <<decisions, remembered>>

(* record_user_choice writes one row, and a second one if the mode is to be *)
(* remembered.                                                              *)
UserChooses(c) ==
    /\ turn[c].pc = "gate"
    /\ \E mode \in Modes, always \in BOOLEAN :
        /\ WriteDecision(FALSE, mode)
        /\ turn' = [turn EXCEPT ![c] = [pc |-> IF always THEN "remember" ELSE "settled", mode |-> mode]]
    /\ UNCHANGED remembered

RememberAlways(c) ==
    /\ turn[c].pc = "remember"
    /\ WriteDecision(TRUE, turn[c].mode)
    /\ remembered' = turn[c].mode
    /\ Settle(c, turn[c].mode)

(* The turn is over, or fails before it has a mode.                         *)
EndPermTurn(c) ==
    /\ turn[c].pc # "idle"
    /\ turn' = [turn EXCEPT ![c] = NoTurn]
    /\ UNCHANGED <<decisions, remembered>>

-----------------------------------------------------------------------------

PermNext ==
    \E c \in PermChats :
        \/ StartForced(c)
        \/ StartPermTurn(c)
        \/ ClassifierFails(c)
        \/ ClassifierDecides(c)
        \/ ClassifierAsks(c)
        \/ UserChooses(c)
        \/ RememberAlways(c)
        \/ EndPermTurn(c)

PermSpec == PermInit /\ [][PermNext]_permVars

-----------------------------------------------------------------------------
(* Properties.                                                              *)

(* A mode the user had remembered for the project is found by every later   *)
(* turn, until another one is remembered: the turns that other chats had    *)
(* under way at the time do not push it out of the decisions that are       *)
(* searched (record_user_choice, project_default_mode_from_kb).             *)
RememberedModeIsFound == remembered # NoMode => ProjectDefault = remembered

=============================================================================
