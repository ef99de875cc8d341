----------------------------- MODULE AutoMemory -----------------------------
(***************************************************************************)
(* What the session loop does with the knowledge base on its own before it *)
(* asks the model, in every turn (session/loop.py): it notes six facts     *)
(* about the project and the session, looks the prompt up, and at the end  *)
(* of a run notes the outcome.  Each kind of call has a cap per run, and   *)
(* some of the limited calls use up the turn.                              *)
(*                                                                         *)
(* Whether a repository is detected is tried afresh at each step and may   *)
(* fail.  The calls of a batch and approvals are WorkSession's matter, the *)
(* records KnowledgeBase's; here a run that waits simply ends, and the one *)
(* after the decision starts from nothing, as run() does.                  *)
(***************************************************************************)
EXTENDS Naturals, Sequences, FiniteSets

CONSTANTS
    CapWrite,      \* AILIT_AUTO_KB_WRITE_CAP
    CapsSearch,    \* what AILIT_AUTO_KB_SEARCH_CAP may be
    CapFetch,      \* AILIT_AUTO_KB_FETCH_CAP
    MaxTurns       \* max_turns

ASSUME AutoAssumption == {CapWrite, CapFetch, MaxTurns} \cup CapsSearch \subseteq Nat \ {0}

FactKinds == <<"repo", "intent", "tree", "signals", "entrypoints", "commands">>
FactSet == {FactKinds[i] : i \in DOMAIN FactKinds}

(* Facts whose limited write uses up the turn, and whose question is asked  *)
(* again in the next.                                                       *)
Insistent == {"repo", "tree", "signals"}

VARIABLES
    step,       \* what comes next: a kind, "search", "fallback", "ask", or "off"
    turnNo,
    noted,      \* the flags wrote_..._fact
    looked,     \* last_auto_kb_query is the prompt
    writes, searches, fetches,    \* auto_kb_write_n, auto_kb_search_n, auto_kb_fetch_n
    consent,    \* what the permission engine says of kb_write_fact in this run
    capSearch,  \* AILIT_AUTO_KB_SEARCH_CAP, as this run read it
    attempted,  \* history: facts that were written, or failed to be, in this run
    again,      \* history: whether one was retried a second time
    requests    \* history: model requests of this run

settings == <<consent, capSearch>>
autoVars == <<step, turnNo, noted, looked, writes, searches, fetches, settings, attempted, again, requests>>
counters == <<writes, searches, fetches>>

AutoTypeOK ==
    /\ step \in FactSet \cup {"search", "fallback", "ask", "off"}
    /\ turnNo \in 0..MaxTurns
    /\ noted \subseteq FactSet
    /\ looked \in BOOLEAN
    /\ writes \in Nat /\ searches \in Nat /\ fetches \in Nat /\ requests \in Nat
    /\ consent \in {"allow", "ask", "deny"}
    /\ capSearch \in CapsSearch
    /\ attempted \subseteq FactSet
    /\ again \in BOOLEAN

AutoInit ==
    /\ step = "off"
    /\ turnNo = 0
    /\ noted = {}
    /\ looked = FALSE
    /\ writes = 0 /\ searches = 0 /\ fetches = 0
    /\ attempted = {}
    /\ again = FALSE
    /\ requests = 0
    /\ consent \in {"allow", "ask", "deny"}
    /\ capSearch \in CapsSearch

(* run(): counters and flags are its own. *)
StartAutoRun ==
    /\ step = "off"
    /\ step' = "repo"
    /\ turnNo' = 0
    /\ noted' = {}
    /\ looked' = FALSE
    /\ writes' = 0 /\ searches' = 0 /\ fetches' = 0
    /\ attempted' = {}
    /\ again' = FALSE
    /\ requests' = 0
    /\ consent' \in {"allow", "ask", "deny"}
    /\ capSearch' \in CapsSearch

(* Cancelled, refused, or over budget: the run ends wherever it is.         *)
StopAutoRun ==
    /\ step # "off"
    /\ step' = "off"
    /\ UNCHANGED <<turnNo, noted, looked, counters, settings, attempted, again, requests>>

-----------------------------------------------------------------------------
(* Facts.                                                                   *)

After(k) ==
    LET i == CHOOSE j \in DOMAIN FactKinds : FactKinds[j] = k
    IN  IF i = Len(FactKinds) THEN "search" ELSE FactKinds[i + 1]

(* continue in the loop over turns; the cap on turns ends the run with a    *)
(* last request that has no tools.                                          *)
NextTurn ==
    /\ turnNo' = turnNo + 1
    /\ step' = IF turnNo + 1 = MaxTurns THEN "off" ELSE "repo"

NextStep(k) == step' = After(k) /\ UNCHANGED turnNo

PassFact(k) ==
    /\ NextStep(k)
    /\ UNCHANGED <<noted, writes, attempted, again>>

(* Mutant: the flag of a limited write stays down. *)
LimitFact_Forget(k) ==
    /\ writes >= CapWrite
    /\ IF k \in Insistent THEN NextTurn ELSE NextStep(k)
    /\ UNCHANGED <<noted, writes, attempted, again>>

LimitFact(k) ==
    /\ writes >= CapWrite
    /\ noted' = noted \cup {k}
    /\ IF k \in Insistent THEN NextTurn ELSE NextStep(k)
    /\ UNCHANGED <<writes, attempted, again>>

AskFact(k) ==
    /\ writes < CapWrite
    /\ consent = "ask"
    /\ noted' = IF k \in Insistent THEN noted ELSE noted \cup {k}
    /\ NextStep(k)
    /\ UNCHANGED <<writes, attempted, again>>

(* A write that fails or is denied counts like one that succeeds.           *)
WriteFact(k) ==
    /\ writes < CapWrite
    /\ consent # "ask"
    /\ writes' = writes + 1
    /\ noted' = noted \cup {k}
    /\ attempted' = attempted \cup {k}
    /\ again' = (again \/ k \in attempted)
    /\ NextStep(k)

(* k is passed over where there is nothing to say of it: no repository, no  *)
(* text in the prompt, no tool to look with.                                *)
Fact(k) ==
    /\ step = k
    /\ \/ PassFact(k)
       \/ k \notin noted /\ (LimitFact(k) \/ AskFact(k) \/ WriteFact(k))
    /\ UNCHANGED <<looked, searches, fetches, settings, requests>>

RepoFact        == Fact("repo")
IntentFact      == Fact("intent")
TreeFact        == Fact("tree")
SignalsFact     == Fact("signals")
EntrypointsFact == Fact("entrypoints")
CommandsFact    == Fact("commands")

-----------------------------------------------------------------------------
(* The prompt is looked up.                                                 *)

(* kb_fetch of the first hit; an error is not counted.                      *)
FetchTop(hits) ==
    \/ UNCHANGED fetches
    \/ hits /\ fetches < CapFetch /\ fetches' = fetches + 1

(* The same prompt is not looked up again in the run. *)
SkipSearch ==
    /\ step = "search"
    /\ looked
    /\ step' = "ask"
    /\ UNCHANGED <<turnNo, noted, looked, counters, settings, attempted, again, requests>>

(* kb_search in the branch's namespace; without a hit, and with another     *)
(* default branch, in that one's.  It is the run's first: the cap that the  *)
(* code asks about here cannot be reached.                                  *)
AutoKbSearch ==
    /\ step = "search"
    /\ ~looked
    /\ looked' = TRUE
    /\ searches' = searches + 1
    /\ \E hits \in BOOLEAN :
        /\ FetchTop(hits)
        /\ step' \in (IF hits THEN {"ask"} ELSE {"ask", "fallback"})
    /\ UNCHANGED <<turnNo, noted, writes, settings, attempted, again, requests>>

LimitFallback ==
    /\ step = "fallback"
    /\ searches >= capSearch
    /\ NextTurn
    /\ UNCHANGED <<noted, looked, counters, settings, attempted, again, requests>>

AutoFallback ==
    /\ step = "fallback"
    /\ searches < capSearch
    /\ searches' = searches + 1
    /\ \E hits \in BOOLEAN : FetchTop(hits)
    /\ step' = "ask"
    /\ UNCHANGED <<turnNo, noted, looked, writes, settings, attempted, again, requests>>

-----------------------------------------------------------------------------
(* The request.                                                             *)

(* The model asks for tools; their batch is run, and the turn is over.      *)
AskForTools ==
    /\ step = "ask"
    /\ requests' = requests + 1
    /\ NextTurn
    /\ UNCHANGED <<noted, looked, counters, settings, attempted, again>>

(* The model answers with text; the outcome is noted and the run is over.   *)
AskForText ==
    /\ step = "ask"
    /\ requests' = requests + 1
    /\ writes' = IF writes < CapWrite /\ consent # "ask" THEN writes + 1 ELSE writes
    /\ step' = "off"
    /\ UNCHANGED <<turnNo, noted, looked, searches, fetches, settings, attempted, again>>

AutoNext ==
    \/ StartAutoRun
    \/ StopAutoRun
    \/ RepoFact
    \/ IntentFact
    \/ TreeFact
    \/ SignalsFact
    \/ EntrypointsFact
    \/ CommandsFact
    \/ SkipSearch
    \/ AutoKbSearch
    \/ LimitFallback
    \/ AutoFallback
    \/ AskForTools
    \/ AskForText

AutoSpec == AutoInit /\ [][AutoNext]_autoVars

-----------------------------------------------------------------------------
(* Properties.                                                              *)

(* However tight the caps, and though a limited call may use up its turn,   *)
(* a run makes no more calls than they allow, tries no fact twice, and      *)
(* spends at most four of its turns without a request to the model.         *)
BookkeepingIsBounded ==
    /\ writes <= CapWrite /\ searches <= capSearch /\ fetches <= CapFetch
    /\ ~again
    /\ turnNo <= requests + Cardinality(Insistent) + 1

=============================================================================
