---------------------------- MODULE TuiContexts -----------------------------
(***************************************************************************)
(* The terminal chat: named contexts, each a conversation with its project *)
(* root and its token count, one of them active; a turn runs in a thread   *)
(* while keys still switch contexts; all of it is saved in one file        *)
(* (tui_app.py, tui_context_manager.py, tui_chat_controller.py,            *)
(* tui_context_persistence.py).                                            *)
(***************************************************************************)
EXTENDS Naturals, Sequences, FiniteSets, Selection

CONSTANTS
    Contexts,      \* names of contexts
    DefaultContext,
    MaxTuiTurns,   \* prompts
    MaxTuiOps      \* other commands and keys, and exits

ASSUME TuiAssumption ==
    /\ DefaultContext \in Contexts
    /\ {MaxTuiTurns, MaxTuiOps} \subseteq Nat

VARIABLES
    chats,     \* the contexts there are, with their messages
    usage,     \* their token counts, in turns
    active,
    tuiTurn,   \* the turn in progress
    app,       \* "up", "saving", "leaving" (saving before the exit), "down"
    stateFile, \* state.json
    tuiTurns, tuiOps

tuiVars == <<chats, usage, active, tuiTurn, app, stateFile, tuiTurns, tuiOps>>

NoTuiTurn == [st |-> "none"]
NoFile == [st |-> "missing"]
Fresh  == [c \in {DefaultContext} |-> <<>>]

TuiInit ==
    /\ chats = Fresh /\ usage = [c \in {DefaultContext} |-> 0] /\ active = DefaultContext
    /\ tuiTurn = NoTuiTurn /\ app = "up" /\ stateFile = NoFile
    /\ tuiTurns = 0 /\ tuiOps = 0

-----------------------------------------------------------------------------
(* A turn: the input is disabled until it is over.                          *)

AtPrompt == app = "up" /\ tuiTurn = NoTuiTurn

SubmitPrompt ==
    /\ AtPrompt /\ tuiTurns < MaxTuiTurns
    /\ tuiTurns' = tuiTurns + 1
    /\ tuiTurn' = [st |-> "submitted", n |-> tuiTurns + 1]
    /\ UNCHANGED <<chats, usage, active, app, stateFile, tuiOps>>

(* The thread takes the context that is active when it gets to it ...      *)
PickChat ==
    /\ tuiTurn.st = "submitted"
    /\ tuiTurn' = [st |-> "picked", n |-> tuiTurn.n, chat |-> active]
    /\ UNCHANGED <<chats, usage, active, app, stateFile, tuiTurns, tuiOps>>

(* ... and then the project root of the one that is active by then.        *)
BeginRun ==
    /\ tuiTurn.st = "picked"
    /\ chats' = [chats EXCEPT ![tuiTurn.chat] = Append(@, [who |-> "user", n |-> tuiTurn.n])]
    /\ tuiTurn' = [st |-> "running", n |-> tuiTurn.n, chat |-> tuiTurn.chat, root |-> active,
                base |-> chats'[tuiTurn.chat]]
    /\ UNCHANGED <<usage, active, app, stateFile, tuiTurns, tuiOps>>

(* "cut" is an error after tools were called; a thread that raises ends    *)
(* the turn like any other.                                                *)
Outcomes == {"answer", "worked", "error", "cut", "raises"}

(* What the run adds: the answer, after the tools that it called.          *)
Said(result) ==
    LET row(who) == <<[who |-> who, n |-> tuiTurn.n]>>
    IN  (IF result \in {"worked", "cut"} THEN row("tools") ELSE <<>>)
        \o (IF result \in {"answer", "worked"} THEN row("model") ELSE <<>>)

(* Mutant of EndRun: the outcome goes to the chat on the screen.           *)
EndRun_OnScreen(result) ==
    /\ tuiTurn.st = "running"
    /\ chats' = IF result = "raises" THEN chats
                ELSE [chats EXCEPT ![active] = tuiTurn.base \o Said(result)]
    /\ tuiTurn' = [st |-> "ended", n |-> tuiTurn.n, spent |-> result \in {"answer", "worked"}]
    /\ UNCHANGED <<usage, active, app, stateFile, tuiTurns, tuiOps>>

(* The messages of the outcome replace the chat's; a provider that cannot  *)
(* be built, or a tool that is not known, raises and leaves the prompt.    *)
EndRun(result) ==
    /\ tuiTurn.st = "running"
    /\ chats' = IF result = "raises" THEN chats
                ELSE [chats EXCEPT ![tuiTurn.chat] = tuiTurn.base \o Said(result)]
    /\ tuiTurn' = [st |-> "ended", n |-> tuiTurn.n, spent |-> result \in {"answer", "worked"}]
    /\ UNCHANGED <<usage, active, app, stateFile, tuiTurns, tuiOps>>

Counted == IF tuiTurn.spent THEN [usage EXCEPT ![active] = @ + 1] ELSE usage

(* The result is shown, and counted for the context on the screen.         *)
ShowResult ==
    /\ tuiTurn.st = "ended" /\ app = "up"
    /\ usage' = Counted
    /\ tuiTurn' = NoTuiTurn
    /\ UNCHANGED <<chats, active, app, stateFile, tuiTurns, tuiOps>>

-----------------------------------------------------------------------------
(* Contexts.                                                                *)

Op == tuiOps < MaxTuiOps /\ tuiOps' = tuiOps + 1

Select(c) == c \in DOMAIN chats /\ active' = c

(* Keys work during a turn, too.                                           *)
SwitchTo(c) ==
    /\ app = "up" /\ Op
    /\ c # active /\ Select(c)
    /\ UNCHANGED <<chats, usage, tuiTurn, app, stateFile, tuiTurns>>

NewContext(c) ==
    /\ AtPrompt /\ Op
    /\ c \notin DOMAIN chats
    /\ chats' = [d \in DOMAIN chats \cup {c} |-> IF d = c THEN <<>> ELSE chats[d]]
    /\ usage' = [d \in DOMAIN chats \cup {c} |-> IF d = c THEN 0 ELSE usage[d]]
    /\ UNCHANGED <<active, tuiTurn, app, stateFile, tuiTurns>>

Renamed(f, c) ==
    [d \in (DOMAIN f \ {active}) \cup {c} |-> IF d = c THEN f[active] ELSE f[d]]

RenameActive(c) ==
    /\ AtPrompt /\ Op
    /\ c \notin DOMAIN chats
    /\ chats' = Renamed(chats, c) /\ usage' = Renamed(usage, c)
    /\ active' = c
    /\ UNCHANGED <<tuiTurn, app, stateFile, tuiTurns>>

-----------------------------------------------------------------------------
(* The file.                                                                *)

Payload == [st |-> "torn", chats |-> chats, usage |-> usage, active |-> active]

(* "/ctx save" at the prompt; leaving, at any time. What there is is       *)
(* gathered, and the file is torn until all of it is written.              *)
BeginSave(next) ==
    /\ app = "up" /\ Op
    /\ next = "saving" => tuiTurn = NoTuiTurn
    /\ app' = next
    /\ stateFile' = Payload
    /\ UNCHANGED <<chats, usage, active, tuiTurn, tuiTurns>>

(* A turn that is not over ends unseen.                                    *)
EndSave ==
    /\ app \in {"saving", "leaving"}
    /\ stateFile' = [stateFile EXCEPT !.st = "whole"]
    /\ app' = IF app = "saving" THEN "up" ELSE "down"
    /\ tuiTurn' = IF app = "saving" THEN tuiTurn ELSE NoTuiTurn
    /\ UNCHANGED <<chats, usage, active, tuiTurns, tuiOps>>

Killed ==
    /\ app # "down" /\ Op
    /\ app' = "down" /\ tuiTurn' = NoTuiTurn
    /\ UNCHANGED <<chats, usage, active, stateFile, tuiTurns>>

(* The calls of tools are not saved, so their replies are left out.        *)
Restored(ms) == Selected(ms, {i \in 1..Len(ms) : ms[i].who # "tools"})

(* A file that is missing or torn is as good as none.                      *)
StartTui ==
    /\ app = "down"
    /\ app' = "up"
    /\ IF stateFile.st # "whole"
       THEN chats' = Fresh /\ usage' = [c \in {DefaultContext} |-> 0] /\ active' = DefaultContext
       ELSE chats' = [c \in DOMAIN stateFile.chats |-> Restored(stateFile.chats[c])] /\ usage' = stateFile.usage /\ active' = stateFile.active
    /\ UNCHANGED <<tuiTurn, stateFile, tuiTurns, tuiOps>>

TuiNext ==
    \/ SubmitPrompt \/ PickChat \/ BeginRun \/ ShowResult \/ EndSave \/ Killed \/ StartTui
    \/ \E r \in Outcomes : EndRun(r)
    \/ \E c \in Contexts : SwitchTo(c) \/ NewContext(c) \/ RenameActive(c)
    \/ \E next \in {"saving", "leaving"} : BeginSave(next)

TuiSpec == TuiInit /\ [][TuiNext]_tuiVars

-----------------------------------------------------------------------------

(* However contexts are switched, renamed and restored, a prompt stands in *)
(* one conversation only, what its run said right after it, and prompts in *)
(* the order they were given.                                              *)
ConversationsAreApart ==
    /\ \A c \in DOMAIN chats : \A i \in DOMAIN chats[c] :
          /\ chats[c][i].who # "user" =>
                /\ i > 1 /\ chats[c][i - 1].n = chats[c][i].n
                /\ chats[c][i - 1].who \in {"user", "tools"}
          /\ i > 1 => chats[c][i - 1].n <= chats[c][i].n
    /\ \A c, d \in DOMAIN chats : c # d =>
          \A i \in DOMAIN chats[c], j \in DOMAIN chats[d] : chats[c][i].n # chats[d][j].n

=============================================================================
