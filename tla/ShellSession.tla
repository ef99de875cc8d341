---------------------------- MODULE ShellSession ----------------------------
(***************************************************************************)
(* run_shell_session and shell_reset: long-lived bash processes behind     *)
(* pipes (shell_session.py, bash_tools.py).                                *)
(*                                                                         *)
(* Callers are threads of one process, as the sessions of the web chat     *)
(* are; each tells the tools its session by a variable of the process's    *)
(* environment, so a call can land in the session of another.  Two calls   *)
(* can be in one session at once; a line of its pipe then goes to either.  *)
(* A command is known by what it does to its pipes.  Numbers of commands,  *)
(* captured bytes and spill files are left out.                            *)
(***************************************************************************)
EXTENDS Naturals, Sequences, FiniteSets

CONSTANTS
    Callers,
    OwnKey,        \* the session key each caller asks for
    MaxSessions,
    MaxHandles,    \* bound: bash processes
    MaxCommands,   \* bound: commands
    MaxPipe,       \* bound: lines in a pipe
    Kinds          \* what a command may be like

Keys == {OwnKey[c] : c \in Callers}

(* line: one line of output.  bare: output that does not end its line.      *)
(* silent, chatty: never ends, without output or with.  eater: reads a line *)
(* of its input.  background: leaves a process that writes a line later.    *)
(* exit: ends the shell.  multiline: is refused.                            *)
ASSUME ShellAssumption ==
    /\ OwnKey \in [Callers -> Keys]
    /\ {MaxSessions, MaxHandles, MaxCommands, MaxPipe} \subseteq Nat \ {0}
    /\ Kinds \subseteq {"line", "bare", "silent", "chatty", "eater", "background", "exit", "multiline"}

VARIABLES
    envKey,    \* AILIT_SHELL_SESSION_KEY
    sessions,  \* _sessions: the handle of each key, 0 without one
    byUse,     \* the handles, the one used longest ago first
    bash,      \* every bash process
    kind,      \* of every command
    call,      \* the call each caller is in; foreign: history, lines of others it has read
    crowded    \* history: the callers that have not had their bash to themselves

shellVars == <<envKey, sessions, byUse, bash, kind, call, crowded>>

Handles == 1..MaxHandles
Runs == 1..MaxCommands

NoProc == [st |-> "none", stdin |-> <<>>, job |-> 0, late |-> 0, pipe |-> <<>>, partial |-> FALSE]
NoShellCall == [pc |-> "idle", key |-> "", run |-> 0, h |-> 0, over |-> FALSE, foreign |-> {}]

Token == [run : Runs, mark : BOOLEAN, glued : BOOLEAN]

ShellTypeOK ==
    /\ envKey \in Keys
    /\ sessions \in [Keys -> 0..MaxHandles]
    /\ byUse \in Seq(Handles)
    /\ bash \in [Handles -> [st : {"none", "live", "dead"}, stdin : Seq({"cmd", "mark"} \X Runs),
                             job : 0..MaxCommands, late : 0..MaxCommands, pipe : Seq(Token), partial : BOOLEAN]]
    /\ kind \in Seq(Kinds)
    /\ call \in [Callers -> [pc : {"idle", "lookup", "spawn", "write", "readline", "late"},
                             key : Keys \cup {""}, run : 0..MaxCommands, h : 0..MaxHandles,
                             over : BOOLEAN, foreign : SUBSET Token]]
    /\ crowded \subseteq Callers

ShellInit ==
    /\ envKey \in Keys
    /\ sessions = [k \in Keys |-> 0]
    /\ byUse = <<>>
    /\ bash = [h \in Handles |-> NoProc]
    /\ kind = <<>>
    /\ call = [c \in Callers |-> NoShellCall]
    /\ crowded = {}

-----------------------------------------------------------------------------
(* Handles.                                                                 *)

Lives(h) == h # 0 /\ bash[h].st = "live"

(* kill() ends bash; what it runs goes on and keeps the pipe open.          *)
Disposed(procs, hs) ==
    [h \in Handles |-> IF h \in hs /\ procs[h].st = "live"
                       THEN [procs[h] EXCEPT !.st = "dead", !.stdin = <<>>] ELSE procs[h]]

Mapped == {sessions[k] : k \in Keys} \ {0}

Without(hs) == [k \in Keys |-> IF sessions[k] \in hs THEN 0 ELSE sessions[k]]

(* The mapped handles, the one used longest ago first.                      *)
ByAge == SelectSeq(byUse, LAMBDA h : h \in Mapped)

Used(h) == Append(SelectSeq(byUse, LAMBDA g : g # h), h)

-----------------------------------------------------------------------------
(* A call.                                                                  *)

Go(c, pc) == call' = [call EXCEPT ![c].pc = pc]

ReturnCall(c) ==
    /\ call' = [call EXCEPT ![c] = NoShellCall]
    /\ crowded' = crowded \ {c}

HasSent(c) == call[c].pc \in {"readline", "late"}

(* The other calls whose commands the bash of c has been given.             *)
Beside(c) == {d \in Callers \ {c} : HasSent(d) /\ call[d].h = call[c].h}

(* A turn of the chat begins by setting the variable for the process.       *)
BeginTurn(c) ==
    /\ call[c].pc = "idle"
    /\ envKey' = OwnKey[c]
    /\ UNCHANGED <<sessions, byUse, bash, kind, call, crowded>>

(* builtin_run_shell_session: the session is the one the environment names. *)
CallShell(c) ==
    /\ call[c].pc = "idle"
    /\ Len(kind) < MaxCommands
    /\ \E k \in Kinds : kind' = Append(kind, k)
    /\ call' = [call EXCEPT ![c] = [NoShellCall EXCEPT !.pc = "lookup", !.key = envKey, !.run = Len(kind')]]
    /\ UNCHANGED <<envKey, sessions, byUse, bash, crowded>>

(* builtin_shell_reset *)
ResetShell(c) ==
    /\ call[c].pc = "idle"
    /\ sessions' = [sessions EXCEPT ![envKey] = 0]
    /\ bash' = Disposed(bash, {sessions[envKey]})
    /\ UNCHANGED <<envKey, byUse, kind, call, crowded>>

(* get_or_create: dead sessions go, and those that have been idle for too   *)
(* long - a command that runs counts from its start - and, with the map     *)
(* full, the one used longest ago.                                          *)
Lookup(c) ==
    /\ call[c].pc = "lookup"
    /\ \E n \in 0..Len(ByAge) :
        LET idle   == {ByAge[i] : i \in 1..n} \cup {h \in Mapped : ~Lives(h)}
            kept   == Mapped \ idle
            own    == sessions[call[c].key]
            oldest == SelectSeq(ByAge, LAMBDA h : h \in kept)
            evict  == IF own \notin kept /\ Cardinality(kept) >= MaxSessions /\ oldest # <<>>
                      THEN {Head(oldest)} ELSE {}
        IN  /\ bash' = Disposed(bash, idle \cup evict)
            /\ sessions' = Without(idle \cup evict)
            /\ call' = [call EXCEPT ![c].pc = IF own \in kept THEN "write" ELSE "spawn",
                                    ![c].h = IF own \in kept THEN own ELSE 0]
    /\ UNCHANGED <<envKey, byUse, kind, crowded>>

(* BashSessionHandle() *)
StartBash(c) ==
    /\ call[c].pc = "spawn"
    /\ \E h \in Handles :
        /\ bash[h].st = "none"
        /\ \A g \in 1..h - 1 : bash[g].st # "none"
        /\ bash' = [bash EXCEPT ![h].st = "live"]
        /\ sessions' = [sessions EXCEPT ![call[c].key] = h]
        /\ byUse' = Used(h)
        /\ call' = [call EXCEPT ![c].pc = "write", ![c].h = h]
    /\ UNCHANGED <<envKey, kind, crowded>>

(* run: the command and, in the same write, the echo of its marker.  The    *)
(* call may have been cancelled already.                                    *)
WriteScript(c) ==
    /\ call[c].pc = "write"
    /\ Lives(call[c].h)
    /\ kind[call[c].run] # "multiline"
    /\ bash' = [bash EXCEPT ![call[c].h].stdin = @ \o <<<<"cmd", call[c].run>>, <<"mark", call[c].run>>>>]
    /\ byUse' = Used(call[c].h)
    /\ Go(c, "readline") \/ Go(c, "late")
    /\ crowded' = IF Beside(c) = {} THEN crowded ELSE crowded \cup Beside(c) \cup {c}
    /\ UNCHANGED <<envKey, sessions, kind>>

RefuseCall(c) ==
    /\ call[c].pc = "write"
    /\ ~Lives(call[c].h) \/ kind[call[c].run] = "multiline"
    /\ ReturnCall(c)
    /\ UNCHANGED <<envKey, sessions, byUse, bash, kind>>

(* Mutant: a command that ran out of time is left in its session. *)
GiveUp_KeepShell(c) ==
    /\ call[c].pc = "late"
    /\ ReturnCall(c)
    /\ UNCHANGED <<envKey, sessions, byUse, bash, kind>>

GiveUp(c) ==
    /\ call[c].pc = "late"
    /\ bash' = Disposed(bash, {call[c].h})
    /\ ReturnCall(c)
    /\ UNCHANGED <<envKey, sessions, byUse, kind>>

(* readline() blocks until there is a whole line or nobody is left to       *)
(* write.  Before the next one: has the call been cancelled, is its time up? *)
EndsRun(c, line) == line.mark /\ line.run = call[c].run /\ ~line.glued

OwnLines(run) == {line \in Token : line.run = run}

ReadLine(c) ==
    LET h == call[c].h IN
    /\ call[c].pc = "readline"
    /\ bash[h].pipe # <<>>
    /\ bash' = [bash EXCEPT ![h].pipe = Tail(@)]
    /\ IF EndsRun(c, Head(bash[h].pipe)) THEN ReturnCall(c)
       ELSE /\ call' = [call EXCEPT ![c].pc = IF call[c].over THEN "late" ELSE "readline",
                                    ![c].foreign = @ \cup ({Head(bash[h].pipe)} \ OwnLines(call[c].run))]
            /\ UNCHANGED crowded
    /\ UNCHANGED <<envKey, sessions, byUse, kind>>

ReadEnd(c) ==
    LET p == bash[call[c].h] IN
    /\ call[c].pc = "readline"
    /\ p.pipe = <<>> /\ p.st = "dead" /\ p.job = 0 /\ p.late = 0
    /\ ReturnCall(c)
    /\ UNCHANGED <<envKey, sessions, byUse, bash, kind>>

(* The time is up, or the user cancels. *)
Expire(c) ==
    /\ call[c].pc = "readline"
    /\ ~call[c].over
    /\ call' = [call EXCEPT ![c].over = TRUE]
    /\ UNCHANGED <<envKey, sessions, byUse, bash, kind, crowded>>

-----------------------------------------------------------------------------
(* Bash.                                                                    *)

bashUnchanged == <<envKey, sessions, byUse, kind, call, crowded>>

NextLine(h) ==
    /\ bash[h].st = "live"
    /\ bash[h].job = 0
    /\ bash[h].stdin # <<>>

TakeCommand(h) ==
    LET run == Head(bash[h].stdin)[2] IN
    /\ NextLine(h)
    /\ Head(bash[h].stdin)[1] = "cmd"
    /\ bash' = IF kind[run] = "exit" THEN [bash EXCEPT ![h].st = "dead", ![h].stdin = <<>>]
               ELSE [bash EXCEPT ![h].job = run, ![h].stdin = Tail(@)]
    /\ UNCHANGED bashUnchanged

EchoMarker(h) ==
    /\ NextLine(h)
    /\ Head(bash[h].stdin)[1] = "mark"
    /\ Len(bash[h].pipe) < MaxPipe
    /\ bash' = [bash EXCEPT ![h].stdin = Tail(@), ![h].partial = FALSE,
                            ![h].pipe = Append(@, [run   |-> Head(bash[h].stdin)[2], mark |-> TRUE,
                                                   glued |-> bash[h].partial])]
    /\ UNCHANGED bashUnchanged

Line(run, h) == Append(bash[h].pipe, [run |-> run, mark |-> FALSE, glued |-> bash[h].partial])

(* A job writes its line and, unless it is a chatty one, ends.              *)
PrintLine(h) ==
    LET job == bash[h].job IN
    /\ job # 0
    /\ kind[job] \in {"line", "chatty"}
    /\ Len(bash[h].pipe) < MaxPipe
    /\ bash' = [bash EXCEPT ![h].pipe = Line(job, h), ![h].partial = FALSE,
                            ![h].job = IF kind[job] = "chatty" THEN job ELSE 0]
    /\ UNCHANGED bashUnchanged

EndJob(h) ==
    LET job == bash[h].job IN
    /\ job # 0
    /\ kind[job] \in {"bare", "eater", "background"}
    /\ bash' = [bash EXCEPT ![h].job = 0,
                            ![h].partial = @ \/ kind[job] = "bare",
                            ![h].stdin = IF kind[job] = "eater" /\ @ # <<>> THEN Tail(@) ELSE @,
                            ![h].late = IF kind[job] = "background" THEN job ELSE @]
    /\ UNCHANGED bashUnchanged

LateLine(h) ==
    /\ bash[h].late # 0
    /\ Len(bash[h].pipe) < MaxPipe
    /\ bash' = [bash EXCEPT ![h].pipe = Line(bash[h].late, h), ![h].partial = FALSE, ![h].late = 0]
    /\ UNCHANGED bashUnchanged

Bash(h) ==
    \/ TakeCommand(h)
    \/ EchoMarker(h)
    \/ PrintLine(h)
    \/ EndJob(h)
    \/ LateLine(h)

Progress(c) ==
    \/ Lookup(c)
    \/ StartBash(c)
    \/ WriteScript(c)
    \/ RefuseCall(c)
    \/ GiveUp(c)
    \/ ReadLine(c)
    \/ ReadEnd(c)

ShellNext ==
    \/ \E c \in Callers : BeginTurn(c) \/ CallShell(c) \/ ResetShell(c)
    \/ \E c \in Callers : Progress(c) \/ Expire(c)
    \/ \E h \in Handles : Bash(h)

ShellSpec == ShellInit /\ [][ShellNext]_shellVars

(* Threads run, and so does bash. *)
ShellFairSpec ==
    /\ ShellSpec
    /\ \A c \in Callers : WF_shellVars(Progress(c))
    /\ \A h \in Handles : WF_shellVars(Bash(h))

-----------------------------------------------------------------------------
(* Properties.                                                              *)

(* What a call has read was written by its own command or by a process an   *)
(* earlier one left in the background, unless another call's command was    *)
(* given to its bash while it was in it (run, dispose).  So after a         *)
(* timeout, a cancellation or a reset, and even after two calls have been   *)
(* in one bash, nothing of an old command comes up in the next call; while  *)
(* two are in it at once the marker does not keep them apart.               *)
OutputIsOwn ==
    \A c \in Callers \ crowded : \A line \in call[c].foreign : kind[line.run] = "background" /\ ~line.mark

(* "Respects timeout_ms" (bash_tools.py:263): a call whose time is up comes  *)
(* to an end.                                                                *)
TimeoutIsRespected ==
    \A c \in Callers : call[c].over ~> (call[c].pc = "idle")

=============================================================================
