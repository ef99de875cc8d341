------------------------------- MODULE MCParts -------------------------------
(* The parts that are checked without fairness.  They share no state: each   *)
(* behaviour is one part's, with the state of the others at rest.            *)
EXTENDS Supervisor, TraceStore, KnowledgeBase, PermMode, Mailbox, LinkClaims, InlinePag,
        FileTools, ShellSession, ContextWindow, AutoMemory, VerifyGate, TuiContexts, SectionRemap

CONSTANTS alpha, beta, alphaSock, betaSock, reader, handler

OwnSockets == [c \in Chats |-> IF c = alpha THEN alphaSock ELSE betaSock]

(* The thread that reads the commands has two rows, another one.            *)
RowsOf == [t \in Threads |-> IF t = reader THEN 2 ELSE 1]

(* A chat's shell has the name of the chat. *)
ChatKey == [c \in Callers |-> c]

(* The code's windows reach 100, 200 and 500 lines beyond the hint. *)
OneWider == <<1>>

LinkKey(n) == n.name

Caller == [file |-> "f1", name |-> "n1", kind |-> "fn"]

(* A function of f1 calls n2, of either kind, in a file that it names or    *)
(* not; or a node, whose key it knows or not.                               *)
ClaimsMade ==
    {[from |-> Caller, rel |-> "calls", to |-> None, key |-> None,
      target |-> [name |-> "n2", kind |-> k, hint |-> h]] : k \in {"fn", "cls"}, h \in {None, "f2"}}
    \cup {[from |-> Caller, rel |-> "calls", to |-> [file |-> "f2", name |-> "n2", kind |-> "fn"],
            key |-> k, target |-> None] : k \in {None, "n2"}}

VARIABLE part

partsVars == <<supervisionVars, traceVars, kbVars, permVars, mailVars,
               linkVars, pagVars, fileVars, shellVars, windowVars, autoVars, verifyVars, tuiVars,
               remapVars, part>>

PartsInit ==
    /\ part \in {"supervisor", "trace", "facts", "modes", "mail", "links", "index", "files",
                 "shell", "window", "auto", "verify", "tui", "remap"}
    /\ SupervisorInit /\ TraceInit /\ KbInit /\ PermInit /\ MailInit
    /\ LinkInit /\ PagInit /\ FileInit
    /\ ShellInit /\ WindowInit /\ AutoInit /\ VerifyInit /\ TuiInit
    /\ RemapInit
    (* What a part starts with matters to it alone. *)
    /\ part # "supervisor" => systemd
    /\ part # "trace" => long = {}
    /\ part # "links" => cnodes = {}
    /\ part # "shell" => envKey = "c1"
    /\ part # "auto" => consent = "allow" /\ capSearch = 1
    /\ part # "verify" => flake8
    /\ part # "remap" => suffix = "md" /\ hint = NoHint
    /\ part # "index" => tree = [f \in PagFiles |-> 0]

Only(p) ==
    /\ part = p /\ part' = p
    /\ IF p = "supervisor" THEN TRUE ELSE UNCHANGED supervisionVars
    /\ IF p = "trace" THEN TRUE ELSE UNCHANGED traceVars
    /\ IF p = "facts" THEN TRUE ELSE UNCHANGED kbVars
    /\ IF p = "modes" THEN TRUE ELSE UNCHANGED permVars
    /\ IF p = "mail" THEN TRUE ELSE UNCHANGED mailVars
    /\ IF p = "links" THEN TRUE ELSE UNCHANGED linkVars
    /\ IF p = "index" THEN TRUE ELSE UNCHANGED pagVars
    /\ IF p = "files" THEN TRUE ELSE UNCHANGED fileVars
    /\ IF p = "shell" THEN TRUE ELSE UNCHANGED shellVars
    /\ IF p = "window" THEN TRUE ELSE UNCHANGED windowVars
    /\ IF p = "auto" THEN TRUE ELSE UNCHANGED autoVars
    /\ IF p = "verify" THEN TRUE ELSE UNCHANGED verifyVars
    /\ IF p = "tui" THEN TRUE ELSE UNCHANGED tuiVars
    /\ IF p = "remap" THEN TRUE ELSE UNCHANGED remapVars

PartsNext ==
    \/ \E c \in Chats : Only("supervisor") /\ CreateOrGet(c)
    \/ \E c \in Chats : Only("supervisor") /\ StopBroker(c)
    \/ Only("supervisor") /\ ListBrokers
    \/ Only("supervisor") /\ Restart
    \/ \E p \in Pids : Only("supervisor") /\ Unlink(p)
    \/ \E p \in Pids : Only("supervisor") /\ Bind(p)
    \/ \E p \in Pids : Only("supervisor") /\ BindRefused(p)
    \/ \E p \in Pids : Only("supervisor") /\ BrokerDies(p)
    \/ \E t \in Threads : Only("trace") /\ AppendRow(t)
    \/ \E t \in Threads : Only("trace") /\ LineFeed(t)
    \/ \E t \in Threads : Only("trace") /\ Snapshot(t)
    \/ \E t \in Threads : Only("trace") /\ Done(t)
    \/ \E t \in Threads, c \in Clients : Only("trace") /\ Send(t, c)
    \/ \E t \in Threads, c \in Clients : Only("trace") /\ SendRest(t, c)
    \/ \E t \in Threads, c \in Clients : Only("trace") /\ Skip(t, c)
    \/ \E t \in Threads, c \in Clients : Only("trace") /\ SendFails(t, c)
    \/ \E c \in Clients : Only("trace") /\ Subscribe(c)
    \/ \E c \in Clients : Only("trace") /\ ClientReads(c)
    \/ \E c \in Clients : Only("trace") /\ ClientCloses(c)
    \/ Only("trace") /\ Crash
    \/ \E c \in KbClients, f \in Facts, old \in {{}} \cup {{g} : g \in Facts} : Only("facts") /\ ReadForWrite(c, f, old)
    \/ \E c \in KbClients, f \in Facts, to \in Targets : Only("facts") /\ ReadForPromotion(c, f, to)
    \/ \E c \in KbClients : Only("facts") /\ Insert(c)
    \/ \E c \in KbClients : Only("facts") /\ UpdateStatus(c)
    \/ \E c \in KbClients : Only("facts") /\ ReadAudit(c)
    \/ \E c \in KbClients : Only("facts") /\ AppendAudit(c)
    \/ \E c \in KbClients : Only("facts") /\ ReadDeprecated(c)
    \/ \E c \in KbClients : Only("facts") /\ CloseDeprecated(c)
    \/ \E c \in KbClients : Only("facts") /\ RebuildIndex(c)
    \/ \E c \in PermChats : Only("modes") /\ StartForced(c)
    \/ \E c \in PermChats : Only("modes") /\ StartPermTurn(c)
    \/ \E c \in PermChats : Only("modes") /\ ClassifierFails(c)
    \/ \E c \in PermChats : Only("modes") /\ ClassifierDecides(c)
    \/ \E c \in PermChats : Only("modes") /\ ClassifierAsks(c)
    \/ \E c \in PermChats : Only("modes") /\ UserChooses(c)
    \/ \E c \in PermChats : Only("modes") /\ RememberAlways(c)
    \/ \E c \in PermChats : Only("modes") /\ EndPermTurn(c)
    \/ \E c \in MailClients : Only("mail") /\ SendMail(c)
    \/ \E c \in MailClients : Only("mail") /\ MarkRead(c)
    \/ \E c \in MailClients : Only("mail") /\ Lock(c)
    \/ \E c \in MailClients : Only("mail") /\ Load(c)
    \/ \E c \in MailClients : Only("mail") /\ WriteTmp(c)
    \/ \E c \in MailClients : Only("mail") /\ Replace(c)
    \/ \E c \in MailClients : Only("mail") /\ Unlock(c)
    \/ \E c \in MailClients : Only("mail") /\ ClientDies(c)
    \/ Only("links") /\ StartApply
    \/ Only("links") /\ WriteClaimed
    \/ Only("links") /\ Scan
    \/ Only("links") /\ WriteFound
    \/ Only("links") /\ DeleteRow
    \/ Only("links") /\ ResolverDies
    \/ \E c \in LinkClaim : Only("links") /\ TakeClaim(c)
    \/ \E c \in LinkClaim : Only("links") /\ ClaimAtOnce(c)
    \/ \E f \in Files : Only("links") /\ RemapFile(f)
    \/ \E f \in Files : Only("links") /\ DropSymbols(f)
    \/ \E n \in Symbols : Only("links") /\ PutSymbol(n)
    \/ Only("index") /\ StartIndexing
    \/ Only("index") /\ Walk
    \/ Only("index") /\ ReadNext
    \/ Only("index") /\ UpsertFileNode
    \/ Only("index") /\ NextPhase
    \/ Only("index") /\ UpsertTreeEdge
    \/ Only("index") /\ UpsertSection
    \/ Only("index") /\ IndexerDies
    \/ Only("index") /\ Ask
    \/ \E f \in PagFiles : Only("index") /\ ChangeFile(f)
    \/ \E f \in PagFiles : Only("index") /\ TellOfFile(f)
    \/ \E t \in Talks, f \in TextFiles :
        \/ Only("files") /\ StatFile(t, f)
        \/ Only("files") /\ OpenToWrite(t, f)
        \/ Only("files") /\ ReadToPatch(t, f)
    \/ \E t \in Talks :
        \/ Only("files") /\ ReadBody(t)
        \/ Only("files") /\ KeepRead(t)
        \/ Only("files") /\ WriteText(t)
        \/ Only("files") /\ WriteTemp(t)
        \/ Only("files") /\ ReplaceFile(t)
    \/ \E f \in TextFiles : Only("files") /\ OthersChange(f)
    \/ \E f \in TextFiles : Only("files") /\ OthersRemove(f)
    \/ Only("window") /\ UserPrompt
    \/ Only("window") /\ StopRun
    \/ Only("window") /\ AppendToolResults
    \/ Only("window") /\ AskApproval
    \/ Only("window") /\ Rerun
    \/ Only("window") /\ BeginWindowTurn
    \/ Only("window") /\ AutoSearch
    \/ Only("window") /\ ModelSays
    \/ \E kinds \in Batches : Only("window") /\ ModelAsksFor(kinds)
    \/ \E kinds \in Batches : Only("window") /\ ModelRepeats(kinds)
    \/ Only("auto") /\ StartAutoRun
    \/ Only("auto") /\ StopAutoRun
    \/ Only("auto") /\ RepoFact
    \/ Only("auto") /\ IntentFact
    \/ Only("auto") /\ TreeFact
    \/ Only("auto") /\ SignalsFact
    \/ Only("auto") /\ EntrypointsFact
    \/ Only("auto") /\ CommandsFact
    \/ Only("auto") /\ SkipSearch
    \/ Only("auto") /\ AutoKbSearch
    \/ Only("auto") /\ LimitFallback
    \/ Only("auto") /\ AutoFallback
    \/ Only("auto") /\ AskForTools
    \/ Only("auto") /\ AskForText
    \/ \E k \in TaskKinds : Only("verify") /\ TakeTask(k)
    \/ \E f \in Python \cup OtherFiles : Only("verify") /\ WriteSource(f)
    \/ Only("verify") /\ EndExecute
    \/ Only("verify") /\ EndRepair
    \/ Only("verify") /\ SkipChecks
    \/ Only("verify") /\ RunChecks
    \/ Only("tui") /\ SubmitPrompt
    \/ Only("tui") /\ PickChat
    \/ Only("tui") /\ BeginRun
    \/ Only("tui") /\ ShowResult
    \/ Only("tui") /\ EndSave
    \/ Only("tui") /\ Killed
    \/ Only("tui") /\ StartTui
    \/ \E r \in Outcomes : Only("tui") /\ EndRun(r)
    \/ \E c \in Contexts : Only("tui") /\ SwitchTo(c)
    \/ \E c \in Contexts : Only("tui") /\ NewContext(c)
    \/ \E c \in Contexts : Only("tui") /\ RenameActive(c)
    \/ \E next \in {"saving", "leaving"} : Only("tui") /\ BeginSave(next)
    \/ \E parses \in BOOLEAN : Only("remap") /\ Remap(parses)
    \/ \E i \in 1 .. MaxLines, form \in AllForms : Only("remap") /\ InsertLine(i, form)
    \/ \E i \in 1 .. MaxLines : Only("remap") /\ DeleteLine(i)
    \/ \E c \in Callers :
        \/ Only("shell") /\ BeginTurn(c)
        (* The callers are alike. *)
        \/ Only("shell") /\ (kind = <<>> => c = "c1") /\ CallShell(c)
        \/ Only("shell") /\ ResetShell(c)
        \/ Only("shell") /\ Lookup(c)
        \/ Only("shell") /\ StartBash(c)
        \/ Only("shell") /\ WriteScript(c)
        \/ Only("shell") /\ RefuseCall(c)
        \/ Only("shell") /\ GiveUp(c)
        \/ Only("shell") /\ ReadLine(c)
        \/ Only("shell") /\ ReadEnd(c)
        \/ Only("shell") /\ Expire(c)
    \/ \E h \in Handles :
        \/ Only("shell") /\ TakeCommand(h)
        \/ Only("shell") /\ EchoMarker(h)
        \/ Only("shell") /\ PrintLine(h)
        \/ Only("shell") /\ EndJob(h)
        \/ Only("shell") /\ LateLine(h)

PartsSpec == PartsInit /\ [][PartsNext]_partsVars

=============================================================================
