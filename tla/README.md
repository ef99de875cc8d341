# ailit-agent: a TLA+ model of the agent and its runtime

`ailit-agent` is a coding agent made of processes.  A **Desktop** (Electron)
asks a **supervisor** for the broker of a chat; the **broker** of that chat
spawns agent subprocesses, routes requests to them and writes everything that
happens to a **trace**, which the Desktop shows.  The agent the user talks to,
**AgentWork**, runs a session loop over a language model and executes its tool
calls, asking the operator where the permission mode says so, and consults
**AgentMemory**, which keeps a graph of the project (PAG) in SQLite.  A page in
the browser and a terminal application run the same session loop without the
runtime.

The modules here model the processes, their threads and messages, what is done
with the model's tool calls, what the tools and the memory do to files and
databases that others use too, and what the user interfaces make of it.  Paths
below are relative to the root of the repository; `runtime/`, `session/`,
`memory/` and `tool_runtime/` stand for those directories of
`tools/agent_core/`, `ailit/` for `tools/ailit/`.

To check a run: `tlc -config Broker.cfg MCBroker.tla`; to check a proof module:
`tlapm BrokerProofs.tla`.  `PROJECT.json` lists components, runs, mutants,
findings, hazards and theorems, and for every definition the lines of code it
stands for.

Contents: [1 Inventory](#1-inventory) · [2 Plan](#2-plan) ·
[3 Modules and code](#3-modules-and-code) · [4 Runs](#4-runs) ·
[5 Fairness](#5-fairness) · [6 Proofs](#6-proofs) ·
[7 Findings and observations](#7-findings-and-observations) ·
[8 Not modelled](#8-not-modelled)

## 1 Inventory

### 1.1 Components, their state and their operations

| component | state | operations | correct when |
|---|---|---|---|
| Supervisor `runtime/supervisor.py` | `_brokers`: chat → record (pid, state); broker processes; socket files | `create_or_get_broker`, `stop_broker`, `list_brokers`, restart | one live broker per chat; the endpoint it hands out leads to that broker; a crashed broker is replaced |
| Broker `runtime/broker.py` | `_agents`, per agent `_pending` and its pipes, per client a handler thread | receive, ensure/spawn agent, request with timeout, one-way fan-out of topics, reader loop | each client gets the answer to its own request or an error, once; the trace has every exchange, in an order readers can rely on |
| Trace store `runtime/trace_store.py`, `_LiveSubscribers` | JSONL file, sockets of subscribers | append, broadcast, subscribe, read back | what was appended can be read; what was seen live is in the file |
| Desktop session `DesktopSessionContext.tsx`, `main/traceSocketPool.ts` | active chat, endpoint, rows in view, pool of sockets | connect, resubscribe, switch chat, stop agent, rows and channel events | rows and endpoint belong to the chat on screen; history comes back; live rows appear |
| AgentWork process `runtime/subprocess_agents/work_agent.py` | prompt thread, permission gate, approval event | user prompt, permission choice, approval answer, busy refusal | one prompt at a time; the operator's answers reach the prompt they were given to; each prompt ends |
| Session loop `session/loop.py`, `tool_runtime/executor.py`, `approval.py` | message history, open batch, decisions, doom-loop streak | model turn, execute batch, ask, reject, feed back changes | a rejected call runs only under a mode that does not ask; nothing runs twice for no reason; feedback tells the truth |
| Orchestrator `work_orchestrator.py` | changed files, checks | classify, execute, check, repair once | what is claimed of the changed files is so |
| The loop's own knowledge-base calls `session/loop.py` | what was tried in this run, counters | six facts, search, fallback | bounded, nothing tried twice |
| Context `session/context_pager.py`, `tool_output_*.py`, `compaction.py`, `shortlist.py`, ... | messages, pages, files read | append results, prune, cut, select, restore files | no call without its replies; the file read last stays |
| Permission mode `session/perm_turn.py`, `perm_tool_mode.py`, `mode_permission_policy.py` | decisions of the chats of a project | classify, ask, remember | a remembered mode is found; a mode denies no tool it shows |
| AgentMemory `runtime/subprocess_agents/memory_agent.py`, `runtime/agent_memory_*.py` | request queue, query pipeline | query, change feedback, restart | a query ends; its answer does not quote an old text |
| Change feedback `runtime/memory_change_update_service.py` | applied batch ids (in memory) | apply a batch of changed files | what was answered is in the graph |
| PAG store and indexer `memory/sqlite_pag.py`, `pag_indexer.py`, `pag_runtime.py` | nodes, edges, fingerprints, `graph_rev` | upsert, delete, index, sync, slice | an index repairs what was left behind; revisions tell the store |
| Sections of changed files `runtime/memory_c_remap.py` | lines of each section | find it again by name, near its old place, in the whole file | the section found is the one that was lost |
| Link claims `runtime/link_claim_resolver.py` | semantic edges, pending rows | apply claims, resolve pending, remap | a claim put off is not forgotten |
| Desktop graph `loadPagGraphMerged.ts`, `pagGraphSessionStore.ts`, `pagGraphTraceDeltas.ts` | snapshot, known revision, warning | full load by pages, retry, merge and replay of deltas | what was traced is shown; a view without a warning is whole |
| File tools `tool_runtime/builtins.py` | files, what was read, for the process | `read_file`, `write_file`, `apply_patch` | "unchanged" is true |
| Shell `shell_session.py`, `tool_runtime/bash_tools.py` | bash processes behind pipes | run, time out, cancel, reset, evict | output is the command's own; a call ends in its time |
| Knowledge base `memory/sqlite_kb.py`, `kb_tools.py`, `promotion_policy.py` | records, search index | write with predecessor, promote, expire, rebuild | status and validity agree with history |
| Mailbox `ailit/teams/mailbox.py` | inbox files and their lock | append, mark read | no message is lost |
| Chat page `ailit/chat_app.py`, `chat_stop_worker.py` | the script's session, the worker | send, stop, rerun of the script | no turn is lost or counted twice |
| TUI `ailit/tui_*.py` | contexts, the active one, state file | submit, switch, new, rename, save, restore | conversations stay apart |
| Workflow engine, registry, providers, project configuration, reports, views | none, or files of their own | | see section 8 |

### 1.2 How they interact

* Desktop → supervisor: one JSON line per connection; the supervisor serves one
  connection at a time.
* Desktop → broker: one connection and one handler thread per request, and one
  long-lived connection (`subscribe_trace`) per chat for live rows.
* Broker → agent: lines on the agent's stdin, written by handler threads.
  Agent → broker: lines on stdout, read by one reader thread per agent, which
  matches answers to handler threads by `message_id` and publishes events.
* AgentWork → broker → AgentMemory: memory queries and
  `memory.change_feedback`, for whose answers AgentWork waits 15 s.
* AgentWork and AgentMemory both write the PAG store of the project; so do
  `ailit memory index` and the AgentMemory of other chats.
* Everything the broker sees goes to the chat's JSONL file and then to the
  subscribers; the Desktop itself appends a row to the same file when the user
  presses stop.  The Desktop reads the graph through `ailit memory pag-slice`
  and keeps it up to date with the deltas in the trace.
* The chats of one project share its knowledge base, and with it the permission
  modes that are remembered; the conversations of one process share what
  `read_file` remembers, the environment that names the shell's session, and the
  approvals.

### 1.3 What is hard here

Threads of the broker that share `_pending`, the agents' stdin and the trace
file; timeouts that race late answers; agents, brokers and supervisors that die
and leave zombies, orphans and socket files; async flows of the Desktop that
overlap and outlive the chat they were started for; two threads of AgentWork
that hand events to each other with locks released in between; a message history
that is executed again by whatever run of the loop comes next; databases and
files that are read in one transaction and written in another, beside other
processes that do the same and may die in between; a script that is abandoned at
any access to its state.  `PROJECT.json`, "hazards", has 40 of them, each at its
line and with the properties that would catch it.

## 2 Plan

The order is that of importance: first the path of a request and its answer,
then what keeps that path in place, then what is done at the end of it, then the
stores, then the other user interfaces.

| step | modules | state |
|---|---|---|
| 1 | `RequestReply` (abstract), `Broker` (implements it), `BrokerProofs` | done, every safety property and the refinement are proved |
| 2 | `Supervisor`, `RuntimeProofs` | done, every safety property is proved |
| 3 | `TraceStore`, `RuntimeProofs` | done, every safety property is proved |
| 4 | `DesktopSession`, `DesktopProofs` | done, `ScreenIsOwn` is proved |
| 5 | `WorkSession`, `WorkProofs`, with `AutoMemory`, `VerifyGate`, `ContextWindow`, `ModePermission`, `KnowledgeProofs`, `ToolsProofs`, `ContextProofs` | done, every safety property is proved |
| 6 | `AgentWork`, `WorkProofs`, `PermMode`, `KnowledgeProofs` | done, every safety property is proved |
| 7 | `PagStore`, `AgentMemory`, `MemoryProofs` | done but for digests; both invariants are proved |
| 8 | `GraphView`, `DesktopProofs` | done for one session and one namespace; both invariants are proved |
| 9 | `InlinePag`, `LinkClaims`, `SectionRemap`, `KnowledgeProofs` | done, their invariants are proved |
| 10 | `FileTools`, `ShellSession`, `KnowledgeBase`, `Mailbox`, `ToolsProofs`, `KnowledgeProofs`, `RuntimeProofs` | done, their invariants are proved |
| 11 | `ChatTurn`, `WorkProofs`, `TuiContexts`, `ContextProofs` | done, their invariants are proved |
| 12 | compositions of `AgentWork` with `WorkSession` (the prompt thread runs the loop) and of `AgentMemory` with `GraphView` (the deltas of a query in the view) | open |

Every module takes its sets and bounds as CONSTANTS with a named ASSUME, has one
action per operation or per stretch of code between two points where another
actor can get in, and states its invariants as named conjuncts.  No module
declares a RECURSIVE operator.

## 3 Modules and code

Only what the names do not say is told here; the comment at the head of each
module says what it stands for and what it leaves out.

### Broker, RequestReply

`Broker` is one broker with its handler threads, one per request, and per agent
the two pipes, the `_pending` table and the reader thread.

| model | code |
|---|---|
| `proc[a]` | `_agents[a]` and its `Popen.poll()`; a dead agent stays in the table |
| `inbox[a]`, `outbox[a]` | stdin (bounded by `PipeCapacity`) and stdout |
| `pending[a]`, `slot[r]`, `held[a]` | `_pending`, the one-place queue, the queue the reader fetched under the lock and has not put into yet |
| `pc[r]` | where the handler thread is between `handle` and its answer |
| `trace` | the rows `append_trace` wrote |
| `Receive`, `Ensure`, `Register`, `Write`, `WriteFails`, `Wakeup`, `Timeout`, `Pop`, `TraceAnswer` | `handle_request` and `_AgentProcess.request`, cut at the locks, the blocking write, the wait and the trace append |
| `SpawnAll`, `SendOneway`, `Delivered` | `topic.publish`: every agent is spawned and written to |
| `ReadEvent`, `ReadAnswer`, `PutAnswer` | `_read_loop` |
| `AgentAnswer`, `AgentEmit`, `AgentDies` | the agents, as far as the broker can tell |

`RequestReply` is what a client may rely on: a request is opened once, executed
at most once and closed once, and counts as replied only if it was executed.
`Broker` defines `Promise == INSTANCE RequestReply WITH ...`: the status of a
request is read off `pc` and `answer` (`PromisedStatus`), its executions off the
history `servedAt` (`Executions`).

### Supervisor

The registry of the supervisor, the processes it spawned up to the socket each
one serves, and both ways to run it: under systemd, which takes the brokers
along with a restart, or by hand (variable `systemd`, chosen by the initial
states).  A command is one step, since the supervisor serves one connection at a
time.  A broker starts in two, `Unlink` and `Bind`, and may die between them; a
dead child, stopped or crashed, is a zombie until some later `Popen` reaps it
(`Spawn`) or the supervisor itself is gone.  `SocketOf` is a parameter because
the file name is the chat id without its odd characters, and two chats may share
one.

### TraceStore

`append_trace` over any number of threads: file first, then a snapshot of the
subscribers and a send to each.  The unit of writing is a piece: a row that fits
the 8192-byte buffer is one write with its line feed, a longer one (`long`) is
several, with other threads in between, in the file and on a socket.
Subscribers connect, read, close, and are dropped when a send fails or times
out; `Skip` is the writable check that drops a row for a slow reader.  The
broker may `Crash` anywhere.

### DesktopSession

Each call of `connectToBroker`, `resubscribeTrace` and `requestStopAgent` is a
*flow* whose steps are the stretches between two awaits, so flows overlap and
outlive the chat they belong to.  The pool's map (`clients`) and the sockets are
apart, because `close` and `error` handlers remove by chat id whatever socket
the chat has by then.  The user switches or stops at any time; the history
`leftEarly` has the chats that were left while a flow was under way, and what
the screen shows of another chat is of one of these.  Brokers are down,
starting, up or zombies: a crashed one is handed out as running
(`ConnectCreate`) until the supervisor spawns another, which reaps it (`Spawn`).

### GraphView

The store is known by its `log`: `log[r]` is the item whose upsert made the
revision `r`; deletions are not counted, as in the code.  The chat's AgentMemory
publishes a delta after its commit (`Publish`) and may die in between; `Others`
write and delete without publishing anything here.  A full load (`load`) reads
page by page, nodes first, then edges, then the revision, and each page is a
step between which the store changes; the retries run beside the effect's own
load, at most `MaxAtOnce` at a time.  `Own` and `Others` are constants because a
run with both in all items is too large; the configurations differ in them.  One
session and one namespace; of the trace, the row that highlights is left out.
`SilentViewIsWhole` puts in doubt only what was written while a load was under
way and not traced: that can be missing silently.

### WorkSession

What becomes of the model's tool calls over the prompts of a chat.  Of the
message history one fact decides what is done next: which calls of the last
assistant message are unanswered (`open`, and `kept` in the history the chat
session keeps).  Every run of the loop starts by executing that batch
(`FollowUp`); the executor goes through it call by call (`RunTool`, `Deny`,
`Ask`, `Reject`, `Raise`), and the replies are appended together (`Reply`), with
change feedback for the writes.  A run ends in the orchestrator, with at most one
repair.  `DoomLoop` is the third identical batch in a row.  The operator is
`Decide` and `Timeout`.  The policy is a constant, a row for each mode; the history
`taken` has the modes the prompts had so far.

### ContextWindow, AutoMemory, VerifyGate

Three more views of the same loop, each with the state the others do not need.
`ContextWindow` has the messages themselves, as roles, call ids and lengths:
pager, pruning, the budget of a batch, the cut to a tail, the shortlist and the
files put back.  What a filter leaves of a list, here and in `TuiContexts`, is
`Selected` of the module `Selection`.  `AutoMemory` has the calls the loop makes to the knowledge base
by itself, with their caps and flags.  `VerifyGate` is the orchestrator around
the loop: which files were changed, which checks have passed since, and what the
user is told.

### AgentWork

The process of AgentWork: the main thread that reads commands, the thread of a
prompt, the permission gate, the wait for an approval and what the Desktop has
been shown.  `CheckChoice`/`RecordChoice`/`Choose` and
`CheckAnswer`/`Approve`/`Wake` are separate steps because the code releases its
lock between them; the main thread may have an event in hand that nobody waits
on any more.  `calm`, chosen by the initial states, says of a whole behaviour
that no wait runs out, no answer comes before its question is set up and the
process does not die; what a property promises only then says so.

### PermMode, ModePermission

`PermMode` has the rows of decisions that the chats of a project share and a
turn of each chat: what was remembered, else the classifier, else the user, who
may have it remembered.  Rows older than the `PermWindow` newest are left out,
because they are never read.  `ModePermission` is a table of constants: the
tools each mode shows and what its policy says of a call.

### PagStore, AgentMemory

`PagStore` has no state: it is the operations of the store as functions from
store to store, one per SQLite transaction.  A text is named by the version of
the file it was taken from.  `AgentMemory` composes workers (AgentMemory
processes, one request at a time) and authors (the prompt threads that write
files) over one store and one disk; both run the indexer's sync, whose reads and
transactions are steps.  What the planner answers is a choice among the files
the code would accept; the reads of the section lists of several files are one
step (`ListSections`).  A worker that dies is started again, with its memory of
applied batches gone.  `GoOn` is an author that has its answer or has waited for
15 s.  `Init` starts with an empty store or one that `ailit memory index` has
made, whose project node has another name.

### InlinePag, LinkClaims, SectionRemap

`InlinePag` is the store without AgentMemory: a whole index node by node, chats
that change files, tell the store of them and ask for the files to look at, and
an indexer that dies anywhere.  `LinkClaims` is the claims of a remap: edges at
once where the target is known and unique, else a pending row, which every remap
tries again while the indexer deletes and makes symbols.  `SectionRemap` is the
remap of one section: a file is a sequence of lines, of which only matters how
each bears the section's name, edits insert and delete lines, and `Remap` looks
for the section by name, in windows around its old lines, and in the whole file.

### FileTools, ShellSession, KnowledgeBase, Mailbox

Each operation is cut where another process or thread can get in: `read_file`
into stat, read and remember; `write_file` into opening, which truncates, and
writing; `apply_patch` into read, temporary file and replace; a knowledge-base
write into its read and its insert; a mailbox operation into lock, load, write
and replace.  In `FileTools` each change of a file gets a modification time of
its own, which also names its text.  In `ShellSession` a command is known by
what it does to its pipes (`Kinds`), and bash behind the pipe is modelled by how
`shell_session.py` uses it.  Nothing keeps two calls out of one bash; the history
`crowded` has the callers to whose bash another gave a command while they were
in it.  `KbFound` is a search as `kb_search` makes it: the index first, and the
table only where the index has nothing.

### ChatTurn, TuiContexts

`ChatTurn` is the page, a script that runs from the top and is abandoned at any
access to its state (`Touch`), and the worker thread.  Each step of the page is
the stretch between two accesses that matter.  `TuiContexts` is the terminal
application: a turn in a thread, keys that switch, make and rename contexts
meanwhile, the state file and the exits.

### The modules TLC runs

`MCBroker`, `MCSupervisor`, `MCDesktopSession`, `MCWorkSession`,
`MCAgentMemory`, `MCGraphView` and `MCShell` give constants their values.
`MCParts`, `MCWork` and `MCDesktop` put several components into one run.  They
are sums, not compositions: the components in them share no state, a variable
`part` chosen at the start says which one moves, and the others rest.  A
behaviour of the sum is a behaviour of one part, so that a property of a part
holds in the sum if and only if it holds in the part, as long as it holds of the
part at rest.

## 4 Runs

`mutants` in `PROJECT.json` pair every property of every passing run with a
plausible bug (a dropped guard, a swapped order, a missing reset) that makes
that property fail under the same configuration.

| run | instance | distinct states | what it shows |
|---|---|---|---|
| `broker` | either a prompt crosses a publish that spawns and writes to two agents, one of them silent, or two prompts go to one agent, or a stray request comes; pipes of one line, up to 2 events | 257,522 | answers are not mixed up, `_pending` does not leak (one named exception), an answer is in the trace once and after its request, rows of events keep their order and precede the answer, every request ends, and the broker implements `RequestReply` |
| `work` | loop: five calls (three identical notes, a program, a tool that does not exist), batches of 2, three prompts, modes `explore`, `read_plan` and `edit`; threads: two prompts of two calls; page: two prompts, two abandoned scripts | 573,090 | feedback is true, reruns have a reason, what was rejected runs only under a mode that does not ask, prompts end; one prompt at a time, each under its own mode, the operator's answers count; the page loses no turn |
| `desktop` | screen: two chats, two overlapping flows, one switch or stop, at any time, and one crash; graph: a node, a section and their edge, pages of one, two writes, one deletion, one Refresh | 525,742 | endpoint and rows are those of the chat on screen or of one left with a flow under way, history comes back; what was traced is in the graph, and a view without a warning is whole |
| `memory` | one worker, one author, two files, one of whose changes leaves it without a section; one change, two requests | 1,569,822 | no answer quotes what an older text said, no answered batch is lost, requests are got through |
| `parts` | fourteen components, each at a small size (see the bounds) | 815,652 | the safety property of each, with the crashes, second writers and late steps it is exposed to |
| `supervisor_zombie` | one chat, 3 spawns | | **violated**: a crashed broker is not replaced |
| `desktop_live` | one chat, two flows, three sockets | | **violated**: a row between read and subscription never appears |
| `work_given_up` | three identical notes, two prompts | | **violated**: the batch the doom loop gave up on is executed later |
| `memory_paths` | one file, one query | | **violated**: a file just read is without an edge from its project |
| `desktop_switch` | two chats, two flows, one switch | | **violated**: the endpoint of the chat that was left stays on the new one |
| `file_unchanged` | one file, two conversations | | **violated**: a conversation is referred to a result it never had |
| `shell_timeout` | one caller, one command whose output does not end its line | | **violated**: a call waits for a line that never comes, past its time |

A violated run is about one statement of the repository's documents, comments or
tests that the code does not keep; section 7 has the details.

**Bounds.**  Each is a constant whose comment says so.  Two chats, prompts,
clients, threads, conversations or files are what it takes for one to interfere
with another; nothing in the code counts to three except the doom loop, for
which there are three identical calls.

* `broker`: `Meetings` bounds which requests meet in one behaviour, since what a
  prompt and a publish do to each other and what two prompts do to each other are
  different questions; one-line pipes make the full pipe common; two events of
  the prompt's agent, so that order means something.
* `work`: `MaxRuns` bounds how often the hour of an approval runs out; one rerun
  more changes nothing but a counter.  Three prompts, because a call can run a
  second time without a question: one prompt leaves a batch open, the next runs
  it and loses its replies to a tool that does not exist, and the third runs it
  again.  Batches of two are a note and the program, and notes come in the order
  of their ids, which are the provider's to draw.
* `desktop`: one move of the user and one crash, in any order and at any await;
  the chats are alike, so that the first one on screen is always the same.  Pages
  of one item make the two reads of every page loop happen.
* `memory`: a file that changes while a query has its old text needs one change;
  a batch that is sent again needs two requests.
* `parts`: four spawns for two chats each replaced once, and one restart; two
  rows of one thread beside one of another; four operations of the knowledge
  base, which are a write, its successor, a promotion and an expiry; a window as
  large as the number of chats, the least for which the property holds (the code
  has 30); contexts of six messages with a tail of four; five turns under caps of
  two; one session that two callers fight over with a command each, which get
  into one bash or dispose of each other's; the callers are alike, so that the
  first command is always the same one's.  Commands are of three kinds there:
  `line`, `chatty` and `background`.  `shell_timeout` has `bare`; two commands of
  all kinds, and three commands of the kinds `line` and `background` or `line`,
  `bare` and `chatty`, were run apart with the same result.

**Deadlock** is not checked: every one of these systems may come to rest, when
the clients have no further request, the user does nothing or the bounds are
used up.  That nobody waits for ever where it should not is what the liveness
properties say.

**Types.**  Fourteen modules have a type invariant.  Those of `Broker` and
`WorkSession` are theorems, those of `KnowledgeBase` and `PermMode` are part of
the inductive invariants that are proved; TLC finds the others true in the
instances above, where they are not listed because they say nothing of the code.

## 5 Fairness

| module | assumed | why the code justifies it |
|---|---|---|
| `Broker` | handler and reader threads run; agents answer what they read, or die | OS threads; the last point is a condition on agents, and without it the write to a full pipe may block for ever (section 7) |
| `Supervisor` | brokers start up; clients keep asking | the process runs on; the Desktop asks on each connect |
| `DesktopSession` | flows and socket handlers run, brokers that start come up | event loops of renderer and main process; nothing is assumed of the user or of crashes |
| `GraphView` | loads that are under way go on, retries are due | promises and `setInterval`; nothing is assumed of the store, AgentMemory or the user |
| `WorkSession` | the thread goes on (weak); the operator decides if asked again and again (strong) | the loop never sleeps but for the wait of an hour, which asks again; a prompt whose operator never answers is asked for ever |
| `AgentWork` | both threads run, waits run out, the operator answers what is shown | `Event.wait` has timeouts of 600 s and 3600 s |
| `AgentMemory` | the worker runs, unless it dies | an OS process; provider calls have timeouts; nothing is assumed of authors or of a restart |
| `ChatTurn` | the page runs when there is something to do, the worker runs | the page reruns itself every moment while a worker is there |
| `ShellSession` | calls and bash go on | only for the violated run: even so the call never ends |
| the others | none | only safety is stated |

## 6 Proofs

Thirty-eight theorems, for every value of the constants that satisfies the named
ASSUMEs of the module: types, disjointness of sentinels, bounds that are
naturals, and, in `PermMode`, a window at least as large as the number of chats.
Some add a hypothesis, stated in the theorem; the second table says what each
stands for and what becomes of the property without it.

Each invariant below is inductive and contains, or implies, the property it is
for.  It is stated as a conjunction of named parts, next to its theorem.  The
lemmas take the actions one by one, or a kind of step at a time, and the theorem
puts them together.

| theorem | property | argument |
|---|---|---|
| `BrokerProofs!TypeCorrect` | `TypeOK` | inductive as it stands; one lemma for handler threads, one for the agents' side |
| `BrokerProofs!AnswerCorrelation` | `AnswersAreOwn` | that an answered request was executed is not inductive: the answer travels.  `AnswerInv` follows it: every answer line in `outbox`, every request in `held`, every full `slot` and every handler past its wait is for an executed request |
| `BrokerProofs!TableIsInFlight` | `PendingOnlyInFlight` | with `LostIsOver`: only a thread that is done has lost its connection, so the exception cannot come undone |
| `BrokerProofs!Implements` | `KeepsPromise` | the refinement.  `OnceInv`: a request's line is queued at most once, never before its thread has sent it, and while it is unsent or queued it is not executed; so a step that executes finds no earlier execution.  One lemma per kind of step says which step of `RequestReply`, or a stutter, it maps to |
| `BrokerProofs!AnswersAreInTrace` | `AnswersAreDurable` | `DurableInv`: a request row is there from the first step of its thread on, a response row not before its last, and rows are only added at the end |
| `RuntimeProofs!OneBroker` | `OneBrokerPerChat` | `RegistryInv`: every live child is the one its chat's record names as running, so two of one chat are equal, and under systemd every live process is a child |
| `RuntimeProofs!AppendedRowsAreReadable` | `RowsAreReadable` | the file ends in a whole line whenever no write of two pieces is under way, and whole lines stay where they are |
| `WorkProofs!TypeCorrect` | `TypeOK` | split into the loop's state and the histories; the executor's place stays within the batch because every change of the batch resets it |
| `WorkProofs!FeedbackIsTrue` | `ReportedLanded` | with `done \subseteq landed`: a pass only counts calls whose handler succeeded, in whatever pass |
| `WorkProofs!RejectionOutlastsPrompts` | `RejectedRunsOnlyUnasked` | `RulesInv`: the mode of the present prompt is among those `taken`; what ran was allowed by such a mode or is approved, and a call under question is undecided, so that its rejection follows no approval |
| `WorkProofs!OneThread` | `OnePromptAtATime` | only the current prompt's thread is alive, and a new one starts only if it is not |
| `WorkProofs!ModeIsItsOwn` | `OwnMode` | a gate is open only while its thread is there, its thread only while the gate is, and while the main thread carries a choice out it starts no other prompt, so a belated choice finds its own gate cleared but never another one open |
| `KnowledgeProofs!ToldToolsMayRun` | | a case for each mode: what `perm_tool_mode.py` shows, `mode_permission_policy.py` does not deny |
| `KnowledgeProofs!RememberedStays` | `RememberedModeIsFound` | the rows in front of the remembered one were written by turns that were undecided when it was remembered, one for each, since a turn that begins later finds it and writes none; `PermInv`: these rows and the turns still undecided together are fewer than the window.  The lemmas are about cardinalities |
| `ToolsProofs!UnchangedHolds` | `UnchangedIsTrue` | `FileInv`: a modification time, once seen, never comes back with another text, neither in the hand of a reader, nor in what is remembered, nor on disk |
| `KnowledgeProofs!StatusIsTrue` | `StatusTellsTruth` | `KbInv`: what a client has read and is about to write is still there in the table in the sense that matters: a status it will write is not that of a superseded record, and a promotion was of a reviewed one.  That a search finds a superseded record by way of the index only follows from its being closed |
| `BrokerProofs!EventOrder` | `EventsAreOrdered` | the order is that of a line of three places: `stdout` of the agent, the one row in the hand of its reader thread, the trace.  `LineInv`: numbers increase along the line, and an event that stands in it after an answer was emitted after it; `ArrivedInv`: once an answer has left the line, what was emitted before it is traced |
| `RuntimeProofs!EndpointsLeadHome` | `EndpointLeadsHome` | hypothesis `FilesAreApart`; `FilesAreOwn`: a broker that is between unlinking its socket file and binding it is the only live one of that file, so nobody binds what it is about to bind or removes what it has bound |
| `RuntimeProofs!SeenRowsAreDurable` | `SeenIsDurable` | `SentInv`: what is on a subscriber's wire is a row whose append has returned; with `TraceInv` that row is readable in the file |
| `RuntimeProofs!SentMailIsKept` | `MailIsKept` | `MailInv`: only the holder of the lock is past loading; what it is about to write has every sent message once and everything shown marked as read, except for what it has itself not yet done; the message it will report as sent or shown is in its copy |
| `WorkProofs!RerunsAreExplained` | `RerunHasReason` | `RerunInv`: a call of the open batch at or after the executor's place that has run already has its reason now, so the run to come is explained before it happens |
| `WorkProofs!AnswersReachTheirWait` | `AnswersCount` | of calm runs, as the property says.  Three invariants about mail, calls and gates: a command is in one place only, in the inbox, with the main thread or among those done with; in a calm run a call that is shown is the one registered, and its thread is waiting until its answer was carried out; the same for gates |
| `DesktopProofs!ScreenShowsItsChat` | `ScreenIsOwn` | `ScreenInv`: each flow was started for the chat that is active now or for one left early, which it is from the moment of the switch on, and each socket is tagged with an endpoint of such a chat |
| `MemoryProofs!AnswersAreCurrent` | `AnswersUseIndexedText` | hypothesis `OneWorker`; `TextsAreNew`: every section node of a file, and the text in a worker's or an author's hand, is no older than what the query has indexed, except between reading a file and dropping its sections; who writes outside a query reads the file first, and a file's text never gets older |
| `KnowledgeProofs!PutOffStays` | `PutOffIsNotForgotten` | `LinkInv`: while the resolver is at work each row it will delete has its edge in what is to be written, and then in the graph |
| `KnowledgeProofs!NotingStaysSmall` | `BookkeepingIsBounded` | `AutoInv`: turns without a request are at most as many as the insistent facts noted and the one second search; a fact is noted before its call is made |
| `KnowledgeProofs!SectionsAreFoundAgain` | `FoundIsTheSame` | by cases of the lookup: each returns its first candidate, and that the lines before the section are none is what `HomeDefines` says of the section.  The least line that matches is found by well-founded induction on the naturals |
| `ToolsProofs!OnlyOwnOutput` | `OutputIsOwn` | `ShellInv`: two calls that are in one bash know it (`crowded`); a live bash is clean, with nothing but background output in its pipe, or the call that wrote to it last is still in it; a bash whose one reader is not crowded is at that reader's command, and no bash has the marker of a command to come |
| `ToolsProofs!PassedIsChecked` | `PassIsEarned` | `VerifyInv`: a file changed since its check is still ahead of the gate, and where no more files were changed than the gate takes, all of them are among the first |
| `DesktopProofs!TracedIsShown` | `NothingTracedIsMissed` | `TracedInv`: the trace and the feed only grow at the end, and each row is shown at most once, in the order of the feed |
| `DesktopProofs!SilentIsWhole` | `SilentViewIsWhole` | `WholeInv`: a load has every item of its kind up to its place in the order of last writes (an upsert moves an item to the end, a deletion puts everything in doubt); deltas that are each one more than what was known leave no revision out, which is shown by the least counterexample |
| `KnowledgeProofs!IndexingRepairs` | `IndexRepairs` | `PagInv`: for each file that nobody has touched since the indexing began, what the indexing has got to by now (node, edge, section) is in the graph and of the present text; after the last file that is everything |
| `WorkProofs!TurnsStay` | `TurnsAreKept` | `ChatInv`: the outcome's messages replace the transcript, so what the worker was given when it was built keeps everything, too, and no prompt is added while there is a worker; between storing and dropping the outcome's messages are there, and after counting one turn more is in the totals than is over |
| `ContextProofs!PromptsStayApart` | `ConversationsAreApart` | `TuiInv`: the same of what is in memory and of what is in the file; a prompt's number stands nowhere before it is asked, and the conversation a run will replace is the one that ends with its prompt, whatever context is active by then.  That what is read back is in order rests on lemmas about the k-th of a set of places |
| `RuntimeProofs!RowsAreSentInOrder` | | stated only here, no run checks it.  `OrderInv`: what has been sent to a subscriber is of earlier rows than its thread has still to send to it, except for the first half of the row that is being sent |
| `RuntimeProofs!InboxIsAtomic` | | an action property of the mailbox, that no run checks: each step that changes an inbox appends one letter to what was there or marks all of it.  With `MailInv`, `CopyIsApplied`: what the holder of the lock is about to put in place is the present content with its own operation done |
| `ToolsProofs!OneTalkRemembers` | `EarlierResultIsThere` | hypothesis: one conversation in the process.  The property is the one the run `file_unchanged` violates; `TalkInv`: what the process has remembered of a file, some conversation was given |
| `ContextProofs!RequestsAreWhole` | `RequestIsWhole` | `WindowInv`: every call has its replies right after it, but for a last message whose batch is open; replies come later than their calls, so a last message with calls is never answered already; the read shown last that had a text is the last one noted; one that is told its file is unchanged is not noted.  A selection closed under replies keeps neighbours next to each other; that an error stays visible however often the batch is squeezed is an induction over the steps of squeezing, done with the least counterexample |

One result is stated and proved beside these: `MemoryProofs!BatchesStayApplied`
has `AnsweredBatchIsApplied` under the hypotheses `OneWorker` and `OneAuthor`.
`BatchesHold`: what the worker, or the author's own sync, holds and will write is
no older than what is claimed, and a batch is in the journal as done only when
its files are in the store.  A project with several chats has several workers and
authors on one database, so it is no theorem about the code at large.

| hypothesis | in | what it stands for |
|---|---|---|
| `PublishesHaveNoTarget` | `EventOrder` | a topic is published to nobody in particular; it is how `Target` is read in `Broker` |
| `FilesAreApart` | `EndpointsLeadHome` | no two chats share a socket file.  Chat ids that differ only in odd characters do, and then one broker's file leads to another's |
| a single conversation | `OneTalkRemembers` | one conversation in the process.  A second one may be referred to what only the first has read (finding 6) |
| `OneWorker` | `MemoryProofs` | one AgentMemory process for a database, as with one chat of a project; a second chat of it brings a second one |
| `OneAuthor` | `BatchesStayApplied` | one AgentWork process changes the project's files, again as with one chat.  With two authors, or two workers, TLC shows the property violated: an author, or a worker, that read an older text writes it after the batch was answered |

Before an invariant was proved, TLC checked it, or the property it was to
strengthen, on the instances of section 4.

**Only model-checked.**  Liveness (`EveryRequestEnds`, `EveryPromptEnds`,
`EveryTurnEnds`, `StopEndsTurn`, `HistoryComesBack`, `DatabaseIsFound`,
`RequestsAreHandled`): fairness and ENABLED are out of the prover's reach.
Every invariant that a passing run checks is stated by a theorem for all values
of the constants, but for `AnsweredBatchIsApplied`, which is proved for one
worker and one author and so for what its run has, too.

Four theorems name no property of a passing run.  `ToldToolsMayRun` is about a
table.  `InboxIsAtomic` and `RowsAreSentInOrder` follow from the invariants of
their neighbours and one more each, so they are proved instead of run; TLC agreed
on three clients with three letters and two markings, and on two threads with two
rows each and one subscriber.  `OneTalkRemembers` is about the property that
`file_unchanged` violates: it says what the violation takes.

## 7 Findings and observations

Seven runs contradict a statement of the repository.

1. `supervisor_zombie`, `runtime/supervisor.py:114`.  `spawn` drops the `Popen`
   object, nobody waits for the child, and `os.kill(pid, 0)` succeeds on a
   zombie: the record stays "running" and its dead endpoint is handed out.
   `plan/8-agents-runtime.md:390` promises `failed` and a new broker.
2. `desktop_live`, `DesktopSessionContext.tsx:616`.  The trace file is read
   before the subscription is made; a row in between is in neither, and stays
   away until something makes the Desktop read again.
   `plan/9-ailit-ui.md:446` promises live rows without a refresh.
3. `work_given_up`, `session/loop.py:3111`.  The doom loop's batch stays in the
   history without replies, and the next run executes it, although the user was
   told that its execution is off.
4. `memory_paths`, `memory/pag_indexer.py:236`.  The query pipeline gives each
   file it selects an edge from the project, then has the indexer bring the file
   up to date, which deletes every edge of the file and makes only those to its
   sections.  `plan/14-agent-memory-planner-command-contract.md:100` forbids a
   file without a path from the project.
5. `desktop_switch`, `DesktopSessionContext.tsx:600`.  A connect sets the
   endpoint it was given whatever chat is on screen by then.  One that comes back
   after that of the chat the user has switched to leaves its broker's endpoint
   there, and what is typed goes to the other chat.  `plan/9-ailit-ui.md:444` has
   the Desktop get the endpoint of the chat id and send its envelopes there.
6. `file_unchanged`, `tool_runtime/builtins.py:95`.  What `read_file` returned is
   remembered for the process, not for the conversation, so "refer to the earlier
   tool result in this thread" (`builtins.py:40-42`) can point at another
   thread's.
7. `shell_timeout`, `shell_session.py:110`.  The time of a call is looked at
   between two lines.  Output that does not end its line hides the end marker,
   and `readline()` then waits for ever, against "Respects timeout_ms"
   (`tool_runtime/bash_tools.py:263`).

Met while modelling, and without a run of their own.  Those in the models are
marked (m).

* Broker.  (m) A hung agent with a full pipe blocks handler threads in a write
  that no timeout covers.  (m) A request that times out leaves no row, though a
  `service.timeout` row is planned.  (m) An agent that dies under the write costs
  its client the connection and leaves a `_pending` entry.  (m) A dead agent is
  never spawned again.
* Supervisor.  (m) One started by hand leaves orphans behind when it restarts,
  and an orphan shares its chat's socket file with the new broker.  (m) Chat ids
  that differ only in odd characters share a socket file.
* Desktop.  (m) After such a switch the rows of the chat that was left can come
  into view as well, and a socket can be opened for one chat at the endpoint of
  the other, so that `HistoryComesBack` says nothing of a user who left a chat
  early.  (m) `error` and `close` of one socket start two resubscriptions that
  destroy each other's sockets.  (m) After a crash the resubscription tries the
  dead endpoint for ever and does not go back to the supervisor.
* Graph.  (m) Deletions are not counted by the revision.  (m) What is written
  while a load pages through the store and is not traced is missing silently.
  (m) A load replays the whole trace on top of a slice that already has it
  (`pagGraphSessionStore.ts:369`): it may warn that revisions are missing which
  are not, or set the known revision back, which
  `pagGraphSessionStore.test.ts:173-205` expects.
* Trace.  (m) Two threads with rows longer than the buffer tear each other's
  lines.  (m) A subscriber whose send times out is dropped and not told.
* Tool calls.  (m) A batch cut short by a rejection has its earlier writes made
  and not reported.  (m) A rejected write is executed by the next prompt if that
  runs under `edit`, which allows it: `RejectedRunsOnlyUnasked` says that this is
  the only way.
* Context.  (m) The cut to a tail leaves replies without their calls, which a
  comment of `loop.py` knows of.  Outputs of 2001 to 3999 characters are cut to
  2000 and are in no page; the budget's stub names no page; pages are cleared at
  each run.  A D-level summary is restored from whichever chat wrote the last
  one.  (m) A reading that is told its file is unchanged does not renew the
  file's place among those put back: after five other files, or in the next
  prompt, whose list starts empty, the file is not put back at all.
* The loop's own calls.  The branch of the first search's cap
  (`loop.py:2544-2558`) is unreachable.  (m) A fact that could not be written
  counts as written.  (m) With approval asked, two listings are repeated at each
  turn.
* Orchestrator.  "Проверка пройдена" says nothing of files beyond the third test
  and the twelfth Python file; `max_repair_attempts` above one still gives one
  repair.
* AgentWork.  (m) A choice accepted while its gate times out is thrown away; a
  wait that times out between the fetch of its event and the set loses the
  wake-up; an answer that arrives before the worker waits is refused, and the
  Desktop does not send it again; a process that dies sends no final event.
* AgentMemory.  (m) A batch is recorded as applied in memory only.  (m)
  `delete_or_stale` writes nothing, where
  `plan/13-agent-memory-contract-recovery.md:868` has it mark the node.  (m) A
  file's summary revives a node that was stale.
* Index.  (m) Removed files keep their nodes; a file that vanishes between the
  walk and its turn aborts the index; a sync beside an index can leave an old
  fingerprint that counts as fresh until the file changes again.
* Link claims.  Only `resolve_all_pending` is called in production; the id of a
  pending row does not name the kind of its target; a batch is lost if the worker
  dies in `apply_link_claims`.
* File tools.  (m) `write_file` truncates first, so that a reader in between sees
  an empty file; (m) a patch loses what another wrote since it read; the key of
  what was read has no root.
* Shell.  (m) Eviction disposes of a session whose command runs; (m) a call can
  land in the session of another caller, whose whose name is in the environment; (m) two calls in one bash
  take each other's lines and markers, against the docstring at
  `shell_session.py:4`; a kill ends bash, not what it started.
* Knowledge base.  (m) A superseded record comes back to life by a write or a
  promotion that read it before; a rewrite replaces the audit trail; nothing
  updates the search index when records are written.  (m) `kb_search` asks the
  index first, which knows no validity (`sqlite_kb.py:505`): a superseded record
  is found there beside, or instead of, its successor.
* Permission modes.  The policy's list for `explore` is not used by the policy;
  a promotion renews the time of an old decision, which then counts as the
  newest.
* Chat page.  (m) A worker that was stored and not started is polled for ever;
  (m) a turn that was dropped and not released is run again; (m) a prompt whose
  classification raises is never answered; (m) a stop during tools loses the
  messages of the turn, though the page says that the context is kept.
* Mailbox.  Who reads an inbox and then marks everything as read marks what came
  in between; `a/b` and `a_b` share a file.
* TUI.  (m) The state file is written in place, and a kill while it is written
  loses every context; (m) a prompt may run under the root of the context that
  was active when it was sent; tool calls are not saved.

## 8 Not modelled

`PROJECT.json`, "components", lists each component with what is left out.

* Left out for good: providers and transport (I/O of third-party services; in
  the models the provider is an actor that talks, calls tools or fails), views
  and styles, reports (sums over rows of a log), the registry of message
  envelopes (data only), the workflow engine (a sequential loop that keeps no
  state), the CLI, and the project registry and configuration (YAML files that
  are read, changed and written without a lock, of which nothing is promised).
* Within modelled components:
  * broker and desktop: pings, malformed lines, errors of the file system under
    the trace, reuse of pids, selection of projects;
  * loop: usage accounting, budgets of tokens, diagnostics, the cancel event
    (AgentWork sets none; the page's stop is in `ChatTurn`), the orchestrator
    switched off;
  * context: D-level summaries, the ledger, budgets of tokens; lengths are
    short or long;
  * AgentMemory: digest nodes, the journal, the planner's order of commands, the
    wording of summaries; both processes use one namespace;
  * graph: highlights, several sessions and namespaces;
  * index: directories below the root, two indexers at once;
  * file tools: ranges of lines, searches and listings, grants of memory, time
    stamps coarser than changes;
  * shell: spill files, single commands (`bash_runner.py`);
  * knowledge base: ranking, layers, a "database is locked" error, records
    written with an end of their validity;
  * TUI: two of them on one state file.
