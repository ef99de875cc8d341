--------------------------- MODULE ContextWindow ---------------------------
(***************************************************************************)
(* What the session loop keeps of a chat and what it shows the model       *)
(* (session/loop.py): tool output goes through the pager and the budget of *)
(* a batch into the messages, old output is pruned there, and each request *)
(* is built from the tail of the messages, a summary of the rest, the      *)
(* files read last and, where a project names keywords, what they select.  *)
(*                                                                         *)
(* An output is known by how long it is: "long" reaches the pager's        *)
(* threshold, "short" does not.  The length of the texts that replace it   *)
(* is given by Size.  Which calls run, and under whose approval, is        *)
(* WorkSession's matter; here a batch runs, waits or is left.              *)
(***************************************************************************)
EXTENDS Naturals, Sequences, FiniteSets, SequencesExt, FiniteSetsExt, Selection

CONSTANTS
    TailMax,      \* compaction_tail_messages
    PruneMin,     \* min_messages_to_act
    PruneKeep,    \* keep_last_tool_messages
    BudgetMax,    \* max_total_chars of a batch, in the units of Size
    RestoreMax,   \* post_compact_restore_max_files
    BatchMax,     \* bound: calls of one answer
    MaxMessages   \* bound: nothing is added to so many messages

ASSUME WindowAssumption ==
    {TailMax, PruneMin, PruneKeep, BudgetMax, RestoreMax, BatchMax, MaxMessages}
        \subseteq Nat \ {0}

(* readPage is read_context_page; its output never becomes a page. *)
Tools == {"read", "write", "readPage"}

ToolOutcomes(t) ==
    CASE t = "read"     -> {"long", "short", "same", "error"}
      [] t = "write"    -> {"short", "error"}
      [] t = "readPage" -> {"long"}

(* The text of a tool message.  same says that the file is unchanged since *)
(* it was read, by whomever: FileTools has when; a blank file reads alike.  *)
(* page and forced name a page and show its beginning, stub is what is left *)
(* of them, omitted of anything else.                                       *)
Forms == {"long", "short", "same", "error", "page", "forced", "stub", "omitted", "pruned"}

Size(form) ==
    CASE form \in {"long", "page"} -> 4
      [] form = "short"            -> 3
      [] form \in {"error", "forced"} -> 2
      [] OTHER                     -> 1

VARIABLES
    loopAt,     \* "idle", "top" of a turn, "batch", "asking" or "ready" for a request
    messages,
    tools,      \* the tool of each call, by call id
    pages,      \* ContextPageStore: the calls whose output it has
    reads,      \* RecentFileReadStore: the reads that returned a text
    searched,   \* whether this run has looked the prompt up in the knowledge base
    ran,        \* history: calls that ran in this run
    left        \* history: whether a batch was ever left without replies

windowVars == <<loopAt, messages, tools, pages, reads, searched, ran, left>>

Message(role, calls, call, form) == [role |-> role, calls |-> calls, call |-> call, form |-> form]

User      == Message("user", <<>>, 0, "")
System    == Message("system", <<>>, 0, "")
Says(calls) == Message("assistant", calls, 0, "")
ReplyTo(call, form) == Message("tool", <<>>, call, form)

WindowTypeOK ==
    /\ loopAt \in {"idle", "top", "batch", "asking", "ready"}
    /\ \A i \in DOMAIN messages :
          /\ messages[i].role \in {"user", "system", "assistant", "tool"}
          /\ \A k \in DOMAIN messages[i].calls : messages[i].calls[k] \in DOMAIN tools
          /\ messages[i].role = "tool" => messages[i].call \in DOMAIN tools /\ messages[i].form \in Forms
    /\ tools \in Seq(Tools)
    /\ pages \subseteq DOMAIN tools
    /\ reads \in Seq(DOMAIN tools)
    /\ searched \in BOOLEAN
    /\ ran \subseteq DOMAIN tools
    /\ left \in BOOLEAN

WindowInit ==
    /\ loopAt = "idle"
    /\ messages = <<>>
    /\ tools = <<>>
    /\ pages = {}
    /\ reads = <<>>
    /\ searched = FALSE
    /\ ran = {}
    /\ left = FALSE

-----------------------------------------------------------------------------
(* Prompts and runs.                                                        *)

(* SessionRunner.run empties the page store and forgets what it looked up. *)
StartWindowRun ==
    /\ loopAt' = "top"
    /\ pages' = {}
    /\ searched' = FALSE
    /\ ran' = {}

Calling(m) == m.role = "assistant" /\ m.calls # <<>>

(* _incomplete_tool_followup, for the last message with calls *)
LastCalls ==
    LET asking == {i \in DOMAIN messages : Calling(messages[i])}
    IN  IF asking = {} THEN <<>> ELSE messages[Max(asking)].calls

Unanswered ==
    IF \A k \in DOMAIN LastCalls : \E i \in DOMAIN messages :
           messages[i].role = "tool" /\ messages[i].call = LastCalls[k]
    THEN <<>> ELSE LastCalls

(* A prompt: a new runner, with stores of its own. *)
UserPrompt ==
    /\ loopAt = "idle"
    /\ Len(messages) < MaxMessages
    /\ messages' = Append(messages, User)
    /\ StartWindowRun
    /\ reads' = <<>>
    /\ UNCHANGED <<tools, left>>

(* Rejection, error of the model, budget or cancellation: the messages stay. *)
StopRun ==
    /\ loopAt # "idle"
    /\ loopAt' = "idle"
    /\ left' = (left \/ Unanswered # <<>>)
    /\ UNCHANGED <<messages, tools, pages, reads, searched, ran>>

-----------------------------------------------------------------------------
(* Tool output.                                                             *)

(* The pager: what _append_tool_results makes of one output. *)
Paged(call, outcome) ==
    IF outcome = "long" /\ tools[call] # "readPage" THEN "page" ELSE outcome

(* apply_tool_output_batch_budget: what replaces a text that is too much.  *)
Shrunk(call, form) ==
    IF form \in {"error", "omitted"} \/ tools[call] = "readPage" THEN "omitted"
    ELSE IF form \in {"page", "forced", "stub"} THEN "stub" ELSE "forced"

Total(forms) == FoldSeq(LAMBDA form, sum : sum + Size(form), 0, forms)

(* The longest text goes first; of several, that of the last call.         *)
Longest(forms) ==
    Max({i \in DOMAIN forms : \A j \in DOMAIN forms : Size(forms[j]) <= Size(forms[i])})

(* Texts of size 1 are left as they are.                                   *)
Squeeze(calls, f) ==
    IF Total(f) <= BudgetMax \/ Size(f[Longest(f)]) = 1 THEN f
    ELSE [f EXCEPT ![Longest(f)] = Shrunk(calls[Longest(f)], @)]

(* Each text shrinks at most twice.                                        *)
Squeezed(calls, forms) ==
    LET squeeze[n \in Nat] == IF n = 0 THEN forms ELSE Squeeze(calls, squeeze[n - 1])
    IN  squeeze[2 * Len(calls) + 1]

StoredPages(calls, before, after) ==
    {calls[k] : k \in {j \in DOMAIN calls :
        before[j] = "page" \/ (before[j] = "short" /\ after[j] \in {"forced", "stub"})}}

(* observe_read_file: only what has a text is noted, and only then.        *)
Observed(calls, outcome) ==
    Selected(calls, {k \in 1..Len(calls) : tools[calls[k]] = "read" /\ outcome[calls[k]] \notin {"error", "same"}})

(* The batch has run: _append_tool_results. *)
AppendToolResults ==
    LET calls == Unanswered IN
    /\ loopAt = "batch"
    /\ \E outcome \in [Range(calls) -> {"long", "short", "same", "error"}] :
        /\ \A c \in Range(calls) : outcome[c] \in ToolOutcomes(tools[c])
        /\ LET before == [k \in DOMAIN calls |-> Paged(calls[k], outcome[calls[k]])]
               after  == Squeezed(calls, before)
           IN  /\ messages' = messages \o [k \in DOMAIN calls |-> ReplyTo(calls[k], after[k])]
               /\ pages' = pages \cup StoredPages(calls, before, after)
        /\ reads' = reads \o Observed(calls, outcome)
    /\ ran' = ran \cup Range(calls)
    /\ loopAt' = "top"
    /\ UNCHANGED <<tools, searched, left>>

(* A call of the batch has to be approved: the run ends, and with the      *)
(* decision another begins.                                                *)
AskApproval ==
    /\ loopAt = "batch"
    /\ loopAt' = "asking"
    /\ UNCHANGED <<messages, tools, pages, reads, searched, ran, left>>

Rerun ==
    /\ loopAt = "asking"
    /\ StartWindowRun
    /\ UNCHANGED <<messages, tools, reads, left>>

-----------------------------------------------------------------------------
(* A turn.                                                                  *)

ToolMessages == {i \in DOMAIN messages : messages[i].role = "tool"}

(* apply_tool_output_prune: all but the last tool messages, writes excepted. *)
Prune ==
    IF Len(messages) < PruneMin THEN messages
    ELSE [i \in DOMAIN messages |->
            IF /\ i \in ToolMessages
               /\ Cardinality({j \in ToolMessages : j > i}) >= PruneKeep
               /\ tools[messages[i].call] # "write"
            THEN [messages[i] EXCEPT !.form = "pruned"] ELSE messages[i]]

(* The top of a turn: prune, then a batch without replies, or a request.   *)
BeginWindowTurn ==
    /\ loopAt = "top"
    /\ messages' = Prune
    /\ loopAt' = IF Unanswered # <<>> THEN "batch" ELSE "ready"
    /\ UNCHANGED <<tools, pages, reads, searched, ran, left>>

(* kb_search for the prompt, once in a run *)
AutoSearch ==
    /\ loopAt = "ready"
    /\ ~searched
    /\ Len(messages) < MaxMessages
    /\ searched' = TRUE
    /\ messages' = Append(messages, System)
    /\ UNCHANGED <<loopAt, tools, pages, reads, ran, left>>

ModelSays ==
    /\ loopAt = "ready"
    /\ messages' = Append(messages, Says(<<>>))
    /\ loopAt' = "idle"
    /\ UNCHANGED <<tools, pages, reads, searched, ran, left>>

NewCalls(n) == [k \in 1..n |-> Len(tools) + k]

ModelAsksFor(kinds) ==
    /\ loopAt = "ready"
    /\ Len(messages) + Len(kinds) < MaxMessages
    /\ messages' = Append(messages, Says(NewCalls(Len(kinds))))
    /\ tools' = tools \o kinds
    /\ loopAt' = "batch"
    /\ UNCHANGED <<pages, reads, searched, ran, left>>

(* The doom loop: the calls are not run, and a last answer is asked for.   *)
ModelRepeats(kinds) ==
    /\ loopAt = "ready"
    /\ Len(messages) + 1 < MaxMessages
    /\ messages' = messages \o <<Says(NewCalls(Len(kinds))), Says(<<>>)>>
    /\ tools' = tools \o kinds
    /\ loopAt' = "idle"
    /\ left' = TRUE
    /\ UNCHANGED <<pages, reads, searched, ran>>

Batches == UNION {[1..n -> Tools] : n \in 1..BatchMax}

WindowNext ==
    \/ UserPrompt
    \/ StopRun
    \/ AppendToolResults
    \/ AskApproval
    \/ Rerun
    \/ BeginWindowTurn
    \/ AutoSearch
    \/ ModelSays
    \/ \E kinds \in Batches : ModelAsksFor(kinds) \/ ModelRepeats(kinds)

WindowSpec == WindowInit /\ [][WindowNext]_windowVars

-----------------------------------------------------------------------------
(* The request.                                                             *)

IsCut == Len(messages) > TailMax

(* compact_messages *)
TailOf(seq) == SubSeq(seq, Len(seq) - Min({TailMax, Len(seq)}) + 1, Len(seq))

(* Mutant: the oldest reads are restored. *)
RestoredFiles_Oldest ==
    IF IsCut THEN Range(SubSeq(reads, 1, Min({RestoreMax, Len(reads)}))) ELSE {}

(* build_restore_message *)
RestoredFiles ==
    IF IsCut THEN Range(SubSeq(reads, Len(reads) - Min({RestoreMax, Len(reads)}) + 1, Len(reads))) ELSE {}

(* _prepare_context, without the messages it puts before and after.        *)
Window == TailOf(messages)

(* ToolChainIntegrityExpander._tool_reply_indices *)
RepliesOf(w, i) ==
    {k \in i + 1..Len(w) :
        /\ \A j \in i + 1..k : w[j].role = "tool"
        /\ w[k].call \in Range(w[i].calls)}

(* Mutant: a reply brings its call, and not the other replies. *)
Linked_CallOnly(w, keep) ==
    keep \cup {i \in DOMAIN w : \E k \in keep : Calling(w[i]) /\ k \in RepliesOf(w, i)}

Linked(w, keep) ==
    LET parents == {i \in DOMAIN w : Calling(w[i]) /\
                      (i \in keep \/ \E k \in keep : w[k].role = "tool" /\ k > i /\ w[k].call \in Range(w[i].calls))}
    IN  keep \cup parents \cup UNION {RepliesOf(w, i) : i \in parents}

(* apply_keyword_shortlist; hits are the messages that have a keyword. *)
Shortlisted(w, hits) ==
    LET users == {i \in DOMAIN w : w[i].role = "user"}
        keep  == hits \cup {i \in DOMAIN w : w[i].role = "system"}
                      \cup (IF users = {} THEN {} ELSE {Max(users)})
    IN  Selected(w, Linked(w, keep))

-----------------------------------------------------------------------------
(* Properties.                                                              *)

AnswersFollow(w) ==
    \A i \in DOMAIN w : Calling(w[i]) =>
        \A k \in DOMAIN w[i].calls :
            /\ i + k <= Len(w)
            /\ w[i + k].role = "tool"
            /\ w[i + k].call = w[i].calls[k]

(* Providers refuse a request in which a call is not followed by its       *)
(* replies.  Unless a batch was left without them, every request has them, *)
(* whatever was pruned, looked up, interrupted by a question or selected   *)
(* by keywords (loop.py: _incomplete_tool_followup, shortlist.py).         *)
CallsAreAnswered ==
    (loopAt = "ready" /\ ~left) =>
        /\ AnswersFollow(Window)
        /\ \A hits \in SUBSET DOMAIN Window : AnswersFollow(Shortlisted(Window, hits))

(* Whenever messages are cut, the file whose text was the last that a read  *)
(* of this run returned is in the request again, even if others have failed *)
(* or been told that their file is unchanged since (post_compact_restore.py). *)
(* A read that is told so returns no text, and nothing is said of its file. *)
LastReadIsRestored ==
    (loopAt = "ready" /\ IsCut) =>
        \A i \in ToolMessages :
            (/\ tools[messages[i].call] = "read"
             /\ messages[i].call \in ran
             /\ messages[i].form \notin {"error", "same", "omitted", "pruned"}
             /\ \A j \in ToolMessages :
                   j > i /\ tools[messages[j].call] = "read" => messages[j].form \in {"error", "same"})
            => messages[i].call \in RestoredFiles

(* What is sent to the model is whole: no call without its replies, and the *)
(* text read last, whatever was left out of the rest to save room.          *)
RequestIsWhole == CallsAreAnswered /\ LastReadIsRestored

=============================================================================
