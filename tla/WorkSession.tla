----------------------------- MODULE WorkSession -----------------------------
(***************************************************************************)
(* What AgentWork does with the tool calls of the model, over the prompts  *)
(* of one chat: the orchestrator's execute and repair phases               *)
(* (work_orchestrator.py), the session loop (session/loop.py), the serial  *)
(* executor, the permission mode and the operator's decisions.             *)
(*                                                                         *)
(* Of the message history only one thing decides what is done next: which  *)
(* calls of the last assistant message with tool calls have no reply.      *)
(* Every run of the loop starts by executing that batch again              *)
(* (_incomplete_tool_followup), and a batch gets its replies all at once.  *)
(*                                                                         *)
(* Left out: calls the loop makes itself for the knowledge base, which     *)
(* touch no batch; the budgets, the step cap and the cancel event, which   *)
(* AgentWork does not set; and prompts classified as too large, which are  *)
(* answered without running the loop.                                      *)
(***************************************************************************)
EXTENDS Naturals, Sequences, Functions

CONSTANTS
    Calls,       \* call ids, drawn by the provider
    Writes,      \* calls that write a file
    Unknown,     \* calls that name a tool the registry does not have
    Text,        \* a call's tool name and arguments
    Modes,       \* permission modes a prompt may run in
    Policy,      \* what a mode says of a call
    MaxBatch,    \* bound: calls in one answer of the model
    MaxPrompts,  \* bound: prompts
    MaxRuns      \* bound: no timeout once some call has run so often

ASSUME WorkSessionAssumption ==
    /\ Writes \subseteq Calls
    /\ Unknown \subseteq Calls
    /\ DOMAIN Text = Calls
    /\ Policy \in [Modes -> [Calls -> {"allow", "ask", "deny"}]]
    /\ MaxBatch \in Nat
    /\ MaxPrompts \in Nat
    /\ MaxRuns \in Nat

VARIABLES
    phase,     \* "idle", "loop" (top of a turn), "batch" or "asking"
    mode,      \* the permission mode of the prompt
    open,      \* the calls of the last batch, while they have no replies
    kept,      \* the same, in the history the chat session keeps
    pos,       \* the call of the batch the executor is at
    done,      \* calls of this pass whose handler succeeded
    decision,  \* ApprovalSession: the operator's decision on a call
    streak,    \* the last batch's signature and how often it was repeated
    repaired,  \* whether the prompt is in its repair phase
    prompts,   \* how many prompts there were
    used,      \* history: calls the model has made
    batches,   \* history: the batches they came in
    asked,     \* history: calls the operator was asked about
    given,     \* history: calls closed by the doom loop's final answer
    runs,      \* history: how often a call's handler ran
    landed,    \* history: calls whose handler succeeded
    reported,  \* history: writes sent to AgentMemory as change feedback
    taken      \* history: modes prompts have run in

history == <<used, batches, asked, given, runs, landed, reported, taken>>
vars == <<phase, mode, open, kept, pos, done, decision, streak, repaired, prompts, history>>

NoStreak == [text |-> <<>>, n |-> 0]

SeqsUpTo(S, n) == UNION {[1..k -> S] : k \in 0..n}

TypeOK ==
    /\ phase \in {"idle", "loop", "batch", "asking"}
    /\ mode \in Modes
    /\ open \in Seq(Calls)
    /\ kept \in Seq(Calls)
    /\ pos \in 1..(Len(open) + 1)
    /\ done \in SUBSET Calls
    /\ decision \in [Calls -> {"pending", "approved", "rejected"}]
    /\ streak.n \in 0..1
    /\ repaired \in BOOLEAN
    /\ prompts \in 0..MaxPrompts
    /\ used \in SUBSET Calls
    /\ batches \in SUBSET Seq(Calls)
    /\ asked \in SUBSET Calls
    /\ given \in SUBSET Calls
    /\ runs \in [Calls -> Nat]
    /\ landed \in SUBSET Calls
    /\ reported \in SUBSET Calls
    /\ taken \in SUBSET Modes

Init ==
    /\ phase = "idle"
    /\ mode \in Modes
    /\ open = <<>>
    /\ kept = <<>>
    /\ pos = 1
    /\ done = {}
    /\ decision = [c \in Calls |-> "pending"]
    /\ streak = NoStreak
    /\ repaired = FALSE
    /\ prompts = 0
    /\ used = {}
    /\ batches = {}
    /\ asked = {}
    /\ given = {}
    /\ runs = [c \in Calls |-> 0]
    /\ landed = {}
    /\ reported = {}
    /\ taken = {}

-----------------------------------------------------------------------------
(* Prompts and runs of the loop.                                            *)

(* A run of the loop starts with its counters at zero. *)
StartRun ==
    /\ phase' = "loop"
    /\ streak' = NoStreak
    /\ pos' = 1
    /\ done' = {}

(* A prompt continues the chat's history, in a mode of its own. *)
Prompt(m) ==
    /\ phase = "idle"
    /\ prompts < MaxPrompts
    /\ prompts' = prompts + 1
    /\ mode' = m
    /\ open' = kept
    /\ repaired' = FALSE
    /\ taken' = taken \cup {m}
    /\ StartRun
    /\ UNCHANGED <<kept, decision, used, batches, asked, given, runs, landed, reported>>

(* The run ended and so does the prompt: the session keeps its messages. *)
EndPrompt(calls) ==
    /\ phase' = "idle"
    /\ kept' = calls
    /\ open' = calls
    /\ pos' = 1
    /\ done' = {}
    /\ UNCHANGED <<mode, decision, streak, repaired, prompts>>

(* The check of the changed files failed, for the first time: one more run *)
(* is made on the same messages.                                           *)
Repair(calls) ==
    /\ ~repaired
    /\ repaired' = TRUE
    /\ open' = calls
    /\ StartRun
    /\ UNCHANGED <<mode, kept, decision, prompts>>

Finish(calls) == EndPrompt(calls) \/ Repair(calls)

-----------------------------------------------------------------------------
(* The session loop.                                                        *)

Signature(batch) == [i \in DOMAIN batch |-> Text[batch[i]]]

Repeats(batch) ==
    IF Signature(batch) = streak.text THEN streak.n + 1 ELSE 0

(* No call is unanswered: the model is asked.  A request that times out    *)
(* before its first word is made a second time, which changes nothing here.*)
ModelAsked == phase = "loop" /\ open = <<>>

(* It answers in words. *)
ModelTalks ==
    /\ ModelAsked
    /\ Finish(<<>>)
    /\ UNCHANGED history

(* The request to the model fails. *)
ModelFails ==
    /\ ModelAsked
    /\ EndPrompt(<<>>)
    /\ UNCHANGED history

NewBatch(batch) ==
    /\ ModelAsked
    /\ batch # <<>>
    /\ IsInjective(batch)
    /\ used' = used \cup Range(batch)
    /\ batches' = batches \cup {batch}
    /\ UNCHANGED <<asked, runs, landed, reported, taken>>

(* The model asks for tools. *)
ModelCalls(batch) ==
    /\ NewBatch(batch)
    /\ Repeats(batch) < 2
    /\ streak' = [text |-> Signature(batch), n |-> Repeats(batch)]
    /\ open' = batch
    /\ phase' = "batch"
    /\ pos' = 1
    /\ done' = {}
    /\ UNCHANGED <<mode, kept, decision, repaired, prompts, given>>

(* It asks for the same tools the third time in a row: the run ends with a *)
(* text-only answer, and the assistant message with the calls stays in the *)
(* history without replies.                                                *)
DoomLoop(batch) ==
    /\ NewBatch(batch)
    /\ Repeats(batch) >= 2
    /\ given' = given \cup Range(batch)
    /\ Finish(batch)

(* A batch without replies is executed from its first call. *)
FollowUp ==
    /\ phase = "loop"
    /\ open # <<>>
    /\ phase' = "batch"
    /\ pos' = 1
    /\ done' = {}
    /\ UNCHANGED <<mode, open, kept, decision, streak, repaired, prompts, history>>

-----------------------------------------------------------------------------
(* ToolExecutor.execute_serial.                                             *)

Current == open[pos]

InBatch ==
    /\ phase = "batch"
    /\ pos <= Len(open)

(* Mutant: any decision of the operator lets the call pass. *)
Permitted_AnyDecision(c) ==
    \/ Policy[mode][c] = "allow"
    \/ Policy[mode][c] = "ask" /\ decision[c] # "pending"

Permitted(c) ==
    \/ Policy[mode][c] = "allow"
    \/ Policy[mode][c] = "ask" /\ decision[c] = "approved"

(* The handler runs.  It may fail, and then the reply says so. *)
RunTool ==
    /\ InBatch
    /\ Current \notin Unknown
    /\ Permitted(Current)
    /\ runs' = [runs EXCEPT ![Current] = @ + 1]
    /\ pos' = pos + 1
    /\ \E ok \in BOOLEAN :
          /\ done' = IF ok THEN done \cup {Current} ELSE done
          /\ landed' = IF ok THEN landed \cup {Current} ELSE landed
    /\ UNCHANGED <<phase, mode, open, kept, decision, streak, repaired, prompts,
                   used, batches, asked, given, reported, taken>>

(* Mutant: a call the mode denies counts as one that succeeded. *)
Deny_Succeeds ==
    /\ InBatch
    /\ Current \notin Unknown
    /\ Policy[mode][Current] = "deny"
    /\ pos' = pos + 1
    /\ done' = done \cup {Current}
    /\ UNCHANGED <<phase, mode, open, kept, decision, streak, repaired, prompts, history>>

Deny ==
    /\ InBatch
    /\ Current \notin Unknown
    /\ Policy[mode][Current] = "deny"
    /\ pos' = pos + 1
    /\ UNCHANGED <<phase, mode, open, kept, done, decision, streak, repaired, prompts,
                   history>>

(* Mutant: the operator is asked until the call is approved. *)
Undecided_NotApproved ==
    /\ InBatch
    /\ Current \notin Unknown
    /\ Policy[mode][Current] = "ask"
    /\ decision[Current] # "approved"

Undecided ==
    /\ InBatch
    /\ Current \notin Unknown
    /\ Policy[mode][Current] = "ask"
    /\ decision[Current] = "pending"

(* ApprovalPending: the run stops, and the results of the pass are lost. *)
Ask ==
    /\ Undecided
    /\ phase' = "asking"
    /\ asked' = asked \cup {Current}
    /\ UNCHANGED <<mode, open, kept, pos, done, decision, streak, repaired, prompts, used,
                   batches, given, runs, landed, reported, taken>>

(* ToolRejected: the run and the prompt end, the batch stays unanswered. *)
Refused ==
    /\ InBatch
    /\ Current \notin Unknown
    /\ Policy[mode][Current] = "ask"
    /\ decision[Current] = "rejected"

Reject ==
    /\ Refused
    /\ EndPrompt(open)
    /\ UNCHANGED history

(* The registry has no such tool: KeyError ends the prompt, and what it    *)
(* added to the history is lost with it.                                   *)
Raise ==
    /\ InBatch
    /\ Current \in Unknown
    /\ EndPrompt(kept)
    /\ UNCHANGED history

(* memory.change_feedback names the writes of the pass that succeeded; a   *)
(* request that fails is dropped, so reported is what was ever named.      *)
SendFeedback == reported' = reported \cup (done \cap Writes)

(* Mutant: feedback goes out, but the replies do not reach the history. *)
Reply_Lost ==
    /\ phase = "batch"
    /\ pos = Len(open) + 1
    /\ SendFeedback
    /\ phase' = "loop"
    /\ pos' = 1
    /\ done' = {}
    /\ UNCHANGED <<mode, open, kept, decision, streak, repaired, prompts, used, batches,
                   asked, given, runs, landed, taken>>

(* The pass is complete: change feedback goes out for the files it wrote,  *)
(* and every call gets its reply.                                          *)
Reply ==
    /\ phase = "batch"
    /\ pos = Len(open) + 1
    /\ SendFeedback
    /\ open' = <<>>
    /\ phase' = "loop"
    /\ pos' = 1
    /\ done' = {}
    /\ UNCHANGED <<mode, kept, decision, streak, repaired, prompts, used, batches, asked,
                   given, runs, landed, taken>>

-----------------------------------------------------------------------------
(* The operator.                                                            *)

(* The answer on the call that is waited for; the loop is run again. *)
Decide(d) ==
    /\ phase = "asking"
    /\ decision' = [decision EXCEPT ![Current] = d]
    /\ StartRun
    /\ UNCHANGED <<mode, open, kept, repaired, prompts, history>>

(* An hour without an answer: the loop is run again all the same. *)
Timeout ==
    /\ phase = "asking"
    /\ \A c \in Calls : runs[c] < MaxRuns
    /\ StartRun
    /\ UNCHANGED <<mode, open, kept, decision, repaired, prompts, history>>

-----------------------------------------------------------------------------

Step ==
    \/ ModelTalks
    \/ ModelFails
    \/ \E batch \in SeqsUpTo(Calls \ used, MaxBatch) : ModelCalls(batch)
    \/ \E batch \in SeqsUpTo(Calls \ used, MaxBatch) : DoomLoop(batch)
    \/ FollowUp
    \/ RunTool
    \/ Deny
    \/ Ask
    \/ Reject
    \/ Raise
    \/ Reply

Next ==
    \/ \E m \in Modes : Prompt(m)
    \/ Step
    \/ \E d \in {"approved", "rejected"} : Decide(d)
    \/ Timeout

Spec == Init /\ [][Next]_vars

(* The thread goes on, and the operator answers when asked often enough. *)
FairSpec ==
    /\ Spec
    /\ WF_vars(Step)
    /\ SF_vars(\E d \in {"approved", "rejected"} : Decide(d))

-----------------------------------------------------------------------------
(* Properties.                                                              *)

(* Change feedback speaks of writes that were made: a call that was        *)
(* denied, refused or failed is not reported to AgentMemory, however often *)
(* its batch was run again.                                                *)
ReportedLanded == reported \subseteq landed \cap Writes

(* A call runs a second time for one of two reasons only.  A later call of *)
(* its batch stopped the pass with a question.  Or the batch was left open *)
(* by an earlier prompt, with a rejection or by the doom loop, and the     *)
(* prompt that took it up ended at a tool that does not exist, whose       *)
(* exception undoes the replies the batch had got.                         *)
RerunHasReason ==
    \A c \in Calls : runs[c] > 1 =>
        \E b \in batches : \E i \in DOMAIN b :
            /\ b[i] = c
            /\ \/ \E j \in DOMAIN b : i < j /\ b[j] \in asked
               \/ /\ used \cap Unknown # {}
                  /\ \E d \in Range(b) : decision[d] = "rejected" \/ d \in given

(* The operator's rejection outlasts the prompt it was given in: the batch  *)
(* is taken up again by later prompts, and a rejected call of it has run    *)
(* only if one of them had a mode that does not ask about it (loop.py:1540, *)
(* executor.py; edit is such a mode).                                       *)
RejectedRunsOnlyUnasked ==
    \A c \in Calls : decision[c] = "rejected" /\ runs[c] > 0 =>
        \E m \in taken : Policy[m][c] = "allow"

(* Calls that the doom loop's text-only answer stood in for never run. *)
GivenUpNeverRuns == \A c \in given : runs[c] = 0

(* Every prompt ends if the operator does. *)
EveryPromptEnds == phase # "idle" ~> phase = "idle"

=============================================================================
