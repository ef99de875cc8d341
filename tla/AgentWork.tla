------------------------------ MODULE AgentWork ------------------------------
(***************************************************************************)
(* The AgentWork process of a chat (work_agent.py).  The main thread reads *)
(* request lines from stdin and handles one at a time; a prompt runs in a  *)
(* thread of its own, which may wait for the operator twice over: for a    *)
(* permission mode (one gate per prompt, 600 s) and for the approval of a  *)
(* tool call (3600 s, and then the call is asked about again).             *)
(*                                                                         *)
(* The gate of a prompt has the name of the prompt, a tool call is the     *)
(* pair of its prompt and its number.  What is decided about a call does   *)
(* not matter here, only that it is (see WorkSession for the rest).        *)
(***************************************************************************)
EXTENDS Naturals, Sequences, FiniteSets

CONSTANTS
    Prompts,
    NoPrompt,
    MaxCalls    \* bound: calls of a prompt that need approval

ASSUME AgentWorkAssumption ==
    /\ NoPrompt \notin Prompts
    /\ MaxCalls \in Nat

AskedCalls == Prompts \X (1..MaxCalls)
NoCall == <<NoPrompt, 0>>

VARIABLES
    calm,      \* the process lives and no answer is too late or too early
    up,        \* whether the process runs
    inbox,     \* stdin: the request lines
    main,      \* the main thread: what it is doing, with what
    thread,    \* where each prompt's thread is
    current,   \* _user_prompt_thread, by its prompt
    nextCall,  \* the call the prompt is at
    gate,      \* _perm_gate_id with _perm_coord and _perm_event, or NoPrompt
    gateSet,   \* whether _perm_event is set
    chosen,    \* _perm_chosen_mode: the gate it was chosen for
    waitedFor, \* _appr_call_id with _appr_event
    callSet,   \* whether _appr_event is set
    decided,   \* ApprovalSession: the calls it has a decision on
    sent,      \* commands the Desktop has sent
    shown,     \* gates and calls the Desktop has been shown
    accepted,  \* commands that were answered ok
    refused,   \* commands that were answered with an error
    modeOf,    \* history: the gate whose choice a prompt runs under
    finals     \* history: action.completed and action.failed of each prompt

gateVars == <<gate, gateSet, chosen>>
callVars == <<waitedFor, callSet, decided>>
deskVars == <<sent, shown>>
answerVars == <<accepted, refused>>
runVars == <<thread, nextCall, modeOf, finals>>
agentVars == <<calm, up, inbox, main, current, runVars, gateVars, callVars, deskVars, answerVars>>

PromptCommand(p) == [type |-> "prompt", about |-> p]
ChoiceCommand(p) == [type |-> "choice", about |-> p]
AnswerCommand(c) == [type |-> "answer", about |-> c]

Command ==
    [type : {"prompt", "choice"}, about : Prompts] \cup [type : {"answer"}, about : AskedCalls]

Reading == [at |-> "read", about |-> NoPrompt]

AgentTypeOK ==
    /\ calm \in BOOLEAN
    /\ up \in BOOLEAN
    /\ inbox \in Seq(Command)
    /\ main \in {Reading}
              \cup [at : {"record", "choose"}, about : Prompts]
              \cup [at : {"approve", "wake", "approve_stale", "wake_stale"}, about : AskedCalls]
    /\ thread \in [Prompts -> {"none", "begin", "gate", "mode", "run", "ask", "waiting",
                               "awake", "leaving", "dead"}]
    /\ current \in Prompts \cup {NoPrompt}
    /\ nextCall \in [Prompts -> 1..(MaxCalls + 1)]
    /\ gate \in Prompts \cup {NoPrompt}
    /\ gateSet \in BOOLEAN
    /\ chosen \in Prompts \cup {NoPrompt}
    /\ waitedFor \in AskedCalls \cup {NoCall}
    /\ callSet \in BOOLEAN
    /\ decided \in SUBSET AskedCalls
    /\ sent \in SUBSET Command
    /\ shown \in SUBSET Command
    /\ accepted \in SUBSET Command
    /\ refused \in SUBSET Command
    /\ modeOf \in [Prompts -> Prompts \cup {NoPrompt}]
    /\ finals \in [Prompts -> Nat]

AgentInit ==
    /\ calm \in BOOLEAN
    /\ up = TRUE
    /\ inbox = <<>>
    /\ main = Reading
    /\ thread = [p \in Prompts |-> "none"]
    /\ current = NoPrompt
    /\ nextCall = [p \in Prompts |-> 1]
    /\ gate = NoPrompt
    /\ gateSet = FALSE
    /\ chosen = NoPrompt
    /\ waitedFor = NoCall
    /\ callSet = FALSE
    /\ decided = {}
    /\ sent = {}
    /\ shown = {PromptCommand(p) : p \in Prompts}
    /\ accepted = {}
    /\ refused = {}
    /\ modeOf = [p \in Prompts |-> NoPrompt]
    /\ finals = [p \in Prompts |-> 0]

Alive(p) == thread[p] \notin {"none", "dead"}

-----------------------------------------------------------------------------
(* The main thread: AgentWorkWorker.handle.                                 *)

Accept(cmd) == accepted' = accepted \cup {cmd} /\ UNCHANGED refused
Refuse(cmd) == refused' = refused \cup {cmd} /\ UNCHANGED accepted

Take(cmd) ==
    /\ up
    /\ main = Reading
    /\ inbox # <<>>
    /\ cmd = Head(inbox)
    /\ inbox' = Tail(inbox)

(* Mutant: a thread that has sent its final event is not waited for. *)
Busy_UntilFinal == current # NoPrompt /\ Alive(current) /\ finals[current] = 0

Busy == current # NoPrompt /\ Alive(current)

(* action.started goes out, the thread is stored and started. *)
StartPrompt(p) ==
    /\ Take(PromptCommand(p))
    /\ IF Busy
       THEN Refuse(PromptCommand(p)) /\ UNCHANGED <<current, thread>>
       ELSE /\ Accept(PromptCommand(p))
            /\ current' = p
            /\ thread' = [thread EXCEPT ![p] = "begin"]
    /\ UNCHANGED <<calm, up, main, nextCall, modeOf, finals, gateVars, callVars, deskVars>>

(* complete_perm_choice: the gate is checked under the lock. *)
CheckChoice(p) ==
    /\ Take(ChoiceCommand(p))
    /\ IF gate = p
       THEN main' = [at |-> "record", about |-> p] /\ UNCHANGED answerVars
       ELSE Refuse(ChoiceCommand(p)) /\ UNCHANGED main
    /\ UNCHANGED <<calm, up, current, runVars, gateVars, callVars, deskVars>>

(* record_user_choice writes to the knowledge base, without the lock. *)
RecordChoice ==
    /\ up
    /\ main.at = "record"
    /\ main' = [main EXCEPT !.at = "choose"]
    /\ UNCHANGED <<calm, up, inbox, current, runVars, gateVars, callVars, deskVars, answerVars>>

(* Under the lock again: the mode is set, and the event if there is one. *)
Choose ==
    /\ up
    /\ main.at = "choose"
    /\ chosen' = main.about
    /\ gateSet' = (gateSet \/ gate # NoPrompt)
    /\ Accept(ChoiceCommand(main.about))
    /\ main' = Reading
    /\ UNCHANGED <<calm, up, inbox, current, runVars, gate, callVars, deskVars>>

(* complete_tool_approval: the call is checked and its event fetched. *)
CheckAnswer(c) ==
    /\ Take(AnswerCommand(c))
    /\ IF waitedFor = c
       THEN main' = [at |-> "approve", about |-> c] /\ UNCHANGED answerVars
       ELSE Refuse(AnswerCommand(c)) /\ UNCHANGED main
    /\ UNCHANGED <<calm, up, current, runVars, gateVars, callVars, deskVars>>

Approve ==
    /\ up
    /\ main.at \in {"approve", "approve_stale"}
    /\ decided' = decided \cup {main.about}
    /\ main' = [main EXCEPT !.at = IF @ = "approve" THEN "wake" ELSE "wake_stale"]
    /\ UNCHANGED <<calm, up, inbox, current, runVars, gateVars, waitedFor, callSet, deskVars,
                   answerVars>>

(* Mutant: the decision is stored and nobody is told. *)
Wake_Forgets ==
    /\ up
    /\ main.at \in {"wake", "wake_stale"}
    /\ Accept(AnswerCommand(main.about))
    /\ main' = Reading
    /\ UNCHANGED <<calm, up, inbox, current, runVars, gateVars, callVars, deskVars>>

(* The event that was fetched is set: the thread may wait on another one. *)
Wake ==
    /\ up
    /\ main.at \in {"wake", "wake_stale"}
    /\ callSet' = (callSet \/ main.at = "wake")
    /\ Accept(AnswerCommand(main.about))
    /\ main' = Reading
    /\ UNCHANGED <<calm, up, inbox, current, runVars, gateVars, waitedFor, decided, deskVars>>

-----------------------------------------------------------------------------
(* The prompt's thread.                                                     *)

GoesTo(p, from, to) ==
    /\ up
    /\ thread[p] = from
    /\ thread' = [thread EXCEPT ![p] = to]

(* The classifier is sure, or asked not to be used: the prompt runs. *)
RunAtOnce(p) ==
    /\ GoesTo(p, "begin", "run")
    /\ UNCHANGED <<calm, up, inbox, main, current, nextCall, modeOf, finals, gateVars, callVars,
                   deskVars, answerVars>>

(* Mutant: the mode chosen last is not reset. *)
OpenGate_KeepsChoice(p) ==
    /\ GoesTo(p, "begin", "gate")
    /\ gate' = p
    /\ gateSet' = FALSE
    /\ shown' = shown \cup {ChoiceCommand(p)}
    /\ UNCHANGED <<calm, up, inbox, main, current, nextCall, modeOf, finals, chosen, callVars, sent,
                   answerVars>>

(* The gate is set up under the lock and shown to the operator. *)
OpenGate(p) ==
    /\ GoesTo(p, "begin", "gate")
    /\ gate' = p
    /\ gateSet' = FALSE
    /\ chosen' = NoPrompt
    /\ shown' = shown \cup {ChoiceCommand(p)}
    /\ UNCHANGED <<calm, up, inbox, main, current, nextCall, modeOf, finals, callVars, sent,
                   answerVars>>

(* The wait ends when the event is set, or after ten minutes. *)
LeaveGate(p) ==
    /\ GoesTo(p, "gate", "mode")
    /\ gateSet \/ ~calm
    /\ UNCHANGED <<calm, up, inbox, main, current, nextCall, modeOf, finals, gateVars, callVars,
                   deskVars, answerVars>>

ClearGate ==
    /\ gate' = NoPrompt
    /\ gateSet' = FALSE
    /\ chosen' = NoPrompt

(* Mutant: the gate is cleared before the choice is read. *)
TakeMode_ClearsFirst(p) ==
    /\ GoesTo(p, "mode", "leaving")
    /\ finals' = [finals EXCEPT ![p] = @ + 1]
    /\ ClearGate
    /\ UNCHANGED <<calm, up, inbox, main, current, nextCall, modeOf, callVars, deskVars, answerVars>>

(* Under the lock the choice is read and the gate cleared.  Without a      *)
(* choice the prompt is over, with action.completed and an error in it.    *)
TakeMode(p) ==
    /\ GoesTo(p, "mode", IF chosen = NoPrompt THEN "leaving" ELSE "run")
    /\ modeOf' = [modeOf EXCEPT ![p] = chosen]
    /\ finals' = IF chosen = NoPrompt THEN [finals EXCEPT ![p] = @ + 1] ELSE finals
    /\ ClearGate
    /\ UNCHANGED <<calm, up, inbox, main, current, nextCall, callVars, deskVars, answerVars>>

Call(p) == <<p, nextCall[p]>>

(* The session loop finds a decision on the call and goes on to the next. *)
PassCall(p) ==
    /\ GoesTo(p, "run", "run")
    /\ Call(p) \in decided
    /\ nextCall' = [nextCall EXCEPT ![p] = @ + 1]
    /\ UNCHANGED <<calm, up, inbox, main, current, modeOf, finals, gateVars, callVars, deskVars,
                   answerVars>>

(* Or none, and session.waiting_approval goes out. *)
AskCall(p) ==
    /\ GoesTo(p, "run", "ask")
    /\ Call(p) \in AskedCalls \ decided
    /\ shown' = shown \cup {AnswerCommand(Call(p))}
    /\ UNCHANGED <<calm, up, inbox, main, current, nextCall, modeOf, finals, gateVars, callVars,
                   sent, answerVars>>

(* wait_for_approval: a new event and the call's id, under the lock. *)
Register(p) ==
    /\ GoesTo(p, "ask", "waiting")
    /\ waitedFor' = Call(p)
    /\ callSet' = FALSE
    /\ UNCHANGED <<calm, up, inbox, main, current, nextCall, modeOf, finals, gateVars, decided,
                   deskVars, answerVars>>

(* The wait ends when the event is set, or after an hour. *)
StopWaiting(p) ==
    /\ GoesTo(p, "waiting", "awake")
    /\ callSet \/ ~calm
    /\ UNCHANGED <<calm, up, inbox, main, current, nextCall, modeOf, finals, gateVars, callVars,
                   deskVars, answerVars>>

(* From here on an event the main thread holds is one nobody waits on. *)
Unhand ==
    main' = CASE main.at = "approve" -> [main EXCEPT !.at = "approve_stale"]
              [] main.at = "wake" -> [main EXCEPT !.at = "wake_stale"]
              [] OTHER -> main

(* The event and the id are dropped under the lock; the loop runs again. *)
Deregister(p) ==
    /\ GoesTo(p, "awake", "run")
    /\ waitedFor' = NoCall
    /\ callSet' = FALSE
    /\ Unhand
    /\ UNCHANGED <<calm, up, inbox, current, nextCall, modeOf, finals, gateVars, decided, deskVars,
                   answerVars>>

(* The prompt is over: action.completed, or action.failed if it raised. *)
EndThread(p) ==
    /\ GoesTo(p, "run", "leaving") \/ GoesTo(p, "begin", "leaving")
    /\ finals' = [finals EXCEPT ![p] = @ + 1]
    /\ UNCHANGED <<calm, up, inbox, main, current, nextCall, modeOf, gateVars, callVars, deskVars,
                   answerVars>>

ThreadEnds(p) ==
    /\ GoesTo(p, "leaving", "dead")
    /\ UNCHANGED <<calm, up, inbox, main, current, nextCall, modeOf, finals, gateVars, callVars,
                   deskVars, answerVars>>

-----------------------------------------------------------------------------
(* The Desktop (through the broker), and the end of the process.            *)

(* The Desktop answers what it is shown, once.  It hides a call it has     *)
(* answered, whatever came of the answer.                                  *)
Send(cmd) ==
    /\ cmd \in shown \ sent
    /\ cmd.type = "answer" => ~calm \/ waitedFor = cmd.about
    /\ sent' = sent \cup {cmd}
    /\ inbox' = Append(inbox, cmd)
    /\ UNCHANGED <<calm, up, main, current, runVars, gateVars, callVars, shown, answerVars>>

(* The threads of prompts are daemons: they end with the process. *)
Die ==
    /\ ~calm
    /\ up
    /\ up' = FALSE
    /\ UNCHANGED <<calm, inbox, main, current, runVars, gateVars, callVars, deskVars, answerVars>>

-----------------------------------------------------------------------------

MainStep ==
    \/ \E p \in Prompts : StartPrompt(p)
    \/ \E p \in Prompts : CheckChoice(p)
    \/ RecordChoice
    \/ Choose
    \/ \E c \in AskedCalls : CheckAnswer(c)
    \/ Approve
    \/ Wake

ThreadStep(p) ==
    \/ RunAtOnce(p)
    \/ OpenGate(p)
    \/ LeaveGate(p)
    \/ TakeMode(p)
    \/ PassCall(p)
    \/ AskCall(p)
    \/ Register(p)
    \/ StopWaiting(p)
    \/ Deregister(p)
    \/ EndThread(p)
    \/ ThreadEnds(p)

AgentNext ==
    \/ MainStep
    \/ \E p \in Prompts : ThreadStep(p)
    \/ \E cmd \in Command : Send(cmd)
    \/ Die

AgentSpec == AgentInit /\ [][AgentNext]_agentVars

(* Threads run, waits run out, and the operator answers what is shown. *)
AgentFairSpec ==
    /\ AgentSpec
    /\ WF_agentVars(MainStep)
    /\ \A p \in Prompts : WF_agentVars(ThreadStep(p))
    /\ \A cmd \in Command : cmd.type # "prompt" => WF_agentVars(Send(cmd))

-----------------------------------------------------------------------------
(* Properties.                                                              *)

(* One prompt of a chat runs at a time: a second one is refused until the  *)
(* thread of the first is gone, so no two threads share the history, the   *)
(* gate and the approval.                                                  *)
OnePromptAtATime == \A p, q \in Prompts : Alive(p) /\ Alive(q) => p = q

(* A prompt runs under no mode but the one chosen for its own gate, however *)
(* late a choice for an earlier gate is carried out.                       *)
OwnMode == \A p \in Prompts : modeOf[p] \in {p, NoPrompt}

(* In a calm run whatever the operator says counts: an answer that was      *)
(* accepted has woken the thread that waits for it, an answer to a call that *)
(* was shown is accepted, and an accepted choice lets its prompt through the *)
(* gate.                                                                     *)
AnswersCount ==
    calm =>
        /\ \A p \in Prompts :
              thread[p] = "waiting" /\ AnswerCommand(Call(p)) \in accepted => callSet
        /\ \A c \in AskedCalls : AnswerCommand(c) \notin refused
        /\ \A p \in Prompts :
              ChoiceCommand(p) \in accepted /\ thread[p] \in {"leaving", "dead"} => modeOf[p] = p

(* In a calm run an accepted prompt ends, with action.completed or           *)
(* action.failed.                                                            *)
EveryTurnEnds ==
    \A p \in Prompts : calm /\ PromptCommand(p) \in accepted ~> finals[p] > 0

=============================================================================
