------------------------------- MODULE MCWork -------------------------------
(* A chat's tool loop, the threads of its process and the page of the web    *)
(* chat.  They share no state here: each behaviour is one part's, with the   *)
(* state of the others at rest.                                              *)
EXTENDS MCWorkSession, AgentWork, ChatTurn

VARIABLE part

(* The batches the model may make.  Ids are drawn by the provider, so that  *)
(* it is no loss to take the notes in their order; bound: of two calls one  *)
(* is the program.                                                          *)
InOrder(batch) ==
    /\ note2 \in Range(batch) => note1 \in used \cup Range(batch)
    /\ note3 \in Range(batch) => note2 \in used \cup Range(batch)

Drawn == {batch \in SeqsUpTo(Calls \ used, MaxBatch) :
            InOrder(batch) /\ (Len(batch) = 2 => program \in Range(batch))}

workVars == <<vars, agentVars, chatVars, part>>

WorkInit ==
    /\ part \in {"loop", "threads", "page"}
    /\ Init /\ AgentInit /\ ChatInit
    (* A prompt brings its mode; what the threads start with matters to them *)
    (* alone.                                                                *)
    /\ mode = "explore"
    /\ part # "threads" => calm

Only(p) ==
    /\ part = p /\ part' = p
    /\ IF p = "loop" THEN TRUE ELSE UNCHANGED vars
    /\ IF p = "threads" THEN TRUE ELSE UNCHANGED agentVars
    /\ IF p = "page" THEN TRUE ELSE UNCHANGED chatVars

WorkNext ==
    \/ \E m \in Modes : Only("loop") /\ Prompt(m)
    \/ Only("loop") /\ ModelTalks
    \/ Only("loop") /\ ModelFails
    \/ \E batch \in Drawn : Only("loop") /\ ModelCalls(batch)
    \/ \E batch \in Drawn : Only("loop") /\ DoomLoop(batch)
    \/ Only("loop") /\ FollowUp
    \/ Only("loop") /\ RunTool
    \/ Only("loop") /\ Deny
    \/ Only("loop") /\ Ask
    \/ Only("loop") /\ Reject
    \/ Only("loop") /\ Raise
    \/ Only("loop") /\ Reply
    \/ \E d \in {"approved", "rejected"} : Only("loop") /\ Decide(d)
    \/ Only("loop") /\ Timeout
    \/ \E p \in Prompts : Only("threads") /\ StartPrompt(p)
    \/ \E p \in Prompts : Only("threads") /\ CheckChoice(p)
    \/ Only("threads") /\ RecordChoice
    \/ Only("threads") /\ Choose
    \/ Only("threads") /\ Approve
    \/ Only("threads") /\ Wake
    \/ Only("threads") /\ Die
    \/ \E c \in AskedCalls : Only("threads") /\ CheckAnswer(c)
    \/ \E p \in Prompts : Only("threads") /\ RunAtOnce(p)
    \/ \E p \in Prompts : Only("threads") /\ OpenGate(p)
    \/ \E p \in Prompts : Only("threads") /\ LeaveGate(p)
    \/ \E p \in Prompts : Only("threads") /\ TakeMode(p)
    \/ \E p \in Prompts : Only("threads") /\ PassCall(p)
    \/ \E p \in Prompts : Only("threads") /\ AskCall(p)
    \/ \E p \in Prompts : Only("threads") /\ Register(p)
    \/ \E p \in Prompts : Only("threads") /\ StopWaiting(p)
    \/ \E p \in Prompts : Only("threads") /\ Deregister(p)
    \/ \E p \in Prompts : Only("threads") /\ EndThread(p)
    \/ \E p \in Prompts : Only("threads") /\ ThreadEnds(p)
    \/ \E cmd \in Command : Only("threads") /\ Send(cmd)
    \/ Only("page") /\ Top
    \/ Only("page") /\ AppendPrompt
    \/ Only("page") /\ ChooseMode
    \/ Only("page") /\ Submit
    \/ Only("page") /\ SendToRuntime
    \/ \E a \in {"sure", "not_sure", "raises"} : Only("page") /\ ClassifyPrompt(a)
    \/ Only("page") /\ BuildWorker
    \/ Only("page") /\ StartWorker
    \/ Only("page") /\ Look
    \/ Only("page") /\ Check
    \/ Only("page") /\ StoreMessages
    \/ Only("page") /\ FillTab
    \/ Only("page") /\ Count
    \/ Only("page") /\ Drop
    \/ Only("page") /\ Release
    \/ Only("page") /\ WorkerTurn
    \/ \E ev \in {"answer", "calls"} : Only("page") /\ StreamEvent(ev)
    \/ \E quiet \in BOOLEAN : Only("page") /\ StreamFails(quiet)
    \/ \E known \in BOOLEAN : Only("page") /\ ToolBatch(known)
    \/ \E c \in {"none", "stop"} : Only("page") /\ Touch(c)
    \/ \E c \in {"send", "mode"} : Only("page") /\ Press(c)

(* As FairSpec, AgentFairSpec and ChatSpec have it.                                   *)
WorkSpec ==
    /\ WorkInit /\ [][WorkNext]_workVars
    /\ WF_workVars(Only("loop") /\ Step)
    /\ SF_workVars(Only("loop") /\ \E d \in {"approved", "rejected"} : Decide(d))
    /\ WF_workVars(Only("threads") /\ MainStep)
    /\ \A p \in Prompts : WF_workVars(Only("threads") /\ ThreadStep(p))
    /\ \A cmd \in Command : cmd.type # "prompt" => WF_workVars(Only("threads") /\ Send(cmd))
    /\ WF_workVars(Only("page") /\ PageStep)
    /\ WF_workVars(Only("page") /\ WorkerStep)

=============================================================================
