------------------------------ MODULE ChatTurn ------------------------------
(***************************************************************************)
(* A turn of the browser chat: the page, a script that is run from the top *)
(* again and again, and the worker thread that runs the session loop for   *)
(* it (chat_app.py, chat_stop_worker.py, bash_chat_store.py).              *)
(*                                                                         *)
(* Streamlit, external here, abandons a run of the script at any of its    *)
(* accesses to the session when a widget is touched; only what the script  *)
(* keeps in the session outlives the run.                                  *)
(***************************************************************************)
EXTENDS Naturals, Sequences, FiniteSets, SequencesExt

CONSTANTS
    MaxSent,       \* prompts that are sent
    MaxTouches,    \* runs of the script that are abandoned
    MaxBatches,    \* tool batches of a worker
    MaxKept        \* commands the Shell tab keeps

ASSUME ChatAssumption == {MaxSent, MaxTouches, MaxBatches} \subseteq Nat /\ MaxKept \in Nat \ {0}

VARIABLES
    transcript,  \* MESSAGES: who spoke, and after which prompt
    waiting,     \* PENDING_LLM, and the snapshot that goes with it
    unsure,      \* PERM_MODE_GATE holds a prompt
    page,        \* where the run of the script is
    click,       \* the button that caused the run
    seen,        \* this run's copy of the worker's commands
    shellTab,    \* the commands of the Shell tab
    figures,     \* how often a turn's tokens were added to the page's totals
    worker,      \* the worker of the turn, if any
    tried,       \* the worker has retried its request
    touches, turns, over   \* how many; the results the page has taken leave of

pageVars == <<transcript, waiting, unsure, page, click, seen, shellTab, figures>>
turnVars == <<worker, tried, touches, turns, over>>
chatVars == <<pageVars, turnVars>>

NoWorker == [st |-> "none"]
NewWorker == [st |-> "new", at |-> "turn", base |-> transcript, said |-> 0, stop |-> FALSE,
              ran |-> <<>>, result |-> "none"]

Entry(w) == [who |-> w, turn |-> turns]

ChatInit ==
    /\ transcript = <<>> /\ waiting = FALSE /\ unsure = FALSE
    /\ page = "top" /\ click = "none" /\ seen = <<>> /\ shellTab = <<>> /\ figures = 0
    /\ worker = NoWorker /\ tried = FALSE
    /\ touches = 0 /\ turns = 0 /\ over = {}

-----------------------------------------------------------------------------
(* The worker: SessionRunner.run with its stream and its tools.            *)

Ends(result) == worker' = [worker EXCEPT !.st = "ended", !.result = result]

(* The loop looks for a stop before each request.                          *)
WorkerTurn ==
    /\ worker.st = "running" /\ worker.at = "turn"
    /\ IF worker.stop THEN Ends("cancelled")
       ELSE worker' = [worker EXCEPT !.at = "stream"]
    /\ tried' = FALSE
    /\ UNCHANGED <<pageVars, touches, turns, over>>

(* An event of the stream: a stop raises, and the session ends in an       *)
(* error; a delta is shown; the last one brings the answer or the calls.   *)
StreamEvent(ev) ==
    /\ worker.st = "running" /\ worker.at = "stream"
    /\ \/ worker.stop /\ Ends("error")
       \/ /\ ~worker.stop /\ ev = "answer"
          /\ worker' = [worker EXCEPT !.st = "ended", !.result = "answer", !.said = @ + 1]
       \/ /\ ~worker.stop /\ ev = "calls" /\ worker.said < MaxBatches
          /\ worker' = [worker EXCEPT !.at = "tools", !.said = @ + 1]
    /\ UNCHANGED <<pageVars, tried, touches, turns, over>>

(* Mutant of StreamFails: the count of attempts is put back by a repeat.    *)
StreamFails_Forever(quiet) ==
    /\ worker.st = "running" /\ worker.at = "stream"
    /\ IF quiet THEN tried' = ~tried /\ UNCHANGED worker ELSE UNCHANGED tried /\ Ends("error")
    /\ UNCHANGED <<pageVars, touches, turns, over>>

(* A read that times out before the first delta is repeated once; any      *)
(* other failure of the provider ends the session in an error.             *)
StreamFails(quiet) ==
    /\ worker.st = "running" /\ worker.at = "stream"
    /\ IF quiet /\ ~tried THEN tried' = TRUE /\ UNCHANGED worker
       ELSE UNCHANGED tried /\ Ends("error")
    /\ UNCHANGED <<pageVars, touches, turns, over>>

(* A batch runs its command; a stop, or a tool nobody knows, raises out of *)
(* the loop, which then has no outcome.                                    *)
ToolBatch(known) ==
    /\ worker.st = "running" /\ worker.at = "tools"
    /\ IF worker.stop \/ ~known THEN Ends("exception")
       ELSE worker' = [worker EXCEPT !.at = "turn",
                                     !.ran = Append(@, <<turns, worker.said>>)]
    /\ UNCHANGED <<pageVars, tried, touches, turns, over>>

(* The messages of the outcome: those the worker was given, and its own.   *)
OutcomeMessages ==
    worker.base \o [i \in 1 .. worker.said |-> Entry("model")]
                \o (IF worker.result = "cancelled" THEN <<Entry("note")>> ELSE <<>>)

-----------------------------------------------------------------------------
(* The page.                                                               *)

GoTo(p) == page' = p

(* st.rerun, or the end of the script and a touch: from the top, the click *)
(* spent.                                                                  *)
RunAgain == page' = "top" /\ click' = "none" /\ seen' = <<>>

(* A widget is touched while the script runs.                              *)
Touch(c) ==
    /\ touches < MaxTouches
    /\ page # "idle"
    /\ c = "stop" => worker # NoWorker
    /\ touches' = touches + 1
    /\ page' = "top" /\ click' = c /\ seen' = <<>>
    /\ UNCHANGED <<transcript, waiting, unsure, shellTab, figures, worker, tried, turns, over>>

(* The script is at rest, waiting for the user.                            *)
Press(c) ==
    /\ page = "idle"
    /\ c = "send" => ~unsure /\ turns < MaxSent
    /\ c = "mode" => unsure
    /\ page' = "top" /\ click' = c
    /\ UNCHANGED <<transcript, waiting, unsure, seen, shellTab, figures, turnVars>>

(* A question about the mode comes before a turn, a turn before the        *)
(* composer.                                                               *)
Top ==
    /\ page = "top"
    /\ GoTo(IF unsure THEN IF click = "mode" THEN "choose" ELSE "idle"
            ELSE IF waiting THEN IF worker = NoWorker THEN "build" ELSE "look"
            ELSE IF click = "send" /\ turns < MaxSent THEN "append" ELSE "idle")
    /\ UNCHANGED <<transcript, waiting, unsure, click, seen, shellTab, figures, turnVars>>

(* main up to MESSAGES.append.                                             *)
AppendPrompt ==
    /\ page = "append"
    /\ turns' = turns + 1
    /\ transcript' = Append(transcript, [who |-> "user", turn |-> turns + 1])
    /\ GoTo("classify")
    /\ UNCHANGED <<waiting, unsure, click, seen, shellTab, figures, worker, tried, touches,
                   over>>

(* The classifier decides, or the user is asked; if it raises, the script  *)
(* ends there.                                                             *)
ClassifyPrompt(answer) ==
    /\ page = "classify"
    /\ \/ answer = "sure" /\ GoTo("submit") /\ UNCHANGED <<unsure, click, seen>>
       \/ answer = "not_sure" /\ unsure' = TRUE /\ RunAgain
       \/ answer = "raises" /\ GoTo("idle") /\ UNCHANGED <<unsure, click, seen>>
    /\ UNCHANGED <<transcript, waiting, shellTab, figures, turnVars>>

(* With a running broker the prompt goes there, and the answer is a note.  *)
SendToRuntime ==
    /\ page = "classify"
    /\ transcript' = Append(transcript, Entry("note"))
    /\ RunAgain
    /\ UNCHANGED <<waiting, unsure, shellTab, figures, turnVars>>

ChooseMode ==
    /\ page = "choose"
    /\ unsure' = FALSE
    /\ GoTo("submit")
    /\ UNCHANGED <<transcript, waiting, click, seen, shellTab, figures, turnVars>>

Submit ==
    /\ page = "submit"
    /\ waiting' = TRUE
    /\ RunAgain
    /\ UNCHANGED <<transcript, unsure, shellTab, figures, turnVars>>

(* The worker is put into the session, and started two accesses later.     *)
BuildWorker ==
    /\ page = "build"
    /\ worker' = NewWorker
    /\ GoTo("start")
    /\ UNCHANGED <<transcript, waiting, unsure, click, seen, shellTab, figures, tried, touches, turns,
                   over>>

StartWorker ==
    /\ page = "start"
    /\ worker' = [worker EXCEPT !.st = "running"]
    /\ GoTo("look")
    /\ UNCHANGED <<transcript, waiting, unsure, click, seen, shellTab, figures, tried, touches, turns,
                   over>>

(* The commands are copied before it is known whether the worker is done.  *)
Look ==
    /\ page = "look"
    /\ seen' = worker.ran
    /\ GoTo("check")
    /\ UNCHANGED <<transcript, waiting, unsure, click, shellTab, figures, turnVars>>

(* Mutant of Check: the next prompt is let in before the turn is stored.   *)
Check_ReleasesFirst ==
    /\ page = "check"
    /\ IF worker.st = "ended"
       THEN /\ GoTo(IF worker.result = "exception" THEN "drop" ELSE "store")
            /\ waiting' = FALSE
            /\ UNCHANGED <<click, seen, worker>>
       ELSE /\ worker' = [worker EXCEPT !.stop = @ \/ click = "stop"]
            /\ RunAgain /\ UNCHANGED waiting
    /\ UNCHANGED <<transcript, unsure, shellTab, figures, tried, touches, turns, over>>

(* A worker that is not done is asked to stop, if that was the click, and  *)
(* looked at again after a while.                                          *)
Check ==
    /\ page = "check"
    /\ IF worker.st = "ended"
       THEN /\ GoTo(IF worker.result = "exception" THEN "drop" ELSE "store")
            /\ UNCHANGED <<click, seen, worker>>
       ELSE /\ worker' = [worker EXCEPT !.stop = @ \/ click = "stop"]
            /\ RunAgain
    /\ UNCHANGED <<transcript, waiting, unsure, shellTab, figures, tried, touches, turns,
                   over>>

StoreMessages ==
    /\ page = "store"
    /\ transcript' = OutcomeMessages
    /\ GoTo("tab")
    /\ UNCHANGED <<waiting, unsure, click, seen, shellTab, figures, turnVars>>

(* append_execution for each: an entry of the same call is replaced, the   *)
(* oldest go.                                                              *)
FillTab ==
    /\ page = "tab"
    /\ LET new == SelectSeq(seen, LAMBDA r : r \notin Range(shellTab))
           all == shellTab \o new
       IN  shellTab' = SubSeq(all, IF Len(all) > MaxKept THEN Len(all) - MaxKept + 1 ELSE 1,
                              Len(all))
    /\ GoTo("count")
    /\ UNCHANGED <<transcript, waiting, unsure, click, seen, figures, turnVars>>

(* merge_events_into_cumulative *)
Count ==
    /\ page = "count"
    /\ figures' = figures + 1
    /\ GoTo("drop")
    /\ UNCHANGED <<transcript, waiting, unsure, click, seen, shellTab, turnVars>>

Drop ==
    /\ page = "drop"
    /\ over' = over \cup {[turn |-> turns, result |-> worker.result, said |-> worker.said]}
    /\ worker' = NoWorker
    /\ GoTo("release")
    /\ UNCHANGED <<transcript, waiting, unsure, click, seen, shellTab, figures, tried, touches,
                   turns>>

Release ==
    /\ page = "release"
    /\ waiting' = FALSE
    /\ RunAgain
    /\ UNCHANGED <<transcript, unsure, shellTab, figures, turnVars>>

PageStep ==
    \/ Top \/ AppendPrompt \/ ChooseMode \/ Submit \/ SendToRuntime
    \/ \E a \in {"sure", "not_sure", "raises"} : ClassifyPrompt(a)
    \/ BuildWorker \/ StartWorker \/ Look \/ Check
    \/ StoreMessages \/ FillTab \/ Count \/ Drop \/ Release

WorkerStep ==
    \/ WorkerTurn
    \/ \E ev \in {"answer", "calls"} : StreamEvent(ev)
    \/ \E quiet \in BOOLEAN : StreamFails(quiet)
    \/ \E known \in BOOLEAN : ToolBatch(known)

ChatNext ==
    \/ PageStep \/ WorkerStep
    \/ \E c \in {"none", "stop"} : Touch(c)
    \/ \E c \in {"send", "mode"} : Press(c)

(* Streamlit runs the script to its end or its next touch; the worker is a *)
(* thread, and a request of it brings an event or times out.               *)
ChatSpec == ChatInit /\ [][ChatNext]_chatVars /\ WF_chatVars(PageStep) /\ WF_chatVars(WorkerStep)

-----------------------------------------------------------------------------

(* What the transcript keeps: every prompt, in order and each once, what    *)
(* was said of a prompt after it and before the next, and of a turn that    *)
(* ended with an outcome all that its worker said.                          *)
SaidOf(ts, n) == {i \in 1 .. Len(ts) : ts[i].who = "model" /\ ts[i].turn = n}

Keeps(ts) ==
    /\ \A n \in 1 .. turns : \E i \in 1 .. Len(ts) : ts[i] = [who |-> "user", turn |-> n]
    /\ \A i \in 1 .. Len(ts) : ts[i].turn \in 1 .. turns
    /\ \A i, j \in 1 .. Len(ts) : i < j =>
          /\ ts[i].turn <= ts[j].turn
          /\ ts[j].who = "user" => ts[i].turn < ts[j].turn
    /\ \A o \in over : o.result # "exception" => Cardinality(SaidOf(ts, o.turn)) >= o.said

TurnsOver == {o.turn : o \in {o \in over : o.result # "exception"}}

(* Whatever run of the script is abandoned wherever, the conversation is    *)
(* kept, and each turn that ended with an outcome is in the totals.         *)
TurnsAreKept == Keeps(transcript) /\ figures >= Cardinality(TurnsOver)

(* A running worker that was told to stop is taken off the page, whatever  *)
(* it was doing.                                                           *)
StopEndsTurn == (worker.st = "running" /\ worker.stop) ~> (worker = NoWorker)

=============================================================================
