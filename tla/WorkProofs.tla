----------------------------- MODULE WorkProofs ------------------------------
(***************************************************************************)
(* Proofs about the work of a chat: its tool calls, for any calls, modes,  *)
(* policy and bounds; the threads of AgentWork, for any number of prompts  *)
(* and of calls that need approval, with late and early answers and a      *)
(* process that may die at any step; and the browser page, for any number  *)
(* of prompts, abandoned runs and batches.                                 *)
(***************************************************************************)
EXTENDS WorkSession, AgentWork, ChatTurn, FiniteSetTheorems, SequenceTheorems, TLAPS

(***************************************************************************)
(* The tool calls.                                                         *)
(***************************************************************************)

(* What the prompts and the executor keep, and what only grows. *)
LoopShape ==
    /\ phase \in {"idle", "loop", "batch", "asking"}
    /\ mode \in Modes
    /\ open \in Seq(Calls)
    /\ kept \in Seq(Calls)
    /\ pos \in 1..(Len(open) + 1)
    /\ done \in SUBSET Calls
    /\ decision \in [Calls -> {"pending", "approved", "rejected"}]
    /\ streak.n \in 0..1
    /\ repaired \in BOOLEAN
    /\ prompts \in 0..MaxPrompts

HistoryShape ==
    /\ used \in SUBSET Calls
    /\ batches \in SUBSET Seq(Calls)
    /\ asked \in SUBSET Calls
    /\ given \in SUBSET Calls
    /\ runs \in [Calls -> Nat]
    /\ landed \in SUBSET Calls
    /\ reported \in SUBSET Calls
    /\ taken \in SUBSET Modes

LEMMA Split == TypeOK <=> LoopShape /\ HistoryShape
BY DEF TypeOK, LoopShape, HistoryShape

LEMMA NoStreakN == NoStreak.n \in 0..1
BY DEF NoStreak

LEMMA FirstPlace ==
    ASSUME NEW batch \in Seq(Calls)
    PROVE  1 \in 1..(Len(batch) + 1)
<1>1. Len(batch) \in Nat
  OBVIOUS
<1> QED BY <1>1

LEMMA EmptyBatch == <<>> \in Seq(Calls)
OBVIOUS

LEMMA EndPromptShape ==
    ASSUME LoopShape, NEW calls \in Seq(Calls), EndPrompt(calls)
    PROVE  LoopShape'
BY DEF LoopShape, EndPrompt

LEMMA FinishShape ==
    ASSUME LoopShape, NEW calls \in Seq(Calls), Finish(calls)
    PROVE  LoopShape'
<1>1. CASE EndPrompt(calls)
  BY <1>1, EndPromptShape
<1>2. CASE /\ repaired' = TRUE
           /\ open' = calls
           /\ StartRun
           /\ UNCHANGED <<mode, kept, decision, prompts>>
  BY <1>2, FirstPlace, NoStreakN DEF LoopShape, StartRun
<1> QED BY <1>1, <1>2 DEF Finish, Repair

LEMMA CurrentIsCall ==
    ASSUME LoopShape, InBatch
    PROVE  pos \in 1..Len(open) /\ Current \in Calls
BY DEF LoopShape, InBatch, Current

LEMMA BatchIsSeq ==
    ASSUME NEW batch \in SeqsUpTo(Calls \ used, MaxBatch)
    PROVE  batch \in Seq(Calls) /\ Range(batch) \subseteq Calls
<1>1. PICK k \in 0..MaxBatch : batch \in [1..k -> Calls \ used]
  BY DEF SeqsUpTo
<1>2. k \in Nat
  BY WorkSessionAssumption
<1>3. batch \in [1..k -> Calls]
  BY <1>1
<1>4. batch \in Seq(Calls)
  BY <1>2, <1>3
<1>5. Range(batch) \subseteq Calls
  BY <1>3 DEF Range
<1> QED BY <1>4, <1>5

LEMMA TypeStep ==
    ASSUME TypeOK, [Next]_vars
    PROVE  TypeOK'
<1> SUFFICES LoopShape' /\ HistoryShape'
  BY Split DEF TypeOK, LoopShape, HistoryShape
<1>0. LoopShape /\ HistoryShape
  BY Split
<1> USE <1>0
<1>1. CASE \E m \in Modes : Prompt(m)
  <2>1. prompts + 1 \in 0..MaxPrompts
    BY <1>1, WorkSessionAssumption DEF LoopShape, Prompt
  <2>2. LoopShape'
    BY <1>1, <2>1, FirstPlace, NoStreakN DEF LoopShape, Prompt, StartRun
  <2> QED BY <1>1, <2>2 DEF HistoryShape, Prompt, history
<1>2. CASE ModelTalks
  <2>1. <<>> \in Seq(Calls) /\ Finish(<<>>)
    BY <1>2 DEF ModelTalks, ModelAsked
  <2>2. LoopShape'
    BY <2>1, FinishShape
  <2> QED BY <1>2, <2>2 DEF ModelTalks, HistoryShape, history, ModelAsked
<1>3. CASE ModelFails
  <2>1. <<>> \in Seq(Calls) /\ EndPrompt(<<>>)
    BY <1>3 DEF ModelFails, ModelAsked
  <2>2. LoopShape'
    BY <2>1, EndPromptShape
  <2> QED BY <1>3, <2>2 DEF ModelFails, HistoryShape, history, ModelAsked
<1>4. ASSUME NEW batch \in SeqsUpTo(Calls \ used, MaxBatch), ModelCalls(batch)
      PROVE  LoopShape' /\ HistoryShape'
  <2>1. batch \in Seq(Calls) /\ Range(batch) \subseteq Calls
    BY BatchIsSeq
  <2>2. Repeats(batch) \in 0..1
    <3>1. streak.n + 1 \in Nat
      BY DEF LoopShape
    <3>2. Repeats(batch) \in Nat
      BY <3>1 DEF Repeats
    <3> QED BY <1>4, <3>2 DEF ModelCalls
  <2>3. LoopShape'
    BY <1>4, <2>1, <2>2 DEF LoopShape, ModelCalls
  <2>4. HistoryShape'
    BY <1>4, <2>1 DEF HistoryShape, ModelCalls, NewBatch, ModelAsked
  <2> QED BY <2>3, <2>4
<1>5. ASSUME NEW batch \in SeqsUpTo(Calls \ used, MaxBatch), DoomLoop(batch)
      PROVE  LoopShape' /\ HistoryShape'
  <2>1. batch \in Seq(Calls) /\ Range(batch) \subseteq Calls
    BY BatchIsSeq
  <2>2. LoopShape'
    BY <1>5, <2>1, FinishShape DEF DoomLoop
  <2>3. HistoryShape'
    BY <1>5, <2>1 DEF HistoryShape, DoomLoop, NewBatch, ModelAsked
  <2> QED BY <2>2, <2>3
<1>6. CASE FollowUp
  BY <1>6 DEF LoopShape, HistoryShape, FollowUp, history
<1>7. CASE RunTool
  <2>1. pos \in 1..Len(open) /\ Current \in Calls
    BY <1>7, CurrentIsCall DEF RunTool
  <2>2. LoopShape'
    BY <1>7, <2>1 DEF LoopShape, RunTool
  <2>3. HistoryShape'
    BY <1>7, <2>1 DEF HistoryShape, RunTool
  <2> QED BY <2>2, <2>3
<1>8. CASE Deny
  <2>1. pos \in 1..Len(open)
    BY <1>8, CurrentIsCall DEF Deny
  <2> QED BY <1>8, <2>1 DEF LoopShape, HistoryShape, Deny, history
<1>9. CASE Ask
  <2>1. Current \in Calls
    BY <1>9, CurrentIsCall DEF Ask, Undecided
  <2> QED BY <1>9, <2>1 DEF LoopShape, HistoryShape, Ask
<1>10. CASE Reject
  <2>1. LoopShape'
    BY <1>10, EndPromptShape DEF Reject, LoopShape
  <2> QED BY <1>10, <2>1 DEF Reject, HistoryShape, history
<1>11. CASE Raise
  <2>1. LoopShape'
    BY <1>11, EndPromptShape DEF Raise, LoopShape
  <2> QED BY <1>11, <2>1 DEF Raise, HistoryShape, history
<1>12. CASE Reply
  BY <1>12 DEF LoopShape, HistoryShape, Reply, SendFeedback
<1>13. CASE \E d \in {"approved", "rejected"} : Decide(d)
  <2>1. LoopShape'
    BY <1>13, FirstPlace, NoStreakN DEF LoopShape, Decide, StartRun
  <2> QED BY <1>13, <2>1 DEF HistoryShape, Decide, history
<1>14. CASE Timeout
  <2>1. LoopShape'
    BY <1>14, FirstPlace, NoStreakN DEF LoopShape, Timeout, StartRun
  <2> QED BY <1>14, <2>1 DEF HistoryShape, Timeout, history
<1>15. CASE UNCHANGED vars
  BY <1>15 DEF LoopShape, HistoryShape, vars, history
<1> QED
  BY <1>1, <1>2, <1>3, <1>4, <1>5, <1>6, <1>7, <1>8, <1>9, <1>10, <1>11, <1>12, <1>13,
     <1>14, <1>15 DEF Next, Step

LEMMA TypeInit ==
    ASSUME Init
    PROVE  TypeOK
<1>1. LoopShape
  <2>1. open = <<>> /\ kept = <<>> /\ pos = 1 /\ streak = NoStreak
    BY DEF Init
  <2>2. open \in Seq(Calls) /\ kept \in Seq(Calls) /\ pos \in 1..(Len(open) + 1)
    BY <2>1, EmptyBatch, FirstPlace
  <2>3. streak.n \in 0..1
    BY <2>1, NoStreakN
  <2>4. prompts \in 0..MaxPrompts
    BY WorkSessionAssumption DEF Init
  <2> QED BY <2>2, <2>3, <2>4 DEF Init, LoopShape
<1>2. HistoryShape
  BY DEF Init, HistoryShape
<1> QED BY <1>1, <1>2, Split

(* The session's state keeps its types. *)
THEOREM TypeCorrect == Spec => []TypeOK
BY TypeInit, TypeStep, PTL DEF Spec

-----------------------------------------------------------------------------
(* Change feedback: what a pass counts as done has landed.                   *)

FeedbackInv == done \subseteq landed /\ ReportedLanded

LEMMA FeedbackStep ==
    ASSUME FeedbackInv, [Next]_vars
    PROVE  FeedbackInv'
<1> USE DEF FeedbackInv, ReportedLanded
<1>1. CASE \E m \in Modes : Prompt(m)
  BY <1>1 DEF Prompt, StartRun, history
<1>2. CASE ModelTalks
  BY <1>2 DEF ModelTalks, Finish, EndPrompt, StartRun, history, ModelAsked, Repair
<1>3. CASE ModelFails
  BY <1>3 DEF ModelFails, EndPrompt, history, ModelAsked
<1>4. ASSUME NEW batch, ModelCalls(batch)
      PROVE  FeedbackInv'
  BY <1>4 DEF ModelCalls, NewBatch, ModelAsked
<1>5. ASSUME NEW batch, DoomLoop(batch)
      PROVE  FeedbackInv'
  BY <1>5 DEF DoomLoop, NewBatch, Finish, EndPrompt, StartRun, ModelAsked, Repair
<1>6. CASE RunTool
  BY <1>6 DEF RunTool
<1>7. CASE FollowUp \/ Deny
  BY <1>7 DEF FollowUp, Deny, history
<1>8. CASE Ask
  BY <1>8 DEF Ask
<1>9. CASE Reject \/ Raise
  BY <1>9 DEF Reject, Raise, EndPrompt, history
<1>10. CASE Reply
  BY <1>10 DEF Reply, SendFeedback
<1>11. CASE \E d \in {"approved", "rejected"} : Decide(d)
  BY <1>11 DEF Decide, StartRun, history
<1>12. CASE Timeout
  BY <1>12 DEF Timeout, StartRun, history
<1>13. CASE UNCHANGED vars
  BY <1>13 DEF vars, history
<1> QED
  BY <1>1, <1>2, <1>3, <1>4, <1>5, <1>6, <1>7, <1>8, <1>9, <1>10, <1>11, <1>12, <1>13
  DEF Next, Step

(* Only writes whose handler succeeded are reported to AgentMemory, however *)
(* often their batch is executed and whatever ends the passes.              *)
THEOREM FeedbackIsTrue == Spec => []ReportedLanded
<1>1. Init => FeedbackInv
  BY DEF Init, FeedbackInv, ReportedLanded
<1>2. FeedbackInv /\ [Next]_vars => FeedbackInv'
  BY FeedbackStep
<1>3. FeedbackInv => ReportedLanded
  BY DEF FeedbackInv
<1> QED BY <1>1, <1>2, <1>3, PTL DEF Spec

-----------------------------------------------------------------------------
(* Rejections.  A call that has run was approved, or a prompt had a mode     *)
(* that allows it; the operator decides once, on a call that is pending.     *)

ModeIsTaken == phase # "idle" => mode \in taken

RanPermitted ==
    \A c \in Calls : runs[c] > 0 =>
        \/ decision[c] = "approved"
        \/ \E m \in taken : Policy[m][c] = "allow"

AskingUndecided ==
    phase = "asking" =>
        /\ pos \in 1..Len(open)
        /\ decision[Current] = "pending"

RulesInv == ModeIsTaken /\ RanPermitted /\ AskingUndecided

(* A step that decides nothing, runs nothing and asks nothing. *)
LEMMA RulesUntouched ==
    ASSUME RulesInv, decision' = decision, runs' = runs, phase' # "asking",
           taken \subseteq taken', phase' # "idle" => mode' \in taken'
    PROVE  RulesInv'
BY DEF RulesInv, ModeIsTaken, RanPermitted, AskingUndecided

(* The same within a prompt. *)
LEMMA RulesStay ==
    ASSUME RulesInv, decision' = decision, runs' = runs, phase' # "asking", phase # "idle",
           taken' = taken, mode' = mode
    PROVE  RulesInv'
BY RulesUntouched DEF RulesInv, ModeIsTaken

LEMMA RulesStep ==
    ASSUME TypeOK, RulesInv, [Next]_vars
    PROVE  RulesInv'
<1>1. CASE \E m \in Modes : Prompt(m)
  BY <1>1, RulesUntouched DEF Prompt, StartRun
<1>2. CASE ModelTalks \/ ModelFails
  BY <1>2, RulesStay
  DEF ModelTalks, ModelFails, Finish, EndPrompt, StartRun, history, ModelAsked, Repair
<1>3. ASSUME NEW batch, ModelCalls(batch)
      PROVE  RulesInv'
  BY <1>3, RulesStay DEF ModelCalls, NewBatch, ModelAsked
<1>4. ASSUME NEW batch, DoomLoop(batch)
      PROVE  RulesInv'
  BY <1>4, RulesStay DEF DoomLoop, NewBatch, Finish, EndPrompt, StartRun, ModelAsked, Repair
<1>5. CASE FollowUp
  BY <1>5, RulesStay DEF FollowUp, history
<1>6. CASE RunTool
  <2>1. decision[Current] = "approved" \/ Policy[mode][Current] = "allow"
    BY <1>6 DEF RunTool, Permitted
  <2>2. \A c \in Calls : c # Current => runs'[c] = runs[c]
    BY <1>6 DEF RunTool, TypeOK
  <2>3. decision' = decision /\ mode' = mode /\ taken' = taken /\ phase' = "batch" /\ phase = "batch"
    BY <1>6 DEF RunTool, InBatch
  <2>4. RanPermitted'
    <3> SUFFICES ASSUME NEW c \in Calls, runs'[c] > 0
                 PROVE  decision'[c] = "approved" \/ \E m \in taken' : Policy[m][c] = "allow"
      BY DEF RanPermitted
    <3>1. decision[c] = "approved" \/ \E m \in taken : Policy[m][c] = "allow"
      BY <2>1, <2>2, <2>3 DEF RulesInv, RanPermitted, ModeIsTaken, TypeOK
    <3> QED BY <2>3, <3>1
  <2> QED BY <2>3, <2>4 DEF RulesInv, AskingUndecided, ModeIsTaken
<1>7. CASE Deny
  BY <1>7, RulesStay DEF Deny, InBatch, history
<1>8. CASE Ask
  <2>1. pos \in 1..Len(open)
    BY <1>8, Split, CurrentIsCall DEF Ask, Undecided
  <2>2. decision[Current] = "pending"
    BY <1>8 DEF Ask, Undecided
  <2>3. /\ mode' = mode /\ open' = open /\ pos' = pos /\ decision' = decision /\ runs' = runs
        /\ taken' = taken /\ phase # "idle"
    BY <1>8 DEF Ask, Undecided, InBatch
  <2>4. AskingUndecided'
    BY <2>1, <2>2, <2>3 DEF AskingUndecided, Current
  <2> QED BY <2>3, <2>4 DEF RulesInv, RanPermitted, ModeIsTaken
<1>9. CASE Reject \/ Raise
  BY <1>9, RulesStay DEF Reject, Refused, Raise, InBatch, EndPrompt, history
<1>10. CASE Reply
  <2>1. /\ decision' = decision /\ runs' = runs /\ taken' = taken /\ mode' = mode
        /\ phase = "batch" /\ phase' = "loop"
    BY <1>10 DEF Reply
  <2> QED BY <2>1, RulesStay
<1>11. ASSUME NEW d \in {"approved", "rejected"}, Decide(d)
       PROVE  RulesInv'
  <2>1. phase = "asking" /\ decision[Current] = "pending" /\ pos \in 1..Len(open)
    BY <1>11 DEF Decide, RulesInv, AskingUndecided
  <2>2. mode' = mode /\ runs' = runs /\ taken' = taken /\ phase' = "loop"
    BY <1>11 DEF Decide, StartRun, history
  <2>3. \A c \in Calls : decision'[c] = "approved" \/ decision'[c] = decision[c]
                        \/ decision[c] # "approved"
    BY <2>1, <1>11 DEF Decide, TypeOK
  <2>4. RanPermitted'
    BY <2>2, <2>3 DEF RulesInv, RanPermitted
  <2> QED BY <2>1, <2>2, <2>4 DEF RulesInv, AskingUndecided, ModeIsTaken
<1>12. CASE Timeout
  BY <1>12, RulesStay DEF Timeout, StartRun, history
<1>13. CASE UNCHANGED vars
  BY <1>13 DEF vars, history, RulesInv, ModeIsTaken, RanPermitted, AskingUndecided,
     Current
<1> QED
  BY <1>1, <1>2, <1>3, <1>4, <1>5, <1>6, <1>7, <1>8, <1>9, <1>10, <1>11, <1>12, <1>13
  DEF Next, Step

(* A call the operator rejected has run only if some prompt had a mode that *)
(* does not ask about it, in however many later prompts its batch is taken  *)
(* up again (loop.py:1540), for any calls, modes and policy.                *)
THEOREM RejectionOutlastsPrompts == Spec => []RejectedRunsOnlyUnasked
<1>1. Init => TypeOK /\ RulesInv
  <2> SUFFICES ASSUME Init
               PROVE  TypeOK /\ RulesInv
    OBVIOUS
  <2>1. ModeIsTaken /\ RanPermitted /\ AskingUndecided
    BY DEF Init, ModeIsTaken, RanPermitted, AskingUndecided
  <2> QED BY <2>1, TypeInit DEF RulesInv
<1>2. TypeOK /\ RulesInv /\ [Next]_vars => TypeOK' /\ RulesInv'
  BY TypeStep, RulesStep
<1>3. TypeOK /\ RulesInv => RejectedRunsOnlyUnasked
  BY DEF RulesInv, RanPermitted, RejectedRunsOnlyUnasked
<1> QED BY <1>1, <1>2, <1>3, PTL DEF Spec

-----------------------------------------------------------------------------
(* Second runs.  RerunHasReason says nothing of the calls that are about to  *)
(* run.  What carries it is that a call ahead of the executor that has run   *)
(* before has its reason already: a pass that stops stops with a question,   *)
(* and a batch the history brings back was left by one of the two ways a     *)
(* prompt has of leaving it.                                                 *)

Left(b, answers, givenUp) == \E d \in Range(b) : answers[d] = "rejected" \/ d \in givenUp

LeftOpen(b) == Left(b, decision, given)

HasReason(c) ==
    \E b \in batches : \E i \in DOMAIN b :
        /\ b[i] = c
        /\ \/ \E j \in DOMAIN b : i < j /\ b[j] \in asked
           \/ used \cap Unknown # {} /\ LeftOpen(b)

(* A call is of one batch, and of one place in it. *)
CallsAreUsed ==
    /\ \A b \in batches : Range(b) \subseteq used /\ IsInjective(b)
    /\ \A c \in Calls : runs[c] > 0 => c \in used
    /\ \A c \in Calls : decision[c] # "pending" => c \in asked

BatchesAreKnown ==
    /\ open # <<>> => open \in batches
    /\ kept # <<>> => kept \in batches /\ LeftOpen(kept)
    /\ phase = "idle" => open = kept
    /\ phase \in {"idle", "loop"} => pos = 1
    /\ phase = "asking" => pos \in DOMAIN open /\ open[pos] \in asked
                               /\ decision[open[pos]] = "pending"

AheadHaveReason ==
    \A i \in DOMAIN open : i >= pos /\ runs[open[i]] > 0 => HasReason(open[i])

RerunInv == CallsAreUsed /\ BatchesAreKnown /\ AheadHaveReason /\ RerunHasReason

(* The actions, by what they do to the history of the calls. *)
LEMMA HistoryGrows ==
    ASSUME TypeOK, RerunInv, [Next]_vars
    PROVE  /\ used \subseteq used'
           /\ batches \subseteq batches'
           /\ asked \subseteq asked'
           /\ given \subseteq given'
           /\ \A c \in Calls : decision[c] # "pending" => decision'[c] = decision[c]
<1>1. CASE \E d \in {"approved", "rejected"} : Decide(d)
  BY <1>1 DEF Decide, StartRun, history, RerunInv, BatchesAreKnown, Current, TypeOK
<1>2. CASE (\E m \in Modes : Prompt(m)) \/ Timeout
  BY <1>2 DEF Prompt, Timeout, StartRun, history
<1>3. CASE ModelTalks \/ ModelFails
  BY <1>3 DEF ModelTalks, ModelFails, ModelAsked, Finish, EndPrompt, Repair, StartRun, history
<1>4. ASSUME NEW batch, ModelCalls(batch) \/ DoomLoop(batch)
      PROVE  /\ used \subseteq used'
             /\ batches \subseteq batches'
             /\ asked \subseteq asked'
             /\ given \subseteq given'
             /\ decision' = decision
  BY <1>4 DEF ModelCalls, DoomLoop, NewBatch, ModelAsked, Finish, EndPrompt, Repair, StartRun
<1>5. CASE FollowUp \/ RunTool \/ Deny \/ Ask
  BY <1>5 DEF FollowUp, RunTool, Deny, Ask, history
<1>6. CASE Reject \/ Raise \/ Reply
  BY <1>6 DEF Reject, Raise, Reply, EndPrompt, history
<1>7. CASE UNCHANGED vars
  BY <1>7 DEF vars, history
<1> QED BY <1>1, <1>2, <1>3, <1>4, <1>5, <1>6, <1>7 DEF Next, Step

LEMMA RangeIsCalls ==
    ASSUME TypeOK, NEW b \in batches
    PROVE  Range(b) \subseteq Calls
<1>1. b \in Seq(Calls)
  BY DEF TypeOK
<1> QED BY <1>1 DEF Range

(* A reason stays one. *)
LEMMA ReasonLasts ==
    ASSUME TypeOK, RerunInv, [Next]_vars
    PROVE  /\ \A b \in batches : LeftOpen(b) => Left(b, decision', given')
           /\ \A c \in Calls : HasReason(c) => HasReason(c)'
<1>1. \A b \in batches : LeftOpen(b) => Left(b, decision', given')
  BY HistoryGrows, RangeIsCalls DEF LeftOpen, Left
<1>2. ASSUME NEW c \in Calls, HasReason(c)
      PROVE  HasReason(c)'
  <2>0. PICK b \in batches : \E i \in DOMAIN b :
          /\ b[i] = c
          /\ \/ \E j \in DOMAIN b : i < j /\ b[j] \in asked
             \/ used \cap Unknown # {} /\ LeftOpen(b)
    BY <1>2 DEF HasReason
  <2>1. PICK i \in DOMAIN b :
          /\ b[i] = c
          /\ \/ \E j \in DOMAIN b : i < j /\ b[j] \in asked
             \/ used \cap Unknown # {} /\ LeftOpen(b)
    BY <2>0
  <2>2. b \in batches'
    BY HistoryGrows
  <2>3. \/ \E j \in DOMAIN b : i < j /\ b[j] \in asked'
        \/ used' \cap Unknown # {} /\ Left(b, decision', given')
    BY <1>1, <2>1, HistoryGrows
  <2> QED BY <2>1, <2>2, <2>3 DEF HasReason, LeftOpen
<1> QED BY <1>1, <1>2

(* A new batch is of calls that have not run, and stands in no other. *)
LEMMA NewBatchIsNew ==
    ASSUME TypeOK, RerunInv,
           NEW batch \in SeqsUpTo(Calls \ used, MaxBatch), NewBatch(batch)
    PROVE  /\ batch \in Seq(Calls)
           /\ batch \in batches'
           /\ \A i \in DOMAIN batch : runs[batch[i]] = 0
           /\ \A b \in batches' : Range(b) \subseteq used' /\ IsInjective(b)
<1>1. PICK k \in 0..MaxBatch : batch \in [1..k -> Calls \ used]
  BY DEF SeqsUpTo
<1>2. \A i \in DOMAIN batch : runs[batch[i]] = 0
  BY <1>1 DEF RerunInv, CallsAreUsed, TypeOK
<1>3. \A b \in batches' : Range(b) \subseteq used' /\ IsInjective(b)
  BY DEF NewBatch, RerunInv, CallsAreUsed
<1>4. batch \in batches'
  BY DEF NewBatch
<1> QED BY <1>2, <1>3, <1>4, BatchIsSeq

LEMMA CallsAreUsedStep ==
    ASSUME TypeOK, RerunInv, [Next]_vars
    PROVE  CallsAreUsed'
<1> USE DEF RerunInv, CallsAreUsed
<1>1. ASSUME NEW d \in {"approved", "rejected"}, Decide(d)
      PROVE  CallsAreUsed'
  <2>1. /\ UNCHANGED <<used, batches, asked, runs>>
        /\ decision' = [decision EXCEPT ![Current] = d]
        /\ Current \in asked
    BY <1>1 DEF Decide, history, BatchesAreKnown, Current
  <2> QED BY <2>1 DEF TypeOK
<1>2. CASE (\E m \in Modes : Prompt(m)) \/ Timeout
  BY <1>2 DEF Prompt, Timeout, StartRun, history
<1>3. CASE ModelTalks \/ ModelFails
  BY <1>3 DEF ModelTalks, ModelFails, ModelAsked, Finish, EndPrompt, Repair, StartRun, history
<1>4. ASSUME NEW batch \in SeqsUpTo(Calls \ used, MaxBatch), ModelCalls(batch) \/ DoomLoop(batch)
      PROVE  CallsAreUsed'
  <2>1. NewBatch(batch) /\ UNCHANGED <<asked, runs, decision>> /\ used \subseteq used'
    BY <1>4 DEF ModelCalls, DoomLoop, NewBatch, Finish, EndPrompt, Repair, StartRun
  <2> QED BY <2>1, NewBatchIsNew
<1>5. CASE FollowUp \/ Deny
  BY <1>5 DEF FollowUp, Deny, history
<1>6. CASE RunTool
  <2>1. /\ UNCHANGED <<used, batches, asked, decision>>
        /\ runs' = [runs EXCEPT ![Current] = @ + 1]
    BY <1>6 DEF RunTool
  <2>2. open \in Seq(Calls) /\ pos \in 1..Len(open) /\ Current = open[pos]
    BY <1>6, Split, CurrentIsCall DEF RunTool, Current, TypeOK
  <2>3. Current \in used
    <3>1. open \in batches /\ pos \in DOMAIN open
      BY <2>2 DEF BatchesAreKnown
    <3> QED BY <2>2, <3>1 DEF Range
  <2> QED BY <2>1, <2>3 DEF TypeOK
<1>7. CASE Ask
  BY <1>7 DEF Ask
<1>8. CASE Reject \/ Raise \/ Reply
  BY <1>8 DEF Reject, Raise, Reply, EndPrompt, history
<1>9. CASE UNCHANGED vars
  BY <1>9 DEF vars, history
<1> QED BY <1>1, <1>2, <1>3, <1>4, <1>5, <1>6, <1>7, <1>8, <1>9 DEF Next, Step

(* The end of a prompt leaves a batch that says why, or none. *)
LEMMA EndKeepsKnown ==
    ASSUME NEW calls, EndPrompt(calls),
           calls # <<>> => calls \in batches' /\ Left(calls, decision', given')
    PROVE  BatchesAreKnown'
BY DEF EndPrompt, BatchesAreKnown, LeftOpen

(* The same, or the repair phase's run on the messages as they are. *)
LEMMA FinishKeepsKnown ==
    ASSUME TypeOK, RerunInv, [Next]_vars, NEW calls, Finish(calls),
           calls # <<>> => calls \in batches' /\ Left(calls, decision', given')
    PROVE  BatchesAreKnown'
<1>1. CASE EndPrompt(calls)
  BY <1>1, EndKeepsKnown
<1>2. CASE Repair(calls)
  BY <1>2, HistoryGrows, ReasonLasts DEF Repair, StartRun, RerunInv, BatchesAreKnown, LeftOpen
<1> QED BY <1>1, <1>2 DEF Finish

LEMMA BatchesAreKnownStep ==
    ASSUME TypeOK, RerunInv, [Next]_vars
    PROVE  BatchesAreKnown'
<1> USE DEF RerunInv, BatchesAreKnown, LeftOpen
<1>0. /\ open # <<>> => open \in batches'
      /\ kept # <<>> => kept \in batches' /\ Left(kept, decision', given')
  BY HistoryGrows, ReasonLasts
<1>1. CASE (\E d \in {"approved", "rejected"} : Decide(d)) \/ Timeout
  BY <1>0, <1>1 DEF Decide, Timeout, StartRun
<1>2. CASE \E m \in Modes : Prompt(m)
  BY <1>0, <1>2 DEF Prompt, StartRun
<1>3. CASE ModelTalks \/ ModelFails
  <2>1. Finish(<<>>)
    BY <1>3 DEF ModelTalks, ModelFails, Finish
  <2> QED BY <2>1, FinishKeepsKnown
<1>4. ASSUME NEW batch \in SeqsUpTo(Calls \ used, MaxBatch), ModelCalls(batch)
      PROVE  BatchesAreKnown'
  <2>1. batch \in batches'
    BY <1>4 DEF ModelCalls, NewBatch
  <2> QED BY <1>0, <1>4, <2>1 DEF ModelCalls
<1>5. ASSUME NEW batch \in SeqsUpTo(Calls \ used, MaxBatch), DoomLoop(batch)
      PROVE  BatchesAreKnown'
  <2>1. batch \in batches' /\ batch \in Seq(Calls) /\ batch # <<>>
    BY <1>5, NewBatchIsNew DEF DoomLoop, NewBatch
  <2>2. 1 \in DOMAIN batch
    BY <2>1
  <2>3. Range(batch) # {} /\ Range(batch) \subseteq given'
    BY <1>5, <2>2 DEF DoomLoop, Range
  <2>4. Left(batch, decision', given')
    BY <2>3 DEF Left
  <2> QED BY <1>5, <2>1, <2>4, FinishKeepsKnown DEF DoomLoop
<1>6. CASE FollowUp \/ RunTool \/ Deny
  BY <1>0, <1>6 DEF FollowUp, RunTool, Deny, InBatch
<1>7. CASE Ask
  <2>1. open \in Seq(Calls) /\ pos \in 1..Len(open) /\ Current = open[pos]
    BY <1>7, Split, CurrentIsCall DEF Ask, Undecided, Current, TypeOK
  <2>2. /\ UNCHANGED <<open, kept, pos, decision>>
        /\ phase' = "asking"
        /\ Current \in asked'
        /\ decision[Current] = "pending"
    BY <1>7 DEF Ask, Undecided
  <2> QED BY <1>0, <2>1, <2>2
<1>8. CASE Reject
  <2>1. open \in Seq(Calls) /\ pos \in 1..Len(open) /\ Current = open[pos]
    BY <1>8, Split, CurrentIsCall DEF Reject, Refused, Current, TypeOK
  <2>2. decision'[Current] = "rejected"
    BY <1>8 DEF Reject, Refused, EndPrompt
  <2>3. Left(open, decision', given')
    <3>1. open[pos] \in Range(open)
      BY <2>1 DEF Range
    <3> QED BY <2>1, <2>2, <3>1 DEF Left
  <2>4. open' = open /\ kept' = open /\ phase' = "idle" /\ pos' = 1
    BY <1>8 DEF Reject, EndPrompt
  <2> QED BY <1>0, <2>3, <2>4
<1>9. CASE Raise
  BY <1>0, <1>9 DEF Raise, EndPrompt
<1>10. CASE Reply
  BY <1>0, <1>10 DEF Reply
<1>11. CASE UNCHANGED vars
  BY <1>11 DEF vars, history
<1> QED
  BY <1>1, <1>2, <1>3, <1>4, <1>5, <1>6, <1>7, <1>8, <1>9, <1>10, <1>11 DEF Next, Step

(* The calls before a question have their reason. *)
LEMMA QuestionIsReason ==
    ASSUME TypeOK, RerunInv, NEW k \in DOMAIN open, open[k] \in asked,
           NEW i \in DOMAIN open, i < k \/ i >= pos, k <= pos, runs[open[i]] > 0
    PROVE  HasReason(open[i])
<1>1. open \in batches /\ open \in Seq(Calls)
  BY DEF RerunInv, BatchesAreKnown, TypeOK
<1>2. CASE i < k
  BY <1>1, <1>2 DEF HasReason
<1>3. CASE i >= pos
  BY <1>3 DEF RerunInv, AheadHaveReason
<1> QED BY <1>2, <1>3

(* All calls of the batch have theirs when the executor starts over on it. *)
LEMMA SameBatchAgain ==
    ASSUME TypeOK, RerunInv, [Next]_vars, open' = open, runs' = runs,
           \A i \in DOMAIN open : runs[open[i]] > 0 => HasReason(open[i])
    PROVE  AheadHaveReason'
<1>1. ASSUME NEW i \in DOMAIN open, runs[open[i]] > 0
      PROVE  HasReason(open[i])'
  <2>1. PICK c \in Calls : c = open[i]
    BY DEF TypeOK
  <2>2. HasReason(c)'
    BY <1>1, <2>1, ReasonLasts
  <2>3. c = open'[i]
    BY <2>1
  <2> QED BY <2>2, <2>3 DEF HasReason
<1> QED BY <1>1 DEF AheadHaveReason

(* The executor goes on in its batch. *)
LEMMA GoesOn ==
    ASSUME TypeOK, RerunInv, [Next]_vars, open' = open, pos' \in Nat, pos' >= pos,
           \A i \in DOMAIN open : i >= pos' => runs'[open[i]] = runs[open[i]]
    PROVE  AheadHaveReason'
<1>1. ASSUME NEW i \in DOMAIN open, i >= pos', runs[open[i]] > 0
      PROVE  HasReason(open[i])'
  <2>1. PICK c \in Calls : c = open[i]
    BY DEF TypeOK
  <2>2. i >= pos
    BY <1>1 DEF TypeOK
  <2>3. HasReason(c)
    BY <1>1, <2>1, <2>2 DEF RerunInv, AheadHaveReason
  <2>4. HasReason(c)'
    BY <2>3, ReasonLasts
  <2>5. c = open'[i]
    BY <2>1
  <2> QED BY <2>4, <2>5 DEF HasReason
<1> QED BY <1>1 DEF AheadHaveReason

LEMMA AheadHaveReasonStep ==
    ASSUME TypeOK, RerunInv, [Next]_vars
    PROVE  AheadHaveReason'
<1>1. CASE (\E d \in {"approved", "rejected"} : Decide(d)) \/ Timeout
  <2>1. phase = "asking" /\ UNCHANGED <<open, runs>>
    BY <1>1 DEF Decide, Timeout, history
  <2>2. pos \in DOMAIN open /\ open[pos] \in asked
    BY <2>1 DEF RerunInv, BatchesAreKnown
  <2>3. pos \in Nat /\ \A i \in DOMAIN open : i < pos \/ i >= pos
    BY DEF TypeOK
  <2>4. \A i \in DOMAIN open : runs[open[i]] > 0 => HasReason(open[i])
    BY <2>2, <2>3, QuestionIsReason
  <2> QED BY <2>1, <2>4, SameBatchAgain
<1>2. CASE (\E m \in Modes : Prompt(m)) \/ FollowUp
  <2>1. pos = 1 /\ UNCHANGED <<open, runs>>
    BY <1>2 DEF Prompt, FollowUp, history, RerunInv, BatchesAreKnown
  <2>2. \A i \in DOMAIN open : i >= 1
    BY DEF TypeOK
  <2>3. \A i \in DOMAIN open : runs[open[i]] > 0 => HasReason(open[i])
    BY <2>1, <2>2 DEF RerunInv, AheadHaveReason
  <2> QED BY <2>1, <2>3, SameBatchAgain
<1>3. CASE ModelTalks \/ ModelFails \/ Reply
  <2>1. open' = <<>>
    BY <1>3 DEF ModelTalks, ModelFails, Reply, Finish, EndPrompt, Repair
  <2> QED BY <2>1 DEF AheadHaveReason
<1>4. ASSUME NEW batch \in SeqsUpTo(Calls \ used, MaxBatch), ModelCalls(batch) \/ DoomLoop(batch)
      PROVE  AheadHaveReason'
  <2>1. NewBatch(batch) /\ open' = batch /\ runs' = runs
    BY <1>4 DEF ModelCalls, DoomLoop, NewBatch, Finish, EndPrompt, Repair
  <2>2. \A i \in DOMAIN batch : runs[batch[i]] = 0
    BY <2>1, NewBatchIsNew
  <2> QED BY <2>1, <2>2 DEF AheadHaveReason
<1>5. CASE RunTool
  <2>1. open \in Seq(Calls) /\ pos \in 1..Len(open) /\ Current = open[pos]
    BY <1>5, Split, CurrentIsCall DEF RunTool, Current, TypeOK
  <2>2. IsInjective(open)
    BY <2>1 DEF RerunInv, CallsAreUsed, BatchesAreKnown
  <2>3. open' = open /\ pos' = pos + 1 /\ runs' = [runs EXCEPT ![Current] = @ + 1]
    BY <1>5 DEF RunTool
  <2>4. ASSUME NEW i \in DOMAIN open, i >= pos'
        PROVE  runs'[open[i]] = runs[open[i]]
    <3>1. i # pos
      BY <2>1, <2>3, <2>4
    <3>2. open[i] # Current
      BY <2>1, <2>2, <3>1 DEF IsInjective
    <3> QED BY <2>1, <2>3, <3>2 DEF TypeOK
  <2>5. pos' \in Nat /\ pos' >= pos
    BY <2>1, <2>3
  <2> QED BY <2>3, <2>4, <2>5, GoesOn
<1>6. CASE Deny \/ Ask
  <2>1. open' = open /\ runs' = runs /\ pos' \in {pos, pos + 1} /\ pos \in Nat
    BY <1>6 DEF Deny, Ask, history, TypeOK
  <2>2. pos' \in Nat /\ pos' >= pos
    BY <2>1
  <2> QED BY <2>1, <2>2, GoesOn
<1>7. CASE Reject
  <2>1. open \in Seq(Calls) /\ pos \in 1..Len(open) /\ Current = open[pos]
    BY <1>7, Split, CurrentIsCall DEF Reject, Refused, Current, TypeOK
  <2>2. decision[Current] = "rejected" /\ UNCHANGED <<open, runs>>
    BY <1>7 DEF Reject, Refused, EndPrompt, history
  <2>3. Current \in Calls
    BY <2>1
  <2>4. open[pos] \in asked /\ pos \in DOMAIN open
    BY <2>1, <2>2, <2>3 DEF RerunInv, CallsAreUsed
  <2>5. pos \in Nat /\ \A i \in DOMAIN open : i < pos \/ i >= pos
    BY <2>1
  <2>6. \A i \in DOMAIN open : runs[open[i]] > 0 => HasReason(open[i])
    BY <2>4, <2>5, QuestionIsReason
  <2> QED BY <2>2, <2>6, SameBatchAgain
<1>8. CASE Raise
  <2>1. open \in Seq(Calls) /\ pos \in 1..Len(open) /\ Current = open[pos]
    BY <1>8, Split, CurrentIsCall DEF Raise, Current, TypeOK
  <2>2. Current \in Unknown /\ open' = kept /\ UNCHANGED history
    BY <1>8 DEF Raise, EndPrompt
  <2>3. Current \in used
    <3>1. open \in batches /\ pos \in DOMAIN open
      BY <2>1 DEF RerunInv, BatchesAreKnown
    <3> QED BY <2>1, <3>1 DEF RerunInv, CallsAreUsed, Range
  <2>4. ASSUME NEW i \in DOMAIN kept
        PROVE  HasReason(kept[i])
    <3>1. kept \in batches /\ LeftOpen(kept)
      <4>1. kept # <<>>
        BY <2>4
      <4> QED BY <4>1 DEF RerunInv, BatchesAreKnown
    <3>2. used \cap Unknown # {}
      BY <2>2, <2>3
    <3> QED BY <3>1, <3>2 DEF HasReason
  <2>5. ASSUME NEW i \in DOMAIN kept
        PROVE  HasReason(open[i])'
    <3>1. PICK c \in Calls : c = kept[i]
      BY DEF TypeOK
    <3>2. HasReason(c)'
      BY <2>4, <3>1, ReasonLasts
    <3> QED BY <2>2, <3>1, <3>2 DEF HasReason
  <2> QED BY <2>2, <2>5 DEF AheadHaveReason
<1>9. CASE UNCHANGED vars
  <2>1. open' = open /\ runs' = runs /\ pos' = pos /\ pos \in Nat
    BY <1>9 DEF vars, history, TypeOK
  <2>2. pos' \in Nat /\ pos' >= pos
    BY <2>1
  <2> QED BY <2>1, <2>2, GoesOn
<1> QED BY <1>1, <1>2, <1>3, <1>4, <1>5, <1>6, <1>7, <1>8, <1>9 DEF Next, Step

(* Only the executor runs calls. *)
LEMMA RunsGrowByOne ==
    ASSUME [Next]_vars
    PROVE  runs' = runs \/ RunTool
<1>1. CASE (\E d \in {"approved", "rejected"} : Decide(d)) \/ (\E m \in Modes : Prompt(m)) \/ Timeout
  BY <1>1 DEF Decide, Prompt, Timeout, history
<1>2. CASE ModelTalks \/ ModelFails \/ FollowUp \/ Deny \/ Ask
  BY <1>2 DEF ModelTalks, ModelFails, FollowUp, Deny, Ask, history
<1>3. ASSUME NEW batch, ModelCalls(batch) \/ DoomLoop(batch)
      PROVE  runs' = runs
  BY <1>3 DEF ModelCalls, DoomLoop, NewBatch
<1>4. CASE Reject \/ Raise \/ Reply \/ UNCHANGED vars
  BY <1>4 DEF Reject, Raise, Reply, vars, history
<1> QED BY <1>1, <1>2, <1>3, <1>4 DEF Next, Step

LEMMA ReasonIsThere == RerunHasReason <=> \A c \in Calls : runs[c] > 1 => HasReason(c)
BY DEF RerunHasReason, HasReason, LeftOpen, Left

LEMMA RerunStep ==
    ASSUME TypeOK, RerunInv, [Next]_vars
    PROVE  RerunHasReason'
<1> SUFFICES ASSUME NEW c \in Calls, runs'[c] > 1
             PROVE  HasReason(c)
  <2>1. \A c \in Calls : runs'[c] > 1 => HasReason(c)'
    BY ReasonLasts
  <2> QED BY <2>1 DEF RerunHasReason, HasReason, LeftOpen, Left
<1>1. CASE runs[c] > 1
  BY <1>1, ReasonIsThere DEF RerunInv
<1>2. CASE ~(runs[c] > 1)
  <2>1. RunTool /\ runs' = [runs EXCEPT ![Current] = @ + 1]
    BY <1>2, RunsGrowByOne DEF RunTool
  <2>2. open \in Seq(Calls) /\ pos \in 1..Len(open) /\ Current = open[pos]
    BY <2>1, Split, CurrentIsCall DEF RunTool, Current, TypeOK
  <2>3. c = Current /\ runs[c] > 0
    BY <1>2, <2>1, <2>2 DEF TypeOK
  <2> QED BY <2>2, <2>3 DEF RerunInv, AheadHaveReason
<1> QED BY <1>1, <1>2

(* A call runs a second time for one of two reasons only: a later call of   *)
(* its batch stopped the pass with a question, or its batch was left open   *)
(* by an earlier prompt and the one that took it up ended at a tool that    *)
(* does not exist (loop.py, _incomplete_tool_followup, and                  *)
(* ToolExecutor.execute_serial), for any calls, any policy and any bound.   *)
THEOREM RerunsAreExplained == Spec => []RerunHasReason
<1>1. Init => TypeOK /\ RerunInv
  <2> SUFFICES ASSUME Init
               PROVE  TypeOK /\ RerunInv
    OBVIOUS
  <2>1. CallsAreUsed /\ RerunHasReason
    BY DEF Init, CallsAreUsed, RerunHasReason
  <2>2. BatchesAreKnown /\ AheadHaveReason
    BY DEF Init, BatchesAreKnown, AheadHaveReason
  <2> QED BY <2>1, <2>2, TypeInit DEF RerunInv
<1>2. TypeOK /\ RerunInv /\ [Next]_vars => TypeOK' /\ RerunInv'
  <2> SUFFICES ASSUME TypeOK, RerunInv, [Next]_vars
               PROVE  TypeOK' /\ RerunInv'
    OBVIOUS
  <2> QED BY TypeStep, CallsAreUsedStep, BatchesAreKnownStep, AheadHaveReasonStep, RerunStep
          DEF RerunInv
<1>3. RerunInv => RerunHasReason
  BY DEF RerunInv
<1> QED BY <1>1, <1>2, <1>3, PTL DEF Spec

-----------------------------------------------------------------------------
(***************************************************************************)
(* The threads.                                                            *)
(***************************************************************************)

(* Neither property is inductive.  One prompt runs at a time because the    *)
(* stored thread is the only one alive; a choice cannot reach the gate of   *)
(* another prompt because the main thread, as long as it carries a choice   *)
(* out, starts no prompt, and because a gate never outlives its thread's    *)
(* wait.                                                                    *)
Shape ==
    /\ thread \in [Prompts -> {"none", "begin", "gate", "mode", "run", "ask", "waiting",
                               "awake", "leaving", "dead"}]
    /\ modeOf \in [Prompts -> Prompts \cup {NoPrompt}]

OnlyCurrentAlive == \A p \in Prompts : Alive(p) => p = current

Choosing == main.at \in {"record", "choose"}

ChoiceIsForCurrent == Choosing => main.about = current

AtGate(p) == thread[p] \in {"gate", "mode"}

GateHasItsThread == gate # NoPrompt => gate \in Prompts /\ AtGate(gate)

ThreadHasItsGate == \A p \in Prompts : AtGate(p) => gate = p /\ chosen \in {p, NoPrompt}

IInv ==
    /\ Shape
    /\ OnlyCurrentAlive
    /\ ChoiceIsForCurrent
    /\ GateHasItsThread
    /\ ThreadHasItsGate
    /\ OwnMode

(* A thread that is not at its gate moves on, not to its gate. *)
LEMMA ThreadMoves ==
    ASSUME IInv, NEW p \in Prompts, NEW from, NEW to, GoesTo(p, from, to),
           from \in {"begin", "run", "ask", "waiting", "awake", "leaving"},
           to \in {"run", "ask", "waiting", "awake", "leaving", "dead"},
           UNCHANGED <<current, gateVars, modeOf>>,
           Choosing' => Choosing /\ main'.about = main.about
    PROVE  IInv'
<1> USE DEF IInv, Shape
<1>1. Shape'
  BY DEF GoesTo
<1>2. OnlyCurrentAlive'
  BY DEF OnlyCurrentAlive, Alive, GoesTo
<1>3. ChoiceIsForCurrent'
  BY DEF ChoiceIsForCurrent, Choosing
<1>4. \A q \in Prompts : AtGate(q) <=> AtGate(q)'
  BY DEF AtGate, GoesTo
<1>5. GateHasItsThread' /\ ThreadHasItsGate'
  BY <1>4 DEF GateHasItsThread, ThreadHasItsGate, gateVars
<1>6. OwnMode'
  BY DEF OwnMode
<1> QED BY <1>1, <1>2, <1>3, <1>5, <1>6

(* A step of no thread, which touches neither gate nor mode. *)
LEMMA OthersMove ==
    ASSUME IInv, UNCHANGED <<current, gateVars, thread, modeOf>>,
           Choosing' => main'.about = current
    PROVE  IInv'
BY DEF IInv, Shape, OnlyCurrentAlive, Alive, ChoiceIsForCurrent, Choosing, GateHasItsThread,
   ThreadHasItsGate, AtGate, gateVars, OwnMode

LEMMA PromptKeepsInv ==
    ASSUME IInv, NEW p \in Prompts, StartPrompt(p)
    PROVE  IInv'
<1>1. ~Choosing /\ main' = main
  BY DEF StartPrompt, Take, Reading, Choosing
<1>2. CASE Busy
  BY <1>1, <1>2, OthersMove DEF StartPrompt, Choosing, gateVars
<1>3. CASE ~Busy
  <2>1. \A q \in Prompts : ~Alive(q)
    BY <1>3, AgentWorkAssumption DEF Busy, IInv, OnlyCurrentAlive
  <2>2. gate = NoPrompt /\ \A q \in Prompts : ~AtGate(q)
    BY <2>1 DEF IInv, GateHasItsThread, AtGate, Alive
  <2>3. /\ current' = p
        /\ thread' = [thread EXCEPT ![p] = "begin"]
        /\ UNCHANGED <<gate, chosen, modeOf>>
    BY <1>3 DEF StartPrompt, gateVars
  <2>4. Shape'
    BY <2>3 DEF IInv, Shape
  <2>5. OnlyCurrentAlive'
    BY <2>1, <2>3 DEF IInv, Shape, OnlyCurrentAlive, Alive
  <2>6. ChoiceIsForCurrent'
    BY <1>1 DEF ChoiceIsForCurrent, Choosing
  <2>7. GateHasItsThread' /\ ThreadHasItsGate'
    BY <2>2, <2>3 DEF IInv, Shape, GateHasItsThread, ThreadHasItsGate, AtGate
  <2>8. OwnMode'
    BY <2>3 DEF IInv, OwnMode
  <2> QED BY <2>4, <2>5, <2>6, <2>7, <2>8 DEF IInv
<1> QED BY <1>2, <1>3

LEMMA MainKeepsInv ==
    ASSUME IInv, MainStep
    PROVE  IInv'
<1>1. ASSUME NEW p \in Prompts, StartPrompt(p)
      PROVE  IInv'
  BY <1>1, PromptKeepsInv
<1>2. ASSUME NEW p \in Prompts, CheckChoice(p)
      PROVE  IInv'
  <2>1. UNCHANGED <<current, gateVars, thread, modeOf>>
    BY <1>2 DEF CheckChoice, runVars
  <2>2. CASE gate = p
    <3>1. p = current
      BY <2>2, AgentWorkAssumption
      DEF IInv, GateHasItsThread, AtGate, OnlyCurrentAlive, Alive
    <3>2. main'.about = current
      BY <1>2, <2>2, <3>1 DEF CheckChoice
    <3> QED BY <2>1, <3>2, OthersMove
  <2>3. CASE gate # p
    <3>1. ~Choosing'
      BY <1>2, <2>3 DEF CheckChoice, Take, Choosing, Reading
    <3> QED BY <2>1, <3>1, OthersMove
  <2> QED BY <2>2, <2>3
<1>3. CASE RecordChoice
  <2>1. UNCHANGED <<current, gateVars, thread, modeOf>>
    BY <1>3 DEF RecordChoice, runVars
  <2>2. Choosing /\ main' = [main EXCEPT !.at = "choose"]
    BY <1>3 DEF RecordChoice, Choosing
  <2>3. main'.about = main.about
    BY <2>2
  <2> QED BY <2>1, <2>2, <2>3, OthersMove DEF IInv, ChoiceIsForCurrent
<1>4. CASE Choose
  <2>1. /\ chosen' = main.about
        /\ UNCHANGED <<current, gate, thread, modeOf>>
        /\ main' = Reading
    BY <1>4 DEF Choose, runVars
  <2>2. main.about = current
    BY <1>4 DEF Choose, Choosing, IInv, ChoiceIsForCurrent
  <2>3. Shape' /\ OnlyCurrentAlive' /\ OwnMode'
    BY <2>1 DEF IInv, Shape, OnlyCurrentAlive, Alive, OwnMode
  <2>4. ChoiceIsForCurrent'
    BY <2>1 DEF ChoiceIsForCurrent, Choosing, Reading
  <2>5. \A p \in Prompts : AtGate(p) => p = current
    BY DEF IInv, OnlyCurrentAlive, Alive, AtGate
  <2>6. GateHasItsThread' /\ ThreadHasItsGate'
    BY <2>1, <2>2, <2>5 DEF IInv, GateHasItsThread, ThreadHasItsGate, AtGate
  <2> QED BY <2>3, <2>4, <2>6 DEF IInv
<1>5. ASSUME NEW c \in AskedCalls, CheckAnswer(c)
      PROVE  IInv'
  <2>1. ~Choosing'
    BY <1>5 DEF CheckAnswer, Take, Choosing, Reading
  <2> QED BY <1>5, <2>1, OthersMove DEF CheckAnswer, runVars
<1>6. CASE Approve
  <2>1. main' = [main EXCEPT !.at = IF @ = "approve" THEN "wake" ELSE "wake_stale"]
    BY <1>6 DEF Approve
  <2>2. ~Choosing'
    BY <2>1, <1>6 DEF Choosing, Approve
  <2> QED BY <1>6, <2>2, OthersMove DEF Approve, runVars
<1>7. CASE Wake
  <2>1. ~Choosing'
    BY <1>7 DEF Wake, Choosing, Reading
  <2> QED BY <1>7, <2>1, OthersMove DEF Wake, runVars
<1> QED BY <1>1, <1>2, <1>3, <1>4, <1>5, <1>6, <1>7 DEF MainStep

LEMMA ThreadKeepsInv ==
    ASSUME IInv, NEW p \in Prompts, ThreadStep(p)
    PROVE  IInv'
<1>1. CASE RunAtOnce(p)
  BY <1>1, ThreadMoves DEF RunAtOnce, Choosing
<1>2. CASE OpenGate(p)
  <2>1. /\ thread[p] = "begin"
        /\ thread' = [thread EXCEPT ![p] = "gate"]
        /\ gate' = p
        /\ chosen' = NoPrompt
        /\ UNCHANGED <<main, current, modeOf>>
    BY <1>2 DEF OpenGate, GoesTo
  <2>2. p = current
    BY <2>1 DEF IInv, OnlyCurrentAlive, Alive
  <2>3. Shape' /\ OwnMode'
    BY <2>1 DEF IInv, Shape, OwnMode
  <2>4. OnlyCurrentAlive' /\ ChoiceIsForCurrent'
    BY <2>1, <2>2 DEF IInv, Shape, OnlyCurrentAlive, Alive, ChoiceIsForCurrent, Choosing
  <2>5. GateHasItsThread'
    BY <2>1 DEF IInv, Shape, GateHasItsThread, AtGate
  <2>6. \A q \in Prompts \ {p} : ~AtGate(q) /\ thread'[q] = thread[q]
    BY <2>1, <2>2 DEF IInv, Shape, OnlyCurrentAlive, Alive, AtGate
  <2>7. ThreadHasItsGate'
    BY <2>1, <2>6 DEF ThreadHasItsGate, AtGate
  <2> QED BY <2>3, <2>4, <2>5, <2>7 DEF IInv
<1>3. CASE LeaveGate(p)
  <2>1. /\ thread[p] = "gate"
        /\ thread' = [thread EXCEPT ![p] = "mode"]
        /\ UNCHANGED <<main, current, modeOf, gate, chosen>>
    BY <1>3 DEF LeaveGate, GoesTo, gateVars
  <2>2. \A q \in Prompts : (AtGate(q) <=> AtGate(q)') /\ (Alive(q) <=> Alive(q)')
    BY <2>1 DEF IInv, Shape, AtGate, Alive
  <2>3. Shape' /\ OwnMode'
    BY <2>1 DEF IInv, Shape, OwnMode
  <2>4. OnlyCurrentAlive' /\ ChoiceIsForCurrent'
    BY <2>1, <2>2 DEF IInv, OnlyCurrentAlive, ChoiceIsForCurrent, Choosing
  <2>5. GateHasItsThread' /\ ThreadHasItsGate'
    BY <2>1, <2>2 DEF IInv, GateHasItsThread, ThreadHasItsGate
  <2> QED BY <2>3, <2>4, <2>5 DEF IInv
<1>4. CASE TakeMode(p)
  <2>1. /\ thread[p] = "mode"
        /\ thread' = [thread EXCEPT ![p] = IF chosen = NoPrompt THEN "leaving" ELSE "run"]
        /\ gate' = NoPrompt
        /\ modeOf' = [modeOf EXCEPT ![p] = chosen]
        /\ UNCHANGED <<main, current>>
    BY <1>4 DEF TakeMode, GoesTo, ClearGate
  <2>2. chosen \in {p, NoPrompt} /\ p = current
    BY <2>1 DEF IInv, ThreadHasItsGate, AtGate, OnlyCurrentAlive, Alive
  <2>3. Shape' /\ OwnMode'
    BY <2>1, <2>2 DEF IInv, Shape, OwnMode
  <2>4. OnlyCurrentAlive' /\ ChoiceIsForCurrent'
    BY <2>1, <2>2 DEF IInv, Shape, OnlyCurrentAlive, Alive, ChoiceIsForCurrent, Choosing
  <2>5. \A q \in Prompts : ~AtGate(q)'
    BY <2>1, <2>2 DEF IInv, Shape, OnlyCurrentAlive, Alive, AtGate
  <2>6. GateHasItsThread' /\ ThreadHasItsGate'
    BY <2>1, <2>5 DEF GateHasItsThread, ThreadHasItsGate
  <2> QED BY <2>3, <2>4, <2>6 DEF IInv
<1>5. CASE PassCall(p)
  BY <1>5, ThreadMoves DEF PassCall, Choosing
<1>6. CASE AskCall(p)
  BY <1>6, ThreadMoves DEF AskCall, Choosing
<1>7. CASE Register(p)
  BY <1>7, ThreadMoves DEF Register, Choosing
<1>8. CASE StopWaiting(p)
  BY <1>8, ThreadMoves DEF StopWaiting, Choosing
<1>9. CASE Deregister(p)
  <2>1. Choosing' => Choosing /\ main' = main
    BY <1>9 DEF Deregister, Unhand, Choosing
  <2> QED BY <1>9, <2>1, ThreadMoves DEF Deregister
<1>10. CASE EndThread(p)
  BY <1>10, ThreadMoves DEF EndThread, Choosing
<1>11. CASE ThreadEnds(p)
  BY <1>11, ThreadMoves DEF ThreadEnds, Choosing
<1> QED
  BY <1>1, <1>2, <1>3, <1>4, <1>5, <1>6, <1>7, <1>8, <1>9, <1>10, <1>11 DEF ThreadStep

LEMMA Invariance == AgentSpec => []IInv
<1>1. AgentInit => IInv
  BY DEF AgentInit, IInv, Shape, OnlyCurrentAlive, Alive, ChoiceIsForCurrent, Choosing, Reading,
         GateHasItsThread, ThreadHasItsGate, AtGate, OwnMode
<1>2. IInv /\ [AgentNext]_agentVars => IInv'
  <2> SUFFICES ASSUME IInv, [AgentNext]_agentVars PROVE IInv'
    OBVIOUS
  <2>1. CASE MainStep
    BY <2>1, MainKeepsInv
  <2>2. ASSUME NEW p \in Prompts, ThreadStep(p)
        PROVE  IInv'
    BY <2>2, ThreadKeepsInv
  <2>3. ASSUME NEW cmd \in Command, Send(cmd)
        PROVE  IInv'
    BY <2>3, OthersMove DEF Send, runVars, IInv, ChoiceIsForCurrent, Choosing
  <2>4. CASE Die
    BY <2>4, OthersMove DEF Die, runVars, IInv, ChoiceIsForCurrent, Choosing
  <2>5. CASE UNCHANGED agentVars
    BY <2>5, OthersMove DEF agentVars, runVars, IInv, ChoiceIsForCurrent, Choosing
  <2> QED BY <2>1, <2>2, <2>3, <2>4, <2>5 DEF AgentNext
<1> QED BY <1>1, <1>2, PTL DEF AgentSpec

(* Two prompts never run in the process at once, however many are sent and *)
(* whatever is answered when: a second thread would share the history, the *)
(* gate and the approval with the first.                                   *)
THEOREM OneThread == AgentSpec => []OnePromptAtATime
<1>1. IInv => OnePromptAtATime
  BY DEF IInv, OnlyCurrentAlive, OnePromptAtATime
<1> QED BY <1>1, Invariance, PTL

(* A prompt runs under the mode chosen for its own gate or under none, even *)
(* when a choice is carried out after its gate has timed out and the next   *)
(* prompt is waiting in the inbox.                                          *)
THEOREM ModeIsItsOwn == AgentSpec => []OwnMode
<1>1. IInv => OwnMode
  BY DEF IInv
<1> QED BY <1>1, Invariance, PTL

-----------------------------------------------------------------------------
(* AnswersCount.  In a calm run a command of the operator is in one place at *)
(* a time - not sent, in the inbox, in the hands of the main thread, or      *)
(* answered - and while it is under way the thread it is for cannot leave    *)
(* the wait it was sent for.                                                 *)

Approving == main.at \in {"approve", "wake", "approve_stale", "wake_stale"}

InInbox(cmd) == \E i \in 1..Len(inbox) : inbox[i] = cmd

Carried(cmd) ==
    \/ Choosing /\ cmd = ChoiceCommand(main.about)
    \/ Approving /\ cmd = AnswerCommand(main.about)

MainShape ==
    /\ main = [at |-> main.at, about |-> main.about]
    /\ main.at = "read" => main = Reading
    /\ Choosing => main.about \in Prompts
    /\ Approving => main.about \in AskedCalls

Mail ==
    /\ inbox \in Seq(Command)
    /\ \A i, j \in 1..Len(inbox) : inbox[i] = inbox[j] => i = j
    /\ \A cmd \in Command :
         /\ InInbox(cmd) => cmd \in sent /\ cmd \notin accepted /\ ~Carried(cmd)
         /\ Carried(cmd) => cmd \in sent /\ cmd \notin accepted
         /\ cmd \in accepted => cmd \in sent
    /\ \A p \in Prompts :
         /\ InInbox(PromptCommand(p)) => thread[p] = "none"
         /\ thread[p] # "none" => PromptCommand(p) \in sent

MailInv == MainShape /\ Mail

LEMMA Commands ==
    /\ \A p \in Prompts : PromptCommand(p) \in Command /\ ChoiceCommand(p) \in Command
    /\ \A c \in AskedCalls : AnswerCommand(c) \in Command
    /\ \A p, q : PromptCommand(p) # ChoiceCommand(q) /\ PromptCommand(p) # AnswerCommand(q)
    /\ \A p, q : ChoiceCommand(p) # AnswerCommand(q)
    /\ \A p, q : PromptCommand(p) = PromptCommand(q) => p = q
    /\ \A p, q : ChoiceCommand(p) = ChoiceCommand(q) => p = q
    /\ \A p, q : AnswerCommand(p) = AnswerCommand(q) => p = q
BY DEF PromptCommand, ChoiceCommand, AnswerCommand, Command

(* The main thread takes the front of its inbox. *)
LEMMA TakesFront ==
    ASSUME inbox \in Seq(Command), \A i, j \in 1..Len(inbox) : inbox[i] = inbox[j] => i = j,
           NEW cmd, Take(cmd)
    PROVE  /\ cmd \in Command /\ InInbox(cmd) /\ ~InInbox(cmd)'
           /\ \A k : InInbox(k)' => InInbox(k)
           /\ inbox' \in Seq(Command)
           /\ (\A i, j \in 1..Len(inbox) : inbox[i] = inbox[j] => i = j)'
<1>1. inbox \in Seq(Command) /\ inbox # <<>> /\ cmd = Head(inbox) /\ inbox' = Tail(inbox)
  BY DEF Take
<1>2. /\ Len(Tail(inbox)) = Len(inbox) - 1 /\ Len(inbox) \in Nat \ {0}
      /\ \A i \in 1..(Len(inbox) - 1) : Tail(inbox)[i] = inbox[i + 1]
      /\ Tail(inbox) \in Seq(Command)
  BY ONLY <1>1
<1>3. Head(inbox) = inbox[1] /\ Head(inbox) \in Command
  BY ONLY <1>1
<1> QED BY <1>1, <1>2, <1>3 DEF InInbox

(* The Desktop appends to it. *)
LEMMA AppendsOne ==
    ASSUME inbox \in Seq(Command), \A i, j \in 1..Len(inbox) : inbox[i] = inbox[j] => i = j,
           NEW cmd \in Command, inbox' = Append(inbox, cmd), ~InInbox(cmd)
    PROVE  /\ \A k : InInbox(k)' => InInbox(k) \/ k = cmd
           /\ inbox' \in Seq(Command)
           /\ (\A i, j \in 1..Len(inbox) : inbox[i] = inbox[j] => i = j)'
<1>1. inbox \in Seq(Command) /\ cmd \in Command
  OBVIOUS
<1>2. /\ Len(Append(inbox, cmd)) = Len(inbox) + 1 /\ Len(inbox) \in Nat
      /\ \A i \in 1..Len(inbox) : Append(inbox, cmd)[i] = inbox[i]
      /\ Append(inbox, cmd)[Len(inbox) + 1] = cmd
      /\ Append(inbox, cmd) \in Seq(Command)
  BY ONLY <1>1
<1> QED BY <1>2 DEF InInbox

(* A step that moves no mail and starts no thread. *)
LEMMA MailRests ==
    ASSUME MailInv, UNCHANGED <<inbox, sent, accepted>>, MainShape',
           \A cmd : Carried(cmd)' => Carried(cmd),
           \A p \in Prompts : thread'[p] # "none" <=> thread[p] # "none"
    PROVE  MailInv'
<1>1. \A cmd : InInbox(cmd)' <=> InInbox(cmd)
  BY DEF InInbox
<1>2. \A cmd \in Command :
         /\ InInbox(cmd)' => cmd \in sent' /\ cmd \notin accepted' /\ ~Carried(cmd)'
         /\ Carried(cmd)' => cmd \in sent' /\ cmd \notin accepted'
         /\ cmd \in accepted' => cmd \in sent'
  BY <1>1 DEF MailInv, Mail
<1>3. \A p \in Prompts :
         /\ InInbox(PromptCommand(p))' => thread'[p] = "none"
         /\ thread'[p] # "none" => PromptCommand(p) \in sent'
  BY <1>1 DEF MailInv, Mail
<1> QED BY <1>1, <1>2, <1>3 DEF MailInv, Mail

(* What the main thread and the waiting thread know of a call.              *)
Waiting(p) == thread[p] \in {"waiting", "awake"}

UnderWay(cmd) == InInbox(cmd) \/ Carried(cmd)

CallShape ==
    /\ nextCall \in [Prompts -> Nat]
    /\ callSet \in BOOLEAN
    /\ \A p \in Prompts : Waiting(p) => waitedFor = Call(p)
    /\ waitedFor # NoCall => \E p \in Prompts : Waiting(p)
    /\ main.at \in {"wake", "wake_stale"} => main.about \in decided
    /\ \A c \in AskedCalls : AnswerCommand(c) \in accepted => c \in decided

CallsAreCalm ==
    calm =>
        /\ main.at \notin {"approve_stale", "wake_stale"}
        /\ \A c \in AskedCalls :
              /\ UnderWay(AnswerCommand(c)) => waitedFor = c /\ ~callSet
              /\ AnswerCommand(c) \notin refused
        /\ callSet => AnswerCommand(waitedFor) \in accepted
        /\ \A p \in Prompts :
              /\ thread[p] = "awake" => callSet
              /\ thread[p] = "ask" => Call(p) \in AskedCalls \ decided
              /\ thread[p] = "waiting" /\ AnswerCommand(Call(p)) \in accepted => callSet

(* And of a gate. *)
Chosen(p) == modeOf[p] = p \/ (AtGate(p) /\ chosen = p)

GatesAreCalm ==
    /\ gateSet \in BOOLEAN
    /\ \A p \in Prompts : modeOf[p] # NoPrompt => thread[p] \notin {"none", "begin", "gate", "mode"}
    /\ calm =>
        /\ Choosing => gate = main.about /\ ~gateSet
        /\ gateSet /\ gate # NoPrompt => ChoiceCommand(gate) \in accepted
        /\ \A p \in Prompts :
              /\ thread[p] = "mode" => gateSet
              /\ ChoiceCommand(p) \in accepted => Chosen(p)


LEMMA MainKeepsMail ==
    ASSUME IInv, MailInv, MainStep
    PROVE  MailInv'
<1> USE DEF MailInv
<1>0. /\ inbox \in Seq(Command)
      /\ \A i, j \in 1..Len(inbox) : inbox[i] = inbox[j] => i = j
  BY DEF Mail
<1>1. ASSUME NEW p \in Prompts, StartPrompt(p)
      PROVE  MailInv'
  <2>1. /\ Take(PromptCommand(p))
        /\ UNCHANGED <<main, sent>>
        /\ accepted' \in {accepted, accepted \cup {PromptCommand(p)}}
        /\ \A q \in Prompts \ {p} : thread'[q] = thread[q]
    BY <1>1 DEF StartPrompt, Accept, Refuse, deskVars, IInv, Shape
  <2>2. MainShape' /\ \A cmd : Carried(cmd)' <=> Carried(cmd)
    BY <2>1 DEF MainShape, Choosing, Approving, Carried
  <2>3. /\ PromptCommand(p) \in Command /\ InInbox(PromptCommand(p))
        /\ ~InInbox(PromptCommand(p))'
        /\ \A k : InInbox(k)' => InInbox(k)
        /\ inbox' \in Seq(Command)
        /\ (\A i, j \in 1..Len(inbox) : inbox[i] = inbox[j] => i = j)'
    BY <1>0, <2>1, TakesFront
  <2>4. PromptCommand(p) \in sent /\ ~Carried(PromptCommand(p))
    BY <2>3 DEF Mail
  <2>5. \A cmd \in Command :
          /\ InInbox(cmd)' => cmd \in sent' /\ cmd \notin accepted' /\ ~Carried(cmd)'
          /\ Carried(cmd)' => cmd \in sent' /\ cmd \notin accepted'
          /\ cmd \in accepted' => cmd \in sent'
    BY <2>1, <2>2, <2>3, <2>4 DEF Mail
  <2>6. ASSUME NEW q \in Prompts
        PROVE  /\ InInbox(PromptCommand(q))' => thread'[q] = "none"
               /\ thread'[q] # "none" => PromptCommand(q) \in sent'
    BY <2>1, <2>3, <2>4 DEF Mail
  <2> QED BY <2>2, <2>3, <2>5, <2>6 DEF Mail
<1>2. ASSUME NEW cmd \in Command, Take(cmd), UNCHANGED <<sent, thread>>, accepted' = accepted,
             MainShape', \A k : Carried(k)' => k = cmd
      PROVE  MailInv'
  <2>1. /\ InInbox(cmd) /\ ~InInbox(cmd)'
        /\ \A k : InInbox(k)' => InInbox(k)
        /\ inbox' \in Seq(Command)
        /\ (\A i, j \in 1..Len(inbox) : inbox[i] = inbox[j] => i = j)'
    BY <1>0, <1>2, TakesFront
  <2>2. \A k \in Command :
          /\ InInbox(k)' => k \in sent' /\ k \notin accepted' /\ ~Carried(k)'
          /\ Carried(k)' => k \in sent' /\ k \notin accepted'
          /\ k \in accepted' => k \in sent'
    BY <1>2, <2>1 DEF Mail
  <2>3. \A q \in Prompts :
          /\ InInbox(PromptCommand(q))' => thread'[q] = "none"
          /\ thread'[q] # "none" => PromptCommand(q) \in sent'
    BY <1>2, <2>1 DEF Mail
  <2> QED BY <1>2, <2>1, <2>2, <2>3 DEF Mail
<1>3. ASSUME NEW p \in Prompts, CheckChoice(p)
      PROVE  MailInv'
  <2>1. /\ Take(ChoiceCommand(p)) /\ UNCHANGED <<sent, thread, accepted>>
        /\ main = Reading
        /\ main' \in {Reading, [at |-> "record", about |-> p]}
    BY <1>3 DEF CheckChoice, deskVars, runVars, answerVars, Refuse, Take
  <2>2. MainShape' /\ \A k : Carried(k)' => k = ChoiceCommand(p)
    BY <2>1 DEF MainShape, Choosing, Approving, Carried, Reading
  <2> QED BY <2>1, <2>2, <1>2, Commands
<1>4. ASSUME NEW c \in AskedCalls, CheckAnswer(c)
      PROVE  MailInv'
  <2>1. /\ Take(AnswerCommand(c)) /\ UNCHANGED <<sent, thread, accepted>>
        /\ main = Reading
        /\ main' \in {Reading, [at |-> "approve", about |-> c]}
    BY <1>4 DEF CheckAnswer, deskVars, runVars, answerVars, Refuse, Take
  <2>2. MainShape' /\ \A k : Carried(k)' => k = AnswerCommand(c)
    BY <2>1 DEF MainShape, Choosing, Approving, Carried, Reading
  <2> QED BY <2>1, <2>2, <1>2, Commands
<1>5. CASE RecordChoice
  <2>1. UNCHANGED <<inbox, sent, accepted, thread>> /\ Choosing
    BY <1>5 DEF RecordChoice, deskVars, runVars, answerVars, Choosing
  <2>2. main' = [at |-> "choose", about |-> main.about]
    BY <1>5 DEF RecordChoice, MainShape
  <2>3. MainShape' /\ \A k : Carried(k)' => Carried(k)
    BY <2>1, <2>2 DEF MainShape, Choosing, Approving, Carried
  <2> QED BY <2>1, <2>3, MailRests
<1>6. CASE Approve
  <2>1. UNCHANGED <<inbox, sent, accepted, thread>> /\ Approving
    BY <1>6 DEF Approve, deskVars, runVars, answerVars, Approving
  <2>2. main' \in {[at |-> "wake", about |-> main.about], [at |-> "wake_stale", about |-> main.about]}
    BY <1>6 DEF Approve, MainShape
  <2>3. MainShape' /\ \A k : Carried(k)' => Carried(k)
    BY <2>1, <2>2 DEF MainShape, Choosing, Approving, Carried
  <2> QED BY <2>1, <2>3, MailRests
<1>7. ASSUME NEW cmd \in Command, Carried(cmd), accepted' = accepted \cup {cmd}, main' = Reading,
             UNCHANGED <<inbox, sent, thread>>
      PROVE  MailInv'
  <2>1. MainShape' /\ \A k : ~Carried(k)'
    BY <1>7 DEF MainShape, Choosing, Approving, Carried, Reading
  <2>2. \A k : InInbox(k)' <=> InInbox(k)
    BY <1>7 DEF InInbox
  <2>3. cmd \in sent /\ ~InInbox(cmd)
    BY <1>7 DEF Mail
  <2> QED BY <1>7, <2>1, <2>2, <2>3 DEF Mail
<1>8. CASE Choose
  <2>1. Choosing /\ main.about \in Prompts
    BY <1>8 DEF Choose, Choosing, MainShape
  <2>2. Carried(ChoiceCommand(main.about))
    BY <2>1 DEF Carried
  <2>3. /\ accepted' = accepted \cup {ChoiceCommand(main.about)} /\ main' = Reading
        /\ UNCHANGED <<inbox, sent, thread>>
    BY <1>8 DEF Choose, Accept, deskVars, runVars
  <2> QED BY <2>1, <2>2, <2>3, <1>7, Commands
<1>9. CASE Wake
  <2>1. Approving /\ main.about \in AskedCalls
    BY <1>9 DEF Wake, Approving, MainShape
  <2>2. Carried(AnswerCommand(main.about))
    BY <2>1 DEF Carried
  <2>3. /\ accepted' = accepted \cup {AnswerCommand(main.about)} /\ main' = Reading
        /\ UNCHANGED <<inbox, sent, thread>>
    BY <1>9 DEF Wake, Accept, deskVars, runVars
  <2> QED BY <2>1, <2>2, <2>3, <1>7, Commands
<1> QED BY <1>1, <1>3, <1>4, <1>5, <1>6, <1>8, <1>9 DEF MainStep

LEMMA ThreadKeepsMail ==
    ASSUME IInv, MailInv, NEW p \in Prompts, ThreadStep(p)
    PROVE  MailInv'
<1>1. UNCHANGED <<inbox, sent, accepted>>
  BY DEF ThreadStep, RunAtOnce, OpenGate, LeaveGate, TakeMode, PassCall, AskCall, Register,
         StopWaiting, Deregister, EndThread, ThreadEnds, deskVars, answerVars
<1>2. /\ thread[p] # "none"
      /\ \E to \in {"gate", "mode", "run", "ask", "waiting", "awake", "leaving", "dead"} :
            thread' = [thread EXCEPT ![p] = to]
  BY DEF ThreadStep, RunAtOnce, OpenGate, LeaveGate, TakeMode, PassCall, AskCall, Register,
         StopWaiting, Deregister, EndThread, ThreadEnds, GoesTo
<1>3. \A q \in Prompts : thread'[q] # "none" <=> thread[q] # "none"
  BY <1>2 DEF IInv, Shape
<1>4. \/ main' = main
      \/ /\ main.at = "approve" /\ main' = [main EXCEPT !.at = "approve_stale"]
      \/ /\ main.at = "wake" /\ main' = [main EXCEPT !.at = "wake_stale"]
  <2>1. CASE Deregister(p)
    BY <2>1 DEF Deregister, Unhand
  <2>2. CASE ~Deregister(p)
    BY <2>2 DEF ThreadStep, RunAtOnce, OpenGate, LeaveGate, TakeMode, PassCall, AskCall, Register,
                StopWaiting, EndThread, ThreadEnds
  <2> QED BY <2>1, <2>2
<1>5. \/ main' = main
      \/ /\ main.at = "approve" /\ main' = [at |-> "approve_stale", about |-> main.about]
      \/ /\ main.at = "wake" /\ main' = [at |-> "wake_stale", about |-> main.about]
  BY <1>4 DEF MailInv, MainShape
<1>6. MainShape' /\ \A k : Carried(k)' => Carried(k)
  BY <1>5 DEF MailInv, MainShape, Choosing, Approving, Carried
<1> QED BY <1>1, <1>3, <1>6, MailRests

LEMMA SendKeepsMail ==
    ASSUME MailInv, NEW cmd \in Command, Send(cmd)
    PROVE  MailInv'
<1>1. /\ cmd \notin sent /\ sent' = sent \cup {cmd} /\ inbox' = Append(inbox, cmd)
      /\ UNCHANGED <<main, thread, accepted>>
  BY DEF Send, runVars, answerVars
<1>2. MainShape' /\ \A k : Carried(k)' <=> Carried(k)
  BY <1>1 DEF MailInv, MainShape, Choosing, Approving, Carried
<1>3. ~InInbox(cmd) /\ ~Carried(cmd) /\ cmd \notin accepted
  BY <1>1 DEF MailInv, Mail
<1>4. /\ \A k : InInbox(k)' => InInbox(k) \/ k = cmd
      /\ inbox' \in Seq(Command)
      /\ (\A i, j \in 1..Len(inbox) : inbox[i] = inbox[j] => i = j)'
  BY <1>1, <1>3, AppendsOne DEF MailInv, Mail
<1>5. \A k \in Command :
        /\ InInbox(k)' => k \in sent' /\ k \notin accepted' /\ ~Carried(k)'
        /\ Carried(k)' => k \in sent' /\ k \notin accepted'
        /\ k \in accepted' => k \in sent'
  BY <1>1, <1>2, <1>3, <1>4 DEF MailInv, Mail
<1>6. \A q \in Prompts :
        /\ InInbox(PromptCommand(q))' => thread'[q] = "none"
        /\ thread'[q] # "none" => PromptCommand(q) \in sent'
  BY <1>1, <1>3, <1>4 DEF MailInv, Mail
<1> QED BY <1>2, <1>4, <1>5, <1>6 DEF MailInv, Mail

(* A step that neither asks, waits nor answers. *)
LEMMA CallsRest ==
    ASSUME CallShape, CallsAreCalm, UNCHANGED <<calm, callVars>>,
           nextCall' \in [Prompts -> Nat],
           \A p \in Prompts :
              /\ thread'[p] \in {"waiting", "awake", "ask"}
                    => thread'[p] = thread[p] /\ nextCall'[p] = nextCall[p]
              /\ Waiting(p) => Waiting(p)',
           \A c \in AskedCalls : UnderWay(AnswerCommand(c))' => UnderWay(AnswerCommand(c)),
           \A c : AnswerCommand(c) \in accepted' <=> AnswerCommand(c) \in accepted,
           \A c \in AskedCalls : calm /\ AnswerCommand(c) \in refused' => AnswerCommand(c) \in refused,
           main'.at \in {"wake", "wake_stale", "approve_stale"} => main' = main
    PROVE  CallShape' /\ CallsAreCalm'
<1>1. UNCHANGED <<calm, waitedFor, callSet, decided>>
  BY DEF callVars
<1>2. CallShape'
  BY <1>1 DEF CallShape, Waiting, Call
<1>3. CallsAreCalm'
  BY <1>1 DEF CallsAreCalm, Call
<1> QED BY <1>2, <1>3

(* While a thread waits no other one is in the session loop. *)
LEMMA OneWaits ==
    ASSUME IInv, CallShape, waitedFor # NoCall, NEW q \in Prompts, Alive(q)
    PROVE  Waiting(q) /\ waitedFor = Call(q)
<1>1. PICK p \in Prompts : Waiting(p)
  BY DEF CallShape
<1>2. p = q
  BY <1>1 DEF Waiting, Alive, IInv, OnlyCurrentAlive
<1> QED BY <1>1, <1>2 DEF CallShape

LEMMA MainKeepsCalls ==
    ASSUME IInv, MailInv, CallShape, CallsAreCalm, MainStep
    PROVE  CallShape' /\ CallsAreCalm'
<1>0. /\ inbox \in Seq(Command)
      /\ \A i, j \in 1..Len(inbox) : inbox[i] = inbox[j] => i = j
      /\ nextCall \in [Prompts -> Nat]
  BY DEF MailInv, Mail, CallShape
<1>1. ASSUME NEW p \in Prompts, StartPrompt(p)
      PROVE  CallShape' /\ CallsAreCalm'
  <2>1. /\ Take(PromptCommand(p))
        /\ UNCHANGED <<main, calm, callVars, nextCall>>
        /\ accepted' \in {accepted, accepted \cup {PromptCommand(p)}}
        /\ refused' \in {refused, refused \cup {PromptCommand(p)}}
        /\ thread' \in {thread, [thread EXCEPT ![p] = "begin"]}
    BY <1>1 DEF StartPrompt, Accept, Refuse
  <2>2. \A cmd : Carried(cmd)' <=> Carried(cmd)
    BY <2>1 DEF Choosing, Approving, Carried
  <2>3. /\ InInbox(PromptCommand(p))
        /\ \A k : InInbox(k)' => InInbox(k)
    BY <1>0, <2>1, TakesFront
  <2>4. thread[p] = "none"
    BY <2>3 DEF MailInv, Mail
  <2>5. \A q \in Prompts :
          /\ thread'[q] \in {"waiting", "awake", "ask"} => thread'[q] = thread[q]
          /\ Waiting(q) => Waiting(q)'
    BY <2>1, <2>4 DEF IInv, Shape, Waiting
  <2>6. \A c : /\ AnswerCommand(c) \in accepted' <=> AnswerCommand(c) \in accepted
               /\ AnswerCommand(c) \in refused' <=> AnswerCommand(c) \in refused
    BY <2>1, Commands
  <2> QED BY <1>0, <2>1, <2>2, <2>3, <2>5, <2>6, CallsRest DEF UnderWay
<1>2. ASSUME NEW p \in Prompts, CheckChoice(p)
      PROVE  CallShape' /\ CallsAreCalm'
  <2>1. /\ Take(ChoiceCommand(p))
        /\ UNCHANGED <<calm, callVars, thread, nextCall, accepted>>
        /\ refused' \in {refused, refused \cup {ChoiceCommand(p)}}
        /\ main = Reading
        /\ main' \in {Reading, [at |-> "record", about |-> p]}
    BY <1>2 DEF CheckChoice, runVars, answerVars, Refuse, Take
  <2>2. /\ \A c : ~Carried(AnswerCommand(c))'
        /\ main'.at \notin {"wake", "wake_stale", "approve_stale"}
    BY <2>1, Commands DEF Choosing, Approving, Carried, Reading
  <2>3. \A k : InInbox(k)' => InInbox(k)
    BY <1>0, <2>1, TakesFront
  <2>4. \A c : AnswerCommand(c) \in refused' <=> AnswerCommand(c) \in refused
    BY <2>1, Commands
  <2> QED BY <1>0, <2>1, <2>2, <2>3, <2>4, CallsRest DEF UnderWay, Waiting
<1>3. CASE RecordChoice
  <2>1. /\ UNCHANGED <<inbox, calm, callVars, thread, nextCall, accepted, refused>>
        /\ main' = [at |-> "choose", about |-> main.about]
    BY <1>3 DEF RecordChoice, runVars, answerVars, MailInv, MainShape
  <2>2. \A c : UnderWay(AnswerCommand(c))' => UnderWay(AnswerCommand(c))
    BY <2>1, Commands DEF UnderWay, InInbox, Carried, Choosing, Approving
  <2> QED BY <1>0, <2>1, <2>2, CallsRest DEF Waiting
<1>4. CASE Choose
  <2>1. /\ UNCHANGED <<inbox, calm, callVars, thread, nextCall, refused>>
        /\ accepted' = accepted \cup {ChoiceCommand(main.about)}
        /\ main' = Reading
    BY <1>4 DEF Choose, runVars, Accept
  <2>2. \A c : UnderWay(AnswerCommand(c))' => UnderWay(AnswerCommand(c))
    BY <2>1 DEF UnderWay, InInbox, Carried, Choosing, Approving, Reading
  <2>3. \A c : AnswerCommand(c) \in accepted' <=> AnswerCommand(c) \in accepted
    BY <2>1, Commands
  <2>4. main'.at \notin {"wake", "wake_stale", "approve_stale"}
    BY <2>1 DEF Reading
  <2> QED BY <1>0, <2>1, <2>2, <2>3, <2>4, CallsRest DEF Waiting
<1>5. ASSUME NEW c \in AskedCalls, CheckAnswer(c)
      PROVE  CallShape' /\ CallsAreCalm'
  <2>1. /\ Take(AnswerCommand(c))
        /\ UNCHANGED <<calm, callVars, thread, nextCall, accepted>>
        /\ main = Reading
        /\ main' \in {Reading, [at |-> "approve", about |-> c]}
        /\ waitedFor = c => UNCHANGED refused
    BY <1>5 DEF CheckAnswer, runVars, answerVars, Refuse, Take
  <2>2. /\ \A k \in AskedCalls : Carried(AnswerCommand(k))' => k = c
        /\ main'.at \notin {"wake", "wake_stale", "approve_stale"}
    BY <2>1, Commands DEF Choosing, Approving, Carried, Reading
  <2>3. /\ InInbox(AnswerCommand(c))
        /\ \A k : InInbox(k)' => InInbox(k)
    BY <1>0, <2>1, TakesFront
  <2>4. calm => waitedFor = c
    BY <2>3 DEF CallsAreCalm, UnderWay
  <2> QED BY <1>0, <2>1, <2>2, <2>3, <2>4, CallsRest DEF UnderWay, Waiting
<1>6. CASE Approve
  <2>1. /\ UNCHANGED <<inbox, calm, waitedFor, callSet, thread, nextCall, accepted, refused>>
        /\ decided' = decided \cup {main.about}
    BY <1>6 DEF Approve, runVars, answerVars
  <2>2. /\ main.at = "approve" => main' = [at |-> "wake", about |-> main.about]
        /\ main.at = "approve_stale" => main' = [at |-> "wake_stale", about |-> main.about]
        /\ main.at \in {"approve", "approve_stale"}
    BY <1>6 DEF Approve, MailInv, MainShape
  <2>3. \A c : UnderWay(AnswerCommand(c))' => UnderWay(AnswerCommand(c))
    BY <2>1, <2>2 DEF UnderWay, InInbox, Carried, Choosing, Approving
  <2>4. CallShape'
    BY <2>1, <2>2 DEF CallShape, Waiting, Call
  <2>5. calm => \A p \in Prompts : thread[p] # "ask"
    <3> SUFFICES ASSUME calm, NEW p \in Prompts, thread[p] = "ask" PROVE FALSE
      OBVIOUS
    <3>1. main.about \in AskedCalls /\ UnderWay(AnswerCommand(main.about))
      BY <2>2 DEF MailInv, MainShape, UnderWay, Carried, Approving
    <3>2. waitedFor = main.about /\ waitedFor # NoCall
      BY <3>1, AgentWorkAssumption DEF CallsAreCalm, AskedCalls, NoCall
    <3> QED BY <3>2, OneWaits DEF Alive, Waiting
  <2>6. CallsAreCalm'
    BY <2>1, <2>2, <2>3, <2>5 DEF CallsAreCalm, Call
  <2> QED BY <2>4, <2>6
<1>7. CASE Wake
  <2>1. /\ UNCHANGED <<inbox, calm, waitedFor, decided, thread, nextCall, refused>>
        /\ callSet' = (callSet \/ main.at = "wake")
        /\ accepted' = accepted \cup {AnswerCommand(main.about)}
        /\ main' = Reading
        /\ main.at \in {"wake", "wake_stale"}
    BY <1>7 DEF Wake, runVars, Accept
  <2>2. main.about \in AskedCalls /\ main.about \in decided /\ Carried(AnswerCommand(main.about))
    BY <2>1 DEF MailInv, MainShape, Carried, Approving, CallShape
  <2>3. /\ \A c : ~Carried(AnswerCommand(c))'
        /\ \A k : InInbox(k)' <=> InInbox(k)
    BY <2>1 DEF Carried, Choosing, Approving, Reading, InInbox
  <2>4. CallShape'
    BY <2>1, <2>2, Commands DEF CallShape, Waiting, Call, Reading
  <2>5. calm => waitedFor = main.about /\ main.at = "wake"
    BY <2>1, <2>2 DEF CallsAreCalm, UnderWay
  <2>6. calm => \A c \in AskedCalls : ~UnderWay(AnswerCommand(c))'
    <3> SUFFICES ASSUME calm, NEW c \in AskedCalls, InInbox(AnswerCommand(c)) PROVE FALSE
      BY <2>3 DEF UnderWay
    <3>1. c = main.about
      BY <2>5 DEF CallsAreCalm, UnderWay
    <3> QED BY <3>1, <2>2, Commands DEF MailInv, Mail
  <2>7. CallsAreCalm'
    <3>1. calm => callSet'
      BY <2>1, <2>5
    <3>2. calm => main'.at \notin {"approve_stale", "wake_stale"}
      BY <2>1 DEF Reading
    <3> QED BY <2>1, <2>5, <2>6, <3>1, <3>2 DEF CallsAreCalm, Call
  <2> QED BY <2>4, <2>7
<1> QED BY <1>1, <1>2, <1>3, <1>4, <1>5, <1>6, <1>7 DEF MainStep

LEMMA ThreadKeepsCalls ==
    ASSUME IInv, MailInv, CallShape, CallsAreCalm, NEW p \in Prompts, ThreadStep(p)
    PROVE  CallShape' /\ CallsAreCalm'
<1> PICK S : thread \in [Prompts -> S]
  BY DEF IInv, Shape
<1>0. nextCall \in [Prompts -> Nat]
  BY DEF CallShape
<1>1. UNCHANGED <<calm, inbox, accepted, refused>>
  BY DEF ThreadStep, RunAtOnce, OpenGate, LeaveGate, TakeMode, PassCall, AskCall, Register,
         StopWaiting, Deregister, EndThread, ThreadEnds, answerVars
<1>2. \A c : InInbox(c)' <=> InInbox(c)
  BY <1>1 DEF InInbox
<1>3. ASSUME UNCHANGED <<main, callVars>>, nextCall' \in [Prompts -> Nat],
             \A q \in Prompts \ {p} : nextCall'[q] = nextCall[q],
             thread[p] \in {"begin", "gate", "mode", "run", "leaving"},
             NEW to \in {"gate", "mode", "run", "leaving", "dead"},
             thread' = [thread EXCEPT ![p] = to]
      PROVE  CallShape' /\ CallsAreCalm'
  <2>1. \A c : UnderWay(c)' <=> UnderWay(c)
    BY <1>2, <1>3 DEF UnderWay, Carried, Choosing, Approving
  <2>2. \A q \in Prompts :
          /\ thread'[q] \in {"waiting", "awake", "ask"}
                => thread'[q] = thread[q] /\ nextCall'[q] = nextCall[q]
          /\ Waiting(q) => Waiting(q)'
    BY <1>0, <1>3 DEF Waiting
  <2> QED BY <1>1, <1>3, <2>1, <2>2, CallsRest
<1>4. CASE \/ RunAtOnce(p) \/ OpenGate(p) \/ LeaveGate(p) \/ EndThread(p) \/ ThreadEnds(p)
  <2>1. /\ UNCHANGED <<main, callVars, nextCall>>
        /\ thread[p] \in {"begin", "gate", "mode", "run", "leaving"}
        /\ \E to \in {"gate", "mode", "run", "leaving", "dead"} :
              thread' = [thread EXCEPT ![p] = to]
    BY <1>4 DEF RunAtOnce, OpenGate, LeaveGate, EndThread, ThreadEnds, GoesTo
  <2> QED BY <1>0, <1>3, <2>1
<1>5. CASE TakeMode(p)
  <2>1. /\ UNCHANGED <<main, callVars, nextCall>>
        /\ thread[p] \in {"begin", "gate", "mode", "run", "leaving"}
        /\ \E to \in {"gate", "mode", "run", "leaving", "dead"} :
              thread' = [thread EXCEPT ![p] = to]
    BY <1>5 DEF TakeMode, GoesTo
  <2> QED BY <1>0, <1>3, <2>1
<1>6. CASE PassCall(p)
  <2>1. /\ UNCHANGED <<main, callVars>>
        /\ nextCall' = [nextCall EXCEPT ![p] = @ + 1]
        /\ thread[p] = "run"
        /\ thread' = [thread EXCEPT ![p] = "run"]
    BY <1>6 DEF PassCall, GoesTo
  <2>2. nextCall' \in [Prompts -> Nat] /\ \A q \in Prompts \ {p} : nextCall'[q] = nextCall[q]
    BY <1>0, <2>1
  <2> QED BY <1>3, <2>1, <2>2
<1>7. CASE AskCall(p)
  <2>1. /\ UNCHANGED <<main, callVars, nextCall>>
        /\ thread[p] = "run"
        /\ thread' = [thread EXCEPT ![p] = "ask"]
        /\ Call(p) \in AskedCalls \ decided
    BY <1>7 DEF AskCall, GoesTo
  <2>2. \A c : UnderWay(c)' <=> UnderWay(c)
    BY <1>2, <2>1 DEF UnderWay, Carried, Choosing, Approving
  <2>3. \A q \in Prompts : Waiting(q)' <=> Waiting(q)
    BY <1>0, <2>1 DEF Waiting
  <2>4. CallShape'
    BY <1>1, <2>1, <2>3 DEF CallShape, Call, callVars
  <2>5. CallsAreCalm'
    BY <1>0, <1>1, <2>1, <2>2 DEF CallsAreCalm, Call, callVars
  <2> QED BY <2>4, <2>5
<1>8. CASE Register(p)
  <2>1. /\ UNCHANGED <<main, decided, nextCall>>
        /\ thread[p] = "ask"
        /\ thread' = [thread EXCEPT ![p] = "waiting"]
        /\ waitedFor' = Call(p)
        /\ callSet' = FALSE
    BY <1>8 DEF Register, GoesTo
  <2>2. waitedFor = NoCall
    BY <2>1, OneWaits DEF Alive, Waiting
  <2>3. calm => \A c \in AskedCalls : ~UnderWay(AnswerCommand(c))
    BY <2>2, AgentWorkAssumption DEF CallsAreCalm, AskedCalls, NoCall
  <2>4. \A c : UnderWay(c)' <=> UnderWay(c)
    BY <1>2, <2>1 DEF UnderWay, Carried, Choosing, Approving
  <2>5. \A q \in Prompts \ {p} : ~Waiting(q)
    BY <2>2, AgentWorkAssumption DEF CallShape, Call, NoCall
  <2>6. \A q \in Prompts : Waiting(q)' <=> q = p
    BY <1>0, <2>1, <2>5 DEF Waiting
  <2>7. CallShape'
    BY <1>1, <2>1, <2>6 DEF CallShape, Call
  <2>8. calm => /\ thread'[p] = "waiting"
                /\ \A q \in Prompts \ {p} : thread'[q] = thread[q] /\ thread[q] \notin {"waiting", "awake"}
    BY <1>0, <2>1, <2>5 DEF Waiting
  <2>9. calm => AnswerCommand(Call(p)) \notin accepted
    BY <2>1 DEF CallsAreCalm, CallShape
  <2>10. CallsAreCalm'
    <3>1. calm => \A q \in Prompts \ {p} : thread'[q] \notin {"waiting", "awake", "ask"}
      BY <2>1, <2>8 DEF IInv, OnlyCurrentAlive, Alive
    <3> QED BY <1>1, <2>1, <2>3, <2>4, <2>8, <2>9, <3>1 DEF CallsAreCalm, Call
  <2> QED BY <2>7, <2>10
<1>9. CASE StopWaiting(p)
  <2>1. /\ UNCHANGED <<main, callVars, nextCall>>
        /\ thread[p] = "waiting"
        /\ thread' = [thread EXCEPT ![p] = "awake"]
        /\ calm => callSet
    BY <1>9 DEF StopWaiting, GoesTo, CallShape
  <2>2. \A c : UnderWay(c)' <=> UnderWay(c)
    BY <1>2, <2>1 DEF UnderWay, Carried, Choosing, Approving
  <2>3. \A q \in Prompts : Waiting(q)' <=> Waiting(q)
    BY <1>0, <2>1 DEF Waiting
  <2>4. CallShape'
    BY <1>1, <2>1, <2>3 DEF CallShape, Call, callVars
  <2>5. CallsAreCalm'
    BY <1>0, <1>1, <2>1, <2>2 DEF CallsAreCalm, Call, callVars
  <2> QED BY <2>4, <2>5
<1>10. CASE Deregister(p)
  <2>1. /\ UNCHANGED <<decided, nextCall>>
        /\ thread[p] = "awake"
        /\ thread' = [thread EXCEPT ![p] = "run"]
        /\ waitedFor' = NoCall
        /\ callSet' = FALSE
    BY <1>10 DEF Deregister, GoesTo
  <2>2. \/ main' = main
        \/ /\ main.at = "approve" /\ main' = [main EXCEPT !.at = "approve_stale"]
        \/ /\ main.at = "wake" /\ main' = [main EXCEPT !.at = "wake_stale"]
    BY <1>10 DEF Deregister, Unhand
  <2>3. \/ main' = main
        \/ /\ main.at = "approve" /\ main' = [at |-> "approve_stale", about |-> main.about]
        \/ /\ main.at = "wake" /\ main' = [at |-> "wake_stale", about |-> main.about]
    BY <2>2 DEF MailInv, MainShape
  <2>4. calm => \A c \in AskedCalls : ~UnderWay(AnswerCommand(c))
    BY <2>1 DEF CallsAreCalm
  <2>5. calm => main' = main
    <3> SUFFICES ASSUME calm, main.at \in {"approve", "wake"} PROVE FALSE
      BY <2>2
    <3>1. main.about \in AskedCalls /\ Carried(AnswerCommand(main.about))
      BY DEF MailInv, MainShape, Approving, Carried
    <3> QED BY <3>1, <2>4 DEF UnderWay
  <2>6. calm => \A c \in AskedCalls : ~UnderWay(AnswerCommand(c))'
    BY <1>2, <2>4, <2>5 DEF UnderWay, Carried, Choosing, Approving
  <2>7. \A q \in Prompts \ {p} : ~Waiting(q)
    BY <2>1 DEF IInv, OnlyCurrentAlive, Alive, Waiting
  <2>8. \A q \in Prompts : ~Waiting(q)'
    BY <1>0, <2>1, <2>7 DEF Waiting
  <2>9. CallShape'
    <3>1. main'.at \in {"wake", "wake_stale"} => main'.about \in decided'
      BY <2>1, <2>3 DEF CallShape
    <3> QED BY <1>1, <2>1, <2>8, <3>1 DEF CallShape
  <2>10. CallsAreCalm'
    BY <1>0, <1>1, <2>1, <2>5, <2>6, <2>8 DEF CallsAreCalm, Call, Waiting
  <2> QED BY <2>9, <2>10
<1> QED BY <1>4, <1>5, <1>6, <1>7, <1>8, <1>9, <1>10 DEF ThreadStep

LEMMA SendKeepsCalls ==
    ASSUME MailInv, CallShape, CallsAreCalm, NEW cmd \in Command, Send(cmd)
    PROVE  CallShape' /\ CallsAreCalm'
<1>1. /\ cmd \notin sent /\ inbox' = Append(inbox, cmd)
      /\ cmd.type = "answer" => ~calm \/ waitedFor = cmd.about
      /\ UNCHANGED <<calm, main, thread, nextCall, callVars, accepted, refused>>
  BY DEF Send, runVars, answerVars
<1>2. /\ ~InInbox(cmd) /\ cmd \notin accepted
      /\ inbox \in Seq(Command)
      /\ \A i, j \in 1..Len(inbox) : inbox[i] = inbox[j] => i = j
  BY <1>1 DEF MailInv, Mail
<1>3. \A k : InInbox(k)' => InInbox(k) \/ k = cmd
  BY <1>1, <1>2, AppendsOne
<1>4. \A k : UnderWay(k)' => UnderWay(k) \/ k = cmd
  BY <1>1, <1>3 DEF UnderWay, Carried, Choosing, Approving
<1>5. CallShape'
  BY <1>1 DEF CallShape, callVars, Waiting, Call
<1>6. ASSUME calm, NEW c \in AskedCalls, cmd = AnswerCommand(c)
      PROVE  waitedFor = c /\ ~callSet
  <2>1. waitedFor = c
    BY <1>1, <1>6 DEF AnswerCommand
  <2> QED BY <1>2, <1>6, <2>1 DEF CallsAreCalm
<1>7. CallsAreCalm'
  BY <1>1, <1>4, <1>6 DEF CallsAreCalm, callVars, Call
<1> QED BY <1>5, <1>7

-----------------------------------------------------------------------------
(* The gate.                                                                *)

(* A step that touches no gate and no mode. *)
LEMMA GatesRest ==
    ASSUME GatesAreCalm, UNCHANGED <<calm, gateVars, modeOf>>,
           \A p \in Prompts :
              /\ AtGate(p) <=> AtGate(p)'
              /\ thread'[p] = "mode" => thread[p] = "mode"
              /\ thread'[p] \in {"none", "begin"} => thread[p] \in {"none", "begin"},
           Choosing' => Choosing /\ main'.about = main.about,
           \A p : ChoiceCommand(p) \in accepted' <=> ChoiceCommand(p) \in accepted
    PROVE  GatesAreCalm'
<1>1. UNCHANGED <<calm, gate, gateSet, chosen, modeOf>>
  BY DEF gateVars
<1>2. ASSUME NEW p \in Prompts, modeOf'[p] # NoPrompt
      PROVE  thread'[p] \notin {"none", "begin", "gate", "mode"}
  <2>1. thread[p] \notin {"none", "begin", "gate", "mode"}
    BY <1>1, <1>2 DEF GatesAreCalm
  <2> QED BY <2>1 DEF AtGate
<1>3. \A p \in Prompts : Chosen(p) <=> Chosen(p)'
  BY <1>1 DEF Chosen
<1> QED BY <1>1, <1>2, <1>3 DEF GatesAreCalm

LEMMA MainKeepsGates ==
    ASSUME IInv, MailInv, GatesAreCalm, MainStep
    PROVE  GatesAreCalm'
<1>0. /\ inbox \in Seq(Command)
      /\ \A i, j \in 1..Len(inbox) : inbox[i] = inbox[j] => i = j
  BY DEF MailInv, Mail
<1>1. ASSUME NEW p \in Prompts, StartPrompt(p)
      PROVE  GatesAreCalm'
  <2>1. /\ Take(PromptCommand(p))
        /\ UNCHANGED <<main, calm, gateVars, modeOf>>
        /\ accepted' \in {accepted, accepted \cup {PromptCommand(p)}}
        /\ thread' \in {thread, [thread EXCEPT ![p] = "begin"]}
    BY <1>1 DEF StartPrompt, Accept, Refuse
  <2>2. InInbox(PromptCommand(p))
    BY <1>0, <2>1, TakesFront
  <2>3. thread[p] = "none"
    BY <2>2 DEF MailInv, Mail
  <2>4. \A q \in Prompts :
          /\ AtGate(q) <=> AtGate(q)'
          /\ thread'[q] = "mode" => thread[q] = "mode"
          /\ thread'[q] \in {"none", "begin"} => thread[q] \in {"none", "begin"}
    BY <2>1, <2>3 DEF IInv, Shape, AtGate
  <2>5. \A c : ChoiceCommand(c) \in accepted' <=> ChoiceCommand(c) \in accepted
    BY <2>1, Commands
  <2> QED BY <2>1, <2>4, <2>5, GatesRest DEF Choosing
<1>2. ASSUME NEW p \in Prompts, CheckChoice(p)
      PROVE  GatesAreCalm'
  <2>1. /\ Take(ChoiceCommand(p))
        /\ UNCHANGED <<calm, gateVars, thread, modeOf, accepted>>
        /\ main = Reading
        /\ IF gate = p THEN main' = [at |-> "record", about |-> p] ELSE main' = Reading
    BY <1>2 DEF CheckChoice, runVars, answerVars, Refuse, Take
  <2>2. CASE gate = p
    <3>1. InInbox(ChoiceCommand(p)) /\ ChoiceCommand(p) \in Command
      BY <1>0, <2>1, TakesFront
    <3>2. calm => ~gateSet
      BY <2>2, <3>1, AgentWorkAssumption DEF GatesAreCalm, MailInv, Mail
    <3>3. calm /\ Choosing' => gate = main'.about /\ ~gateSet
      BY <2>1, <2>2, <3>2
    <3> QED BY <2>1, <3>3 DEF GatesAreCalm, gateVars, Chosen, AtGate
  <2>3. CASE gate # p
    <3>1. ~Choosing'
      BY <2>1, <2>3 DEF Choosing, Reading
    <3> QED BY <2>1, <3>1, GatesRest DEF AtGate
  <2> QED BY <2>2, <2>3
<1>3. CASE RecordChoice
  <2>1. /\ UNCHANGED <<calm, gateVars, thread, modeOf, accepted>>
        /\ main' = [at |-> "choose", about |-> main.about]
        /\ Choosing
    BY <1>3 DEF RecordChoice, runVars, answerVars, MailInv, MainShape, Choosing
  <2>2. main'.about = main.about
    BY <2>1
  <2> QED BY <2>1, <2>2, GatesRest DEF AtGate
<1>4. CASE Choose
  <2>1. /\ UNCHANGED <<calm, gate, thread, modeOf>>
        /\ chosen' = main.about
        /\ gateSet' = (gateSet \/ gate # NoPrompt)
        /\ accepted' = accepted \cup {ChoiceCommand(main.about)}
        /\ main' = Reading
        /\ Choosing
    BY <1>4 DEF Choose, runVars, Accept, Choosing
  <2>2. ~Choosing'
    BY <2>1 DEF Choosing, Reading
  <2>3. main.about \in Prompts
    BY <2>1 DEF MailInv, MainShape
  <2>4. calm => gate = main.about /\ AtGate(gate)
    BY <2>1, <2>3, AgentWorkAssumption DEF GatesAreCalm, IInv, GateHasItsThread
  <2>5. calm => \A p \in Prompts \ {main.about} : ~AtGate(p)
    BY <2>4 DEF IInv, ThreadHasItsGate
  <2>6. calm => \A p \in Prompts : ChoiceCommand(p) \in accepted' => Chosen(p)'
    <3> SUFFICES ASSUME calm, NEW p \in Prompts, ChoiceCommand(p) \in accepted'
                 PROVE  Chosen(p)'
      OBVIOUS
    <3>1. CASE p = main.about
      BY <2>1, <2>4, <3>1 DEF Chosen, AtGate
    <3>2. CASE p # main.about
      <4>1. ChoiceCommand(p) \in accepted
        BY <2>1, <3>2, Commands
      <4>2. modeOf[p] = p
        BY <2>5, <3>2, <4>1 DEF GatesAreCalm, Chosen
      <4> QED BY <2>1, <4>2 DEF Chosen
    <3> QED BY <3>1, <3>2
  <2>7. calm => gateSet' /\ (gate # NoPrompt => ChoiceCommand(gate) \in accepted')
    BY <2>1, <2>3, <2>4, AgentWorkAssumption
  <2>8. gateSet' \in BOOLEAN
    BY <2>1 DEF GatesAreCalm
  <2> QED BY <2>1, <2>2, <2>6, <2>7, <2>8 DEF GatesAreCalm
<1>5. ASSUME NEW c \in AskedCalls, CheckAnswer(c)
      PROVE  GatesAreCalm'
  <2>1. /\ UNCHANGED <<calm, gateVars, thread, modeOf, accepted>>
        /\ main' \in {Reading, [at |-> "approve", about |-> c]}
    BY <1>5 DEF CheckAnswer, runVars, answerVars, Refuse, Take
  <2>2. ~Choosing'
    BY <2>1 DEF Choosing, Reading
  <2> QED BY <2>1, <2>2, GatesRest DEF AtGate
<1>6. CASE Approve
  <2>1. UNCHANGED <<calm, gateVars, thread, modeOf, accepted>>
    BY <1>6 DEF Approve, runVars, answerVars
  <2>2. main' \in {[at |-> "wake", about |-> main.about], [at |-> "wake_stale", about |-> main.about]}
    BY <1>6 DEF Approve, MailInv, MainShape
  <2>3. ~Choosing'
    BY <2>2 DEF Choosing
  <2> QED BY <2>1, <2>3, GatesRest DEF AtGate
<1>7. CASE Wake
  <2>1. /\ UNCHANGED <<calm, gateVars, thread, modeOf>>
        /\ accepted' = accepted \cup {AnswerCommand(main.about)}
        /\ main' = Reading
    BY <1>7 DEF Wake, runVars, Accept
  <2>2. ~Choosing'
    BY <2>1 DEF Choosing, Reading
  <2>3. \A p : ChoiceCommand(p) \in accepted' <=> ChoiceCommand(p) \in accepted
    BY <2>1, Commands
  <2> QED BY <2>1, <2>2, <2>3, GatesRest DEF AtGate
<1> QED BY <1>1, <1>2, <1>3, <1>4, <1>5, <1>6, <1>7 DEF MainStep

LEMMA ThreadKeepsGates ==
    ASSUME IInv, MailInv, GatesAreCalm, NEW p \in Prompts, ThreadStep(p)
    PROVE  GatesAreCalm'
<1> PICK S : thread \in [Prompts -> S]
  BY DEF IInv, Shape
<1>1. UNCHANGED <<calm, accepted>>
  BY DEF ThreadStep, RunAtOnce, OpenGate, LeaveGate, TakeMode, PassCall, AskCall, Register,
         StopWaiting, Deregister, EndThread, ThreadEnds, answerVars
<1>2. ASSUME UNCHANGED <<gateVars, modeOf>>, Choosing' => Choosing /\ main' = main,
             NEW from, NEW to, GoesTo(p, from, to),
             from \in {"begin", "run", "ask", "waiting", "awake", "leaving"},
             to \in {"run", "ask", "waiting", "awake", "leaving", "dead"}
      PROVE  GatesAreCalm'
  <2>1. \A q \in Prompts :
          /\ AtGate(q) <=> AtGate(q)'
          /\ thread'[q] = "mode" => thread[q] = "mode"
          /\ thread'[q] \in {"none", "begin"} => thread[q] \in {"none", "begin"}
    BY <1>2 DEF GoesTo, AtGate
  <2>2. \A c : ChoiceCommand(c) \in accepted' <=> ChoiceCommand(c) \in accepted
    BY <1>1
  <2>3. Choosing' => Choosing /\ main'.about = main.about
    BY <1>2
  <2> QED BY <1>1, <1>2, <2>1, <2>2, <2>3, GatesRest
<1>3. CASE RunAtOnce(p)
  BY <1>2, <1>3 DEF RunAtOnce, Choosing
<1>4. CASE PassCall(p)
  BY <1>2, <1>4 DEF PassCall, Choosing
<1>5. CASE AskCall(p)
  BY <1>2, <1>5 DEF AskCall, Choosing
<1>6. CASE Register(p)
  BY <1>2, <1>6 DEF Register, Choosing
<1>7. CASE StopWaiting(p)
  BY <1>2, <1>7 DEF StopWaiting, Choosing
<1>8. CASE Deregister(p)
  <2>1. Choosing' => Choosing /\ main' = main
    BY <1>8 DEF Deregister, Unhand, Choosing
  <2> QED BY <1>2, <1>8, <2>1 DEF Deregister
<1>9. CASE EndThread(p)
  BY <1>2, <1>9 DEF EndThread, Choosing
<1>10. CASE ThreadEnds(p)
  BY <1>2, <1>10 DEF ThreadEnds, Choosing
<1>11. CASE OpenGate(p)
  <2>1. /\ thread[p] = "begin"
        /\ thread' = [thread EXCEPT ![p] = "gate"]
        /\ gate' = p
        /\ gateSet' = FALSE
        /\ chosen' = NoPrompt
        /\ UNCHANGED <<main, modeOf>>
    BY <1>11 DEF OpenGate, GoesTo
  <2>2. \A q \in Prompts : ~AtGate(q)
    BY <2>1 DEF IInv, OnlyCurrentAlive, Alive, AtGate
  <2>3. calm => ~Choosing
    <3> SUFFICES ASSUME calm, Choosing PROVE FALSE
      OBVIOUS
    <3>1. gate \in Prompts
      BY DEF GatesAreCalm, MailInv, MainShape
    <3> QED BY <3>1, <2>2, AgentWorkAssumption DEF IInv, GateHasItsThread
  <2>4. \A q \in Prompts : thread'[q] = "mode" => FALSE
    BY <2>1, <2>2 DEF AtGate
  <2>5. \A q \in Prompts : Chosen(q) => Chosen(q)'
    BY <2>1, <2>2 DEF Chosen
  <2>6. \A q \in Prompts : modeOf'[q] # NoPrompt => thread'[q] \notin {"none", "begin", "gate", "mode"}
    BY <2>1 DEF GatesAreCalm
  <2>7. ~Choosing' <=> ~Choosing
    BY <2>1 DEF Choosing
  <2> QED BY <1>1, <2>1, <2>3, <2>4, <2>5, <2>6, <2>7 DEF GatesAreCalm
<1>12. CASE LeaveGate(p)
  <2>1. /\ thread[p] = "gate"
        /\ thread' = [thread EXCEPT ![p] = "mode"]
        /\ calm => gateSet
        /\ UNCHANGED <<main, gate, gateSet, chosen, modeOf>>
    BY <1>12 DEF LeaveGate, GoesTo, gateVars, GatesAreCalm
  <2>2. \A q \in Prompts : AtGate(q) <=> AtGate(q)'
    BY <2>1 DEF AtGate
  <2>3. \A q \in Prompts : Chosen(q) => Chosen(q)'
    BY <2>1, <2>2 DEF Chosen
  <2>4. \A q \in Prompts : modeOf'[q] # NoPrompt => thread'[q] \notin {"none", "begin", "gate", "mode"}
    BY <2>1 DEF GatesAreCalm
  <2>5. calm => \A q \in Prompts : thread'[q] = "mode" => gateSet
    BY <2>1 DEF GatesAreCalm
  <2>6. Choosing' <=> Choosing
    BY <2>1 DEF Choosing
  <2> QED BY <1>1, <2>1, <2>3, <2>4, <2>5, <2>6 DEF GatesAreCalm
<1>13. CASE TakeMode(p)
  <2>1. /\ thread[p] = "mode"
        /\ \E to \in {"leaving", "run"} : thread' = [thread EXCEPT ![p] = to]
        /\ gate' = NoPrompt
        /\ gateSet' = FALSE
        /\ chosen' = NoPrompt
        /\ modeOf' = [modeOf EXCEPT ![p] = chosen]
        /\ UNCHANGED main
    BY <1>13 DEF TakeMode, GoesTo, ClearGate
  <2>2. \A q \in Prompts \ {p} : ~AtGate(q) /\ modeOf'[q] = modeOf[q] /\ thread'[q] = thread[q]
    BY <2>1 DEF IInv, Shape, OnlyCurrentAlive, Alive, AtGate
  <2>3. modeOf'[p] = chosen /\ modeOf[p] = NoPrompt /\ thread'[p] \in {"leaving", "run"}
    BY <2>1 DEF IInv, Shape, GatesAreCalm
  <2>4. calm => ~Choosing
    BY <2>1 DEF GatesAreCalm
  <2>5. \A q \in Prompts : Chosen(q) => modeOf'[q] = q
    BY <2>2, <2>3, AgentWorkAssumption DEF Chosen
  <2>6. \A q \in Prompts : modeOf'[q] # NoPrompt => thread'[q] \notin {"none", "begin", "gate", "mode"}
    BY <2>2, <2>3 DEF GatesAreCalm
  <2>7. \A q \in Prompts : thread'[q] # "mode"
    BY <2>2, <2>3 DEF AtGate
  <2>8. Choosing' <=> Choosing
    BY <2>1 DEF Choosing
  <2>9. \A q \in Prompts : Chosen(q) => Chosen(q)'
    BY <2>5 DEF Chosen
  <2> QED BY <1>1, <2>1, <2>4, <2>6, <2>7, <2>8, <2>9 DEF GatesAreCalm
<1> QED BY <1>3, <1>4, <1>5, <1>6, <1>7, <1>8, <1>9, <1>10, <1>11, <1>12, <1>13 DEF ThreadStep

(* Nothing the operator says in a calm run is lost: an accepted answer has  *)
(* woken the thread that waits for it, no answer to a call that was shown   *)
(* is refused, and an accepted choice becomes the prompt's mode.            *)
THEOREM AnswersReachTheirWait == AgentSpec => []AnswersCount
<1>1. AgentInit => MailInv /\ CallShape /\ CallsAreCalm /\ GatesAreCalm
  <2> SUFFICES ASSUME AgentInit PROVE MailInv /\ CallShape /\ CallsAreCalm /\ GatesAreCalm
    OBVIOUS
  <2>1. main = Reading /\ ~Choosing /\ ~Approving
    BY DEF AgentInit, Reading, Choosing, Approving
  <2>2. inbox = <<>> /\ Len(<<>>) = 0 /\ <<>> \in Seq(Command)
    BY DEF AgentInit
  <2>3. \A k : ~InInbox(k) /\ ~Carried(k)
    BY <2>1, <2>2 DEF InInbox, Carried
  <2>4. MailInv
    BY <2>1, <2>2, <2>3 DEF AgentInit, MailInv, Mail, MainShape, Reading
  <2>5. CallShape
    <3>1. nextCall \in [Prompts -> Nat] /\ callSet \in BOOLEAN
      BY DEF AgentInit
    <3>2. \A p \in Prompts : ~Waiting(p)
      BY DEF AgentInit, Waiting
    <3>3. main.at \notin {"wake", "wake_stale"}
      BY <2>1 DEF Approving
    <3> QED BY <3>1, <3>2, <3>3 DEF AgentInit, CallShape
  <2>6. CallsAreCalm
    BY <2>1, <2>3 DEF AgentInit, CallsAreCalm, UnderWay, Reading
  <2>7. GatesAreCalm
    BY <2>1 DEF AgentInit, GatesAreCalm
  <2> QED BY <2>4, <2>5, <2>6, <2>7
<1>2. ASSUME IInv, MailInv, CallShape, CallsAreCalm, GatesAreCalm, [AgentNext]_agentVars
      PROVE  MailInv' /\ CallShape' /\ CallsAreCalm' /\ GatesAreCalm'
  <2>1. CASE MainStep
    BY <1>2, <2>1, MainKeepsMail, MainKeepsCalls, MainKeepsGates
  <2>2. ASSUME NEW p \in Prompts, ThreadStep(p)
        PROVE  MailInv' /\ CallShape' /\ CallsAreCalm' /\ GatesAreCalm'
    BY <1>2, <2>2, ThreadKeepsMail, ThreadKeepsCalls, ThreadKeepsGates
  <2>3. ASSUME NEW cmd \in Command, Send(cmd)
        PROVE  MailInv' /\ CallShape' /\ CallsAreCalm' /\ GatesAreCalm'
    <3>1. MailInv' /\ CallShape' /\ CallsAreCalm'
      BY <1>2, <2>3, SendKeepsMail, SendKeepsCalls
    <3>2. UNCHANGED <<calm, main, thread, modeOf, gateVars, accepted>>
      BY <2>3 DEF Send, runVars, answerVars
    <3>3. GatesAreCalm'
      BY <1>2, <3>2, GatesRest DEF AtGate, Choosing
    <3> QED BY <3>1, <3>3
  <2>4. CASE Die \/ UNCHANGED agentVars
    <3>1. /\ UNCHANGED <<calm, inbox, main, thread, nextCall, modeOf, gateVars, callVars>>
          /\ UNCHANGED <<sent, accepted, refused>>
      BY <2>4 DEF Die, agentVars, runVars, answerVars, deskVars
    <3>2. /\ \A k : Carried(k)' <=> Carried(k)
          /\ \A k : InInbox(k)' <=> InInbox(k)
          /\ Choosing' <=> Choosing
      BY <3>1 DEF Carried, InInbox, Choosing, Approving
    <3>3. MainShape'
      BY <1>2, <3>1 DEF MailInv, MainShape, Choosing, Approving
    <3>4. MailInv'
      BY <1>2, <3>1, <3>2, <3>3, MailRests
    <3>5. nextCall' \in [Prompts -> Nat]
      BY <1>2, <3>1 DEF CallShape
    <3>6. CallShape' /\ CallsAreCalm'
      BY <1>2, <3>1, <3>2, <3>5, CallsRest DEF UnderWay, Waiting
    <3>7. GatesAreCalm'
      BY <1>2, <3>1, <3>2, GatesRest DEF AtGate
    <3> QED BY <3>4, <3>6, <3>7
  <2> QED BY <1>2, <2>1, <2>2, <2>3, <2>4 DEF AgentNext
<1>3. IInv /\ CallsAreCalm /\ GatesAreCalm => AnswersCount
  <2> SUFFICES ASSUME IInv, CallsAreCalm, GatesAreCalm, calm PROVE AnswersCount
    BY DEF AnswersCount
  <2>1. ASSUME NEW p \in Prompts, ChoiceCommand(p) \in accepted, thread[p] \in {"leaving", "dead"}
        PROVE  modeOf[p] = p
    BY <2>1 DEF GatesAreCalm, Chosen, AtGate
  <2> QED BY <2>1 DEF AnswersCount, CallsAreCalm
<1> QED BY <1>1, <1>2, <1>3, Invariance, PTL DEF AgentSpec

-----------------------------------------------------------------------------
(***************************************************************************)
(* The page.  The property is not inductive: what a worker was given       *)
(* replaces the transcript when it is done, so that has to keep everything,*)
(* too, and no prompt may be added meanwhile; and a turn is told over      *)
(* three steps after it was stored and one after it was counted.           *)
(***************************************************************************)

(* What a transcript keeps (Keeps), for any prompts and turns that are over. *)
EntryRec == [who : {"user", "model", "note"}, turn : Nat]

Faithful(ts, n, ov) ==
    /\ ts \in Seq(EntryRec)
    /\ \A m \in 1 .. n : \E i \in 1 .. Len(ts) : ts[i] = [who |-> "user", turn |-> m]
    /\ \A i \in 1 .. Len(ts) : ts[i].turn \in 1 .. n
    /\ \A i, j \in 1 .. Len(ts) : i < j =>
          /\ ts[i].turn <= ts[j].turn
          /\ ts[j].who = "user" => ts[i].turn < ts[j].turn
    /\ \A o \in ov : o.result # "exception" => Cardinality(SaidOf(ts, o.turn)) >= o.said

LEMMA SaidIsFinite ==
    ASSUME NEW ts \in Seq(EntryRec), NEW n
    PROVE  IsFiniteSet(SaidOf(ts, n)) /\ Cardinality(SaidOf(ts, n)) \in Nat
<1>1. SaidOf(ts, n) \in SUBSET (1 .. Len(ts)) /\ Len(ts) \in Nat
  BY DEF SaidOf
<1>2. IsFiniteSet(1 .. Len(ts))
  BY <1>1, FS_Interval
<1>3. IsFiniteSet(SaidOf(ts, n))
  BY <1>1, <1>2, FS_Subset
<1> QED BY <1>3, FS_CardinalityType

(* A transcript that goes on has at least as much said.                     *)
Continues(ts, new) ==
    /\ new \in Seq(EntryRec) /\ Len(new) >= Len(ts)
    /\ \A i \in 1 .. Len(ts) : new[i] = ts[i]

LEMMA SaidGrows ==
    ASSUME NEW ts \in Seq(EntryRec), NEW new, Continues(ts, new), NEW n
    PROVE  Cardinality(SaidOf(ts, n)) <= Cardinality(SaidOf(new, n))
<1>1. Len(ts) \in Nat /\ Len(new) \in Nat /\ Len(ts) <= Len(new)
  BY DEF Continues
<1>2. SaidOf(ts, n) \in SUBSET SaidOf(new, n)
  BY <1>1 DEF SaidOf, Continues
<1>3. IsFiniteSet(SaidOf(new, n))
  BY SaidIsFinite DEF Continues
<1> QED BY <1>2, <1>3, FS_Subset

LEMMA OutcomesStay ==
    ASSUME NEW ts \in Seq(EntryRec), NEW new, Continues(ts, new), NEW o,
           NEW said \in Nat, Cardinality(SaidOf(ts, o)) >= said
    PROVE  Cardinality(SaidOf(new, o)) >= said
<1>1. Cardinality(SaidOf(ts, o)) <= Cardinality(SaidOf(new, o))
  BY SaidGrows
<1>2. Cardinality(SaidOf(ts, o)) \in Nat /\ Cardinality(SaidOf(new, o)) \in Nat
  BY SaidIsFinite DEF Continues
<1> QED BY <1>1, <1>2

KnownOver(ov) == \A o \in ov : o.said \in Nat

(* The next prompt.                                                         *)
LEMMA PromptIsKept ==
    ASSUME NEW n \in Nat, NEW ts, NEW ov, KnownOver(ov), Faithful(ts, n, ov)
    PROVE  Faithful(Append(ts, [who |-> "user", turn |-> n + 1]), n + 1, ov)
<1> DEFINE row == [who |-> "user", turn |-> n + 1]
           new == Append(ts, row)
<1>1. ts \in Seq(EntryRec) /\ row \in EntryRec /\ Len(ts) \in Nat
  BY DEF Faithful, EntryRec
<1>2. /\ new \in Seq(EntryRec) /\ Len(new) = Len(ts) + 1 /\ new[Len(ts) + 1] = row
      /\ \A i \in 1 .. Len(ts) : new[i] = ts[i]
  BY <1>1
<1>3. row.who = "user" /\ row.turn = n + 1
  OBVIOUS
<1>4. \A i \in 1 .. Len(ts) : ts[i].turn \in 1 .. n
  BY DEF Faithful
<1>5. ASSUME NEW m \in 1 .. (n + 1)
      PROVE  \E i \in 1 .. Len(new) : new[i] = [who |-> "user", turn |-> m]
  <2>1. CASE m = n + 1
    BY <1>1, <1>2, <2>1
  <2>2. CASE m # n + 1
    <3>1. m \in 1 .. n
      BY <2>2
    <3>2. PICK i \in 1 .. Len(ts) : ts[i] = [who |-> "user", turn |-> m]
      BY <3>1 DEF Faithful
    <3>3. i \in 1 .. Len(new) /\ new[i] = ts[i]
      BY <1>1, <1>2
    <3> QED BY <3>2, <3>3
  <2> QED BY <2>1, <2>2
<1> HIDE DEF new, row
<1>6. ASSUME NEW i \in 1 .. Len(new) PROVE new[i].turn \in 1 .. (n + 1)
  <2>1. CASE i = Len(ts) + 1
    BY <1>2, <1>3, <2>1
  <2>2. CASE i # Len(ts) + 1
    <3>1. i \in 1 .. Len(ts)
      BY <1>1, <1>2, <2>2
    <3>2. new[i].turn \in 1 .. n
      BY <1>2, <1>4, <3>1
    <3> QED BY <3>2
  <2> QED BY <2>1, <2>2
<1>7. ASSUME NEW i \in 1 .. Len(new), NEW j \in 1 .. Len(new), i < j
      PROVE  /\ new[i].turn <= new[j].turn
             /\ new[j].who = "user" => new[i].turn < new[j].turn
  <2>1. i \in 1 .. Len(ts)
    BY <1>1, <1>2, <1>7
  <2>2. CASE j = Len(ts) + 1
    <3>1. new[j].turn = n + 1 /\ new[i].turn \in 1 .. n
      BY <1>2, <1>3, <1>4, <2>1, <2>2
    <3> QED BY <3>1
  <2>3. CASE j # Len(ts) + 1
    <3>1. j \in 1 .. Len(ts)
      BY <1>1, <1>2, <2>3
    <3> QED BY <1>2, <1>7, <2>1, <3>1 DEF Faithful
  <2> QED BY <2>2, <2>3
<1>8. Continues(ts, new)
  BY <1>1, <1>2 DEF Continues
<1>9. \A o \in ov : o.result # "exception" => Cardinality(SaidOf(new, o.turn)) >= o.said
  BY <1>1, <1>8, OutcomesStay DEF Faithful, KnownOver
<1> QED BY <1>2, <1>5, <1>6, <1>7, <1>9 DEF Faithful, new, row

(* What is said of the last prompt.                                         *)
LEMMA RowsAreKept ==
    ASSUME NEW n \in Nat \ {0}, NEW ts, NEW ov, KnownOver(ov), Faithful(ts, n, ov),
           NEW new, Continues(ts, new),
           \A i \in 1 .. Len(new) : i > Len(ts) => new[i].turn = n /\ new[i].who # "user"
    PROVE  Faithful(new, n, ov)
<1>1. /\ ts \in Seq(EntryRec) /\ new \in Seq(EntryRec) /\ Len(ts) \in Nat /\ Len(new) \in Nat
      /\ Len(new) >= Len(ts) /\ \A i \in 1 .. Len(ts) : new[i] = ts[i]
      /\ \A i \in 1 .. Len(ts) : i \in 1 .. Len(new)
  BY DEF Faithful, Continues
<1>2. \A m \in 1 .. n : \E i \in 1 .. Len(new) : new[i] = [who |-> "user", turn |-> m]
  <2> SUFFICES ASSUME NEW m \in 1 .. n
               PROVE  \E i \in 1 .. Len(new) : new[i] = [who |-> "user", turn |-> m]
    OBVIOUS
  <2>1. PICK i \in 1 .. Len(ts) : ts[i] = [who |-> "user", turn |-> m]
    BY DEF Faithful
  <2> QED BY <1>1, <2>1
<1>3. ASSUME NEW i \in 1 .. Len(new) PROVE new[i].turn \in 1 .. n
  <2>1. CASE i > Len(ts)
    BY <2>1
  <2>2. CASE ~(i > Len(ts))
    <3>1. i \in 1 .. Len(ts)
      BY <1>1, <2>2
    <3> QED BY <1>1, <3>1 DEF Faithful
  <2> QED BY <2>1, <2>2
<1>4. ASSUME NEW i \in 1 .. Len(new), NEW j \in 1 .. Len(new), i < j
      PROVE  /\ new[i].turn <= new[j].turn
             /\ new[j].who = "user" => new[i].turn < new[j].turn
  <2>1. CASE j > Len(ts)
    <3>1. new[j].turn = n /\ new[j].who # "user" /\ new[i].turn \in 1 .. n
      BY <1>3, <2>1
    <3> QED BY <3>1
  <2>2. CASE ~(j > Len(ts))
    <3>1. i \in 1 .. Len(ts) /\ j \in 1 .. Len(ts)
      BY <1>1, <1>4, <2>2
    <3> QED BY <1>1, <1>4, <3>1 DEF Faithful
  <2> QED BY <2>1, <2>2
<1>5. \A o \in ov : o.result # "exception" => Cardinality(SaidOf(new, o.turn)) >= o.said
  BY <1>1, OutcomesStay DEF Faithful, KnownOver
<1> QED BY <1>1, <1>2, <1>3, <1>4, <1>5 DEF Faithful

LEMMA NoteIsKept ==
    ASSUME NEW n \in Nat \ {0}, NEW ts, NEW ov, KnownOver(ov), Faithful(ts, n, ov)
    PROVE  Faithful(Append(ts, [who |-> "note", turn |-> n]), n, ov)
<1> DEFINE row == [who |-> "note", turn |-> n]
           new == Append(ts, row)
<1>1. ts \in Seq(EntryRec) /\ row \in EntryRec /\ Len(ts) \in Nat
  BY DEF Faithful, EntryRec
<1>2. /\ new \in Seq(EntryRec) /\ Len(new) = Len(ts) + 1 /\ new[Len(ts) + 1] = row
      /\ \A i \in 1 .. Len(ts) : new[i] = ts[i]
  BY <1>1
<1>3. row.who = "note" /\ row.turn = n
  OBVIOUS
<1> HIDE DEF new, row
<1>4. Continues(ts, new)
  BY <1>1, <1>2 DEF Continues
<1>5. \A i \in 1 .. Len(new) : i > Len(ts) => new[i].turn = n /\ new[i].who # "user"
  BY <1>1, <1>2, <1>3
<1>6. Faithful(new, n, ov)
  BY <1>4, <1>5, RowsAreKept
<1> QED BY <1>6 DEF new, row

(* The messages of an outcome, those of the worker among them.              *)
LEMMA OutcomeIsKept ==
    ASSUME NEW n \in Nat \ {0}, n = turns, NEW ov, KnownOver(ov), Faithful(worker.base, n, ov),
           worker.said \in Nat
    PROVE  /\ Faithful(OutcomeMessages, n, ov)
           /\ Cardinality(SaidOf(OutcomeMessages, n)) >= worker.said
<1> DEFINE base == worker.base
           k == worker.said
           own == [i \in 1 .. k |-> Entry("model")]
           last == IF worker.result = "cancelled" THEN <<Entry("note")>> ELSE <<>>
           mid == base \o own
           new == mid \o last
<1>0. \A w \in {"model", "note"} : Entry(w) \in EntryRec /\ Entry(w).who = w /\ Entry(w).turn = n
  BY DEF Entry, EntryRec
<1>1. base \in Seq(EntryRec) /\ Len(base) \in Nat /\ k \in Nat
  BY DEF Faithful
<1>2. own \in Seq(EntryRec) /\ Len(own) = k /\ \A i \in 1 .. k : own[i] = Entry("model")
  BY <1>0, <1>1
<1>3. /\ last \in Seq(EntryRec) /\ Len(last) \in {0, 1}
      /\ \A i \in 1 .. Len(last) : last[i] = Entry("note")
  BY <1>0
<1>a. OutcomeMessages = new
  <2>1. OutcomeMessages = base \o own \o last
    BY DEF OutcomeMessages
  <2> QED BY <2>1
<1> HIDE DEF own, last, base, k
<1>4. /\ mid \in Seq(EntryRec) /\ Len(mid) = Len(base) + k
      /\ \A i \in 1 .. Len(base) : mid[i] = base[i]
      /\ \A i \in 1 .. Len(mid) : i > Len(base) => mid[i] = own[i - Len(base)] /\ i - Len(base) \in 1 .. k
  BY <1>1, <1>2
<1>5. \A i \in 1 .. Len(mid) : i > Len(base) => mid[i] = Entry("model")
  BY <1>2, <1>4
<1> HIDE DEF mid
<1>6. /\ new \in Seq(EntryRec) /\ Len(new) = Len(mid) + Len(last)
      /\ \A i \in 1 .. Len(mid) : new[i] = mid[i]
      /\ \A i \in 1 .. Len(new) : i > Len(mid) => new[i] = last[i - Len(mid)] /\ i - Len(mid) \in 1 .. Len(last)
  BY <1>3, <1>4
<1>7. \A i \in 1 .. Len(new) : i > Len(mid) => new[i] = Entry("note")
  BY <1>3, <1>6
<1> HIDE DEF new
<1>l. Len(mid) \in Nat /\ Len(new) \in Nat /\ Len(base) <= Len(mid) /\ Len(mid) <= Len(new)
  BY <1>1, <1>3, <1>4, <1>6
<1>8. Continues(base, new)
  BY <1>1, <1>4, <1>6, <1>l DEF Continues
<1>9. ASSUME NEW i \in 1 .. Len(new), i > Len(base)
      PROVE  new[i].turn = n /\ new[i].who # "user"
  <2>1. CASE i > Len(mid)
    BY <1>0, <1>7, <2>1
  <2>2. CASE ~(i > Len(mid))
    <3>1. i \in 1 .. Len(mid)
      BY <1>l, <2>2
    <3>2. new[i] = Entry("model")
      BY <1>5, <1>6, <1>9, <3>1
    <3> QED BY <1>0, <3>2
  <2> QED BY <2>1, <2>2
<1>b. Faithful(base, n, ov)
  BY DEF base
<1>10. Faithful(new, n, ov)
  BY <1>8, <1>9, <1>b, RowsAreKept
<1>11. Cardinality(SaidOf(new, n)) >= k
  <2> DEFINE places == (Len(base) + 1) .. (Len(base) + k)
  <2>1. IsFiniteSet(places) /\ Cardinality(places) = k
    <3>1. Len(base) + 1 \in Int /\ Len(base) + k \in Int
      BY <1>1
    <3>2. IsFiniteSet(places)
      BY <3>1, FS_Interval
    <3>3. CASE k = 0
      <4>1. places = {}
        BY <1>1, <3>3
      <4> QED BY <3>2, <3>3, <4>1, FS_EmptySet
    <3>4. CASE k # 0
      <4>1. ~(Len(base) + 1 > Len(base) + k)
        BY <1>1, <3>4
      <4>2. Cardinality(places) = (Len(base) + k) - (Len(base) + 1) + 1
        BY <3>1, <4>1, FS_Interval
      <4> QED BY <1>1, <3>2, <4>2
    <3> QED BY <3>3, <3>4
  <2>2. places \in SUBSET SaidOf(new, n)
    <3> SUFFICES ASSUME NEW i \in places PROVE i \in SaidOf(new, n)
      OBVIOUS
    <3>1. i \in 1 .. Len(mid) /\ i > Len(base) /\ i \in 1 .. Len(new)
      BY <1>1, <1>4, <1>l
    <3>2. new[i] = Entry("model")
      BY <1>5, <1>6, <3>1
    <3> QED BY <1>0, <3>1, <3>2 DEF SaidOf
  <2>3. IsFiniteSet(SaidOf(new, n)) /\ Cardinality(SaidOf(new, n)) \in Nat
    BY <1>6, SaidIsFinite
  <2>4. Cardinality(places) <= Cardinality(SaidOf(new, n))
    BY <2>2, <2>3, FS_Subset
  <2> HIDE DEF places
  <2> QED BY <1>1, <2>1, <2>3, <2>4
<1> QED BY <1>a, <1>10, <1>11 DEF k

-----------------------------------------------------------------------------
(* The pages, and what is so on each of them.                               *)
IsWorker(w) ==
    /\ {"st", "at", "base", "said", "stop", "ran", "result"} \subseteq DOMAIN w
    /\ w.said \in Nat

HasWorker == worker.st # "none"

TranscriptKept == turns \in Nat /\ KnownOver(over) /\ Faithful(transcript, turns, over)

WorkerKept ==
    /\ worker.st \in {"none", "new", "running", "ended"}
    /\ ~HasWorker => worker = NoWorker
    /\ HasWorker => waiting /\ IsWorker(worker) /\ Faithful(worker.base, turns, over)

PagesKept ==
    /\ page \in {"append", "classify"} => ~waiting
    /\ page \in {"build", "start", "look", "check", "store", "tab", "count", "drop"} => waiting
    /\ page \in {"start", "look", "check", "store", "tab", "count", "drop"} => HasWorker
    /\ page = "release" => ~HasWorker
    /\ (page \in {"classify", "choose", "submit"} \/ unsure \/ waiting) => turns > 0

EndedThere ==
    /\ page \in {"store", "tab", "count", "drop"} => worker.st = "ended"
    /\ page \in {"store", "tab", "count"} => worker.result # "exception"

Stored == page \in {"tab", "count"} \/ (page = "drop" /\ worker.result # "exception")

StoredThere == Stored => Cardinality(SaidOf(transcript, turns)) >= worker.said

CountedOnce ==
    /\ IsFiniteSet(TurnsOver) /\ figures \in Nat
    /\ figures >= Cardinality(TurnsOver)
    /\ page = "drop" /\ worker.result # "exception" => figures > Cardinality(TurnsOver)

(* The invariant: the transcript, and what the worker was given, keep       *)
(* everything; the pages know where the worker is and that it has ended;    *)
(* from storing to dropping the outcome is there, and after counting one    *)
(* more is counted than is over.                                            *)
ChatInv ==
    /\ TranscriptKept /\ WorkerKept /\ PagesKept /\ EndedThere /\ StoredThere /\ CountedOnce

LEMMA ChatStarts == ChatInit => ChatInv
<1> SUFFICES ASSUME ChatInit PROVE ChatInv
  OBVIOUS
<1>1. /\ transcript = <<>> /\ waiting = FALSE /\ unsure = FALSE /\ page = "top" /\ figures = 0
      /\ worker = NoWorker /\ turns = 0 /\ over = {}
  BY DEF ChatInit
<1>2. worker.st = "none"
  BY <1>1 DEF NoWorker
<1>3. TurnsOver = {}
  BY <1>1 DEF TurnsOver
<1>4. IsFiniteSet(TurnsOver) /\ Cardinality(TurnsOver) = 0
  BY <1>3, FS_EmptySet
<1>5. transcript \in Seq(EntryRec) /\ Len(transcript) = 0
  BY <1>1
<1>6. TranscriptKept
  BY <1>1, <1>5 DEF TranscriptKept, Faithful, KnownOver
<1> QED
  BY <1>1, <1>2, <1>4, <1>6
  DEF ChatInv, WorkerKept, HasWorker, PagesKept, EndedThere, StoredThere, Stored, CountedOnce

(* The worker's steps, which touch nothing of the page.                     *)
WorkerMoves ==
    /\ worker.st = "running" /\ UNCHANGED <<pageVars, turns, over>>
    /\ worker'.st \in {"running", "ended"} /\ IsWorker(worker') /\ worker'.base = worker.base

LEMMA WorkerMovesKeep == ChatInv /\ WorkerMoves => ChatInv'
<1> SUFFICES ASSUME ChatInv, WorkerMoves PROVE ChatInv'
  OBVIOUS
<1>1. /\ UNCHANGED <<transcript, waiting, unsure, page, figures, turns, over>>
      /\ worker.st = "running" /\ worker'.st \in {"running", "ended"}
  BY DEF WorkerMoves, pageVars
<1>2. page \notin {"store", "tab", "count", "drop"}
  BY <1>1 DEF ChatInv, EndedThere
<1>3. WorkerKept'
  BY <1>1 DEF WorkerMoves, ChatInv, WorkerKept, HasWorker
<1>4. TurnsOver' = TurnsOver
  BY <1>1 DEF TurnsOver
<1>5. TranscriptKept' /\ PagesKept'
  BY <1>1 DEF ChatInv, TranscriptKept, PagesKept, HasWorker
<1> QED
  BY <1>1, <1>2, <1>3, <1>4, <1>5
  DEF ChatInv, EndedThere, StoredThere, Stored, CountedOnce

LEMMA WorkerStepsMove == ChatInv /\ WorkerStep => WorkerMoves
<1> SUFFICES ASSUME ChatInv, WorkerStep PROVE WorkerMoves
  OBVIOUS
<1>0. worker.st = "running" => IsWorker(worker)
  BY DEF ChatInv, WorkerKept, HasWorker
<1>1. ASSUME worker.st = "running", NEW result, Ends(result)
      PROVE  worker'.st = "ended" /\ IsWorker(worker') /\ worker'.base = worker.base
  BY <1>0, <1>1 DEF Ends, IsWorker
<1>2. ASSUME WorkerTurn PROVE WorkerMoves
  <2>1. worker.st = "running" /\ UNCHANGED <<pageVars, turns, over>>
    BY <1>2 DEF WorkerTurn
  <2>2. CASE worker.stop
    BY <1>1, <1>2, <2>1, <2>2 DEF WorkerTurn, WorkerMoves
  <2>3. CASE ~worker.stop
    <3>1. worker' = [worker EXCEPT !.at = "stream"]
      BY <1>2, <2>3 DEF WorkerTurn
    <3>2. worker'.st = "running" /\ IsWorker(worker') /\ worker'.base = worker.base
      BY <1>0, <2>1, <3>1 DEF IsWorker
    <3> QED BY <2>1, <3>2 DEF WorkerMoves
  <2> QED BY <2>2, <2>3
<1>3. ASSUME NEW ev \in {"answer", "calls"}, StreamEvent(ev) PROVE WorkerMoves
  <2>1. worker.st = "running" /\ UNCHANGED <<pageVars, turns, over>>
    BY <1>3 DEF StreamEvent
  <2>2. CASE Ends("error")
    BY <1>1, <2>1, <2>2 DEF WorkerMoves
  <2>3. CASE worker' = [worker EXCEPT !.st = "ended", !.result = "answer", !.said = @ + 1]
    <3>1. worker'.st = "ended" /\ IsWorker(worker') /\ worker'.base = worker.base
      BY <1>0, <2>1, <2>3 DEF IsWorker
    <3> QED BY <2>1, <3>1 DEF WorkerMoves
  <2>4. CASE worker' = [worker EXCEPT !.at = "tools", !.said = @ + 1]
    <3>1. worker'.st = "running" /\ IsWorker(worker') /\ worker'.base = worker.base
      BY <1>0, <2>1, <2>4 DEF IsWorker
    <3> QED BY <2>1, <3>1 DEF WorkerMoves
  <2> QED BY <1>3, <2>2, <2>3, <2>4 DEF StreamEvent
<1>4. ASSUME NEW quiet \in BOOLEAN, StreamFails(quiet) PROVE WorkerMoves
  <2>1. worker.st = "running" /\ UNCHANGED <<pageVars, turns, over>>
    BY <1>4 DEF StreamFails
  <2>2. CASE Ends("error")
    BY <1>1, <2>1, <2>2 DEF WorkerMoves
  <2>3. CASE UNCHANGED worker
    BY <1>0, <2>1, <2>3 DEF WorkerMoves, IsWorker
  <2> QED BY <1>4, <2>2, <2>3 DEF StreamFails
<1>5. ASSUME NEW known \in BOOLEAN, ToolBatch(known) PROVE WorkerMoves
  <2>1. worker.st = "running" /\ UNCHANGED <<pageVars, turns, over>>
    BY <1>5 DEF ToolBatch
  <2>2. CASE Ends("exception")
    BY <1>1, <2>1, <2>2 DEF WorkerMoves
  <2>3. CASE worker' = [worker EXCEPT !.at = "turn", !.ran = Append(@, <<turns, worker.said>>)]
    <3>1. worker'.st = "running" /\ IsWorker(worker') /\ worker'.base = worker.base
      BY <1>0, <2>1, <2>3 DEF IsWorker
    <3> QED BY <2>1, <3>1 DEF WorkerMoves
  <2> QED BY <1>5, <2>2, <2>3 DEF ToolBatch
<1> QED BY <1>2, <1>3, <1>4, <1>5 DEF WorkerStep

(* The page's steps that leave the transcript and the worker alone.         *)
LEMMA PageMovesKeep ==
    ASSUME ChatInv, UNCHANGED <<transcript, figures, worker, turns, over>>, PagesKept',
           EndedThere', StoredThere', waiting \/ ~HasWorker => (waiting' \/ ~HasWorker'),
           page' # "drop" \/ worker.result = "exception" \/ figures > Cardinality(TurnsOver)
    PROVE  ChatInv'
<1>1. TurnsOver' = TurnsOver
  BY DEF TurnsOver
<1>2. WorkerKept'
  BY DEF ChatInv, WorkerKept, HasWorker
<1> QED BY <1>1, <1>2 DEF ChatInv, TranscriptKept, CountedOnce

LEMMA WalkKeeps ==
    ASSUME ChatInv,
           \/ Top \/ ChooseMode \/ Submit \/ Look \/ Release \/ FillTab
           \/ \E a \in {"sure", "not_sure", "raises"} : ClassifyPrompt(a)
           \/ \E c \in {"none", "stop"} : Touch(c)
           \/ \E c \in {"send", "mode"} : Press(c)
    PROVE  ChatInv'
<1>0. PagesKept /\ EndedThere /\ StoredThere /\ WorkerKept
  BY DEF ChatInv
<1>1. CASE Top
  <2>1. /\ page = "top"
        /\ page' = IF unsure THEN IF click = "mode" THEN "choose" ELSE "idle"
                   ELSE IF waiting THEN IF worker = NoWorker THEN "build" ELSE "look"
                   ELSE IF click = "send" /\ turns < MaxSent THEN "append" ELSE "idle"
        /\ UNCHANGED <<transcript, waiting, unsure, figures, worker, turns, over>>
    BY <1>1 DEF Top, GoTo, turnVars
  <2>2. PagesKept'
    BY <1>0, <2>1 DEF PagesKept, HasWorker, WorkerKept
  <2>3. EndedThere' /\ StoredThere' /\ page' # "drop"
    BY <2>1 DEF EndedThere, StoredThere, Stored
  <2> QED BY <2>1, <2>2, <2>3, PageMovesKeep DEF HasWorker
<1>2. CASE ChooseMode \/ Submit \/ Look
  <2>1. /\ \/ page = "choose" /\ page' = "submit" /\ unsure' = FALSE /\ waiting' = waiting
           \/ page = "submit" /\ page' = "top" /\ waiting' = TRUE /\ unsure' = unsure
           \/ page = "look" /\ page' = "check" /\ UNCHANGED <<waiting, unsure>>
        /\ UNCHANGED <<transcript, figures, worker, turns, over>>
    BY <1>2 DEF ChooseMode, Submit, Look, GoTo, RunAgain, turnVars
  <2>2. PagesKept'
    BY <1>0, <2>1 DEF PagesKept, HasWorker
  <2>3. EndedThere' /\ StoredThere' /\ page' # "drop"
    BY <2>1 DEF EndedThere, StoredThere, Stored
  <2> QED BY <2>1, <2>2, <2>3, PageMovesKeep DEF HasWorker
<1>3. CASE Release
  <2>1. /\ page = "release" /\ page' = "top" /\ waiting' = FALSE
        /\ UNCHANGED <<transcript, unsure, figures, worker, turns, over>>
    BY <1>3 DEF Release, RunAgain, turnVars
  <2>2. PagesKept' /\ ~HasWorker'
    BY <1>0, <2>1 DEF PagesKept, HasWorker
  <2>3. EndedThere' /\ StoredThere' /\ page' # "drop"
    BY <2>1 DEF EndedThere, StoredThere, Stored
  <2> QED BY <2>1, <2>2, <2>3, PageMovesKeep
<1>4. CASE FillTab
  <2>1. /\ page = "tab" /\ page' = "count"
        /\ UNCHANGED <<transcript, waiting, unsure, figures, worker, turns, over>>
    BY <1>4 DEF FillTab, GoTo, turnVars
  <2>2. PagesKept'
    BY <1>0, <2>1 DEF PagesKept, HasWorker
  <2>3. EndedThere' /\ StoredThere' /\ page' # "drop"
    BY <1>0, <2>1 DEF EndedThere, StoredThere, Stored
  <2> QED BY <2>1, <2>2, <2>3, PageMovesKeep DEF HasWorker
<1>5. CASE \E a \in {"sure", "not_sure", "raises"} : ClassifyPrompt(a)
  <2>1. /\ page = "classify" /\ page' \in {"submit", "top", "idle"}
        /\ UNCHANGED <<transcript, waiting, figures, worker, turns, over>>
    BY <1>5 DEF ClassifyPrompt, GoTo, RunAgain, turnVars
  <2>2. PagesKept'
    BY <1>0, <2>1 DEF PagesKept, HasWorker
  <2>3. EndedThere' /\ StoredThere' /\ page' # "drop"
    BY <2>1 DEF EndedThere, StoredThere, Stored
  <2> QED BY <2>1, <2>2, <2>3, PageMovesKeep DEF HasWorker
<1>6. CASE (\E c \in {"none", "stop"} : Touch(c)) \/ (\E c \in {"send", "mode"} : Press(c))
  <2>1. page' = "top" /\ UNCHANGED <<transcript, waiting, unsure, figures, worker, turns, over>>
    BY <1>6 DEF Touch, Press, turnVars
  <2>2. PagesKept'
    BY <1>0, <2>1 DEF PagesKept, HasWorker
  <2>3. EndedThere' /\ StoredThere' /\ page' # "drop"
    BY <2>1 DEF EndedThere, StoredThere, Stored
  <2> QED BY <2>1, <2>2, <2>3, PageMovesKeep DEF HasWorker
<1> QED BY <1>1, <1>2, <1>3, <1>4, <1>5, <1>6

(* A prompt is only added when no worker has an older transcript.           *)
LEMMA AppendKeeps == ChatInv /\ AppendPrompt => ChatInv'
<1> SUFFICES ASSUME ChatInv, AppendPrompt PROVE ChatInv'
  OBVIOUS
<1>1. /\ page = "append" /\ page' = "classify" /\ turns' = turns + 1 /\ turns \in Nat
      /\ transcript' = Append(transcript, [who |-> "user", turn |-> turns + 1])
      /\ UNCHANGED <<waiting, unsure, figures, worker, over>>
  BY DEF AppendPrompt, GoTo, ChatInv, TranscriptKept
<1>2. ~waiting /\ ~HasWorker /\ worker = NoWorker
  BY <1>1 DEF ChatInv, PagesKept, WorkerKept
<1>3. TranscriptKept'
  BY <1>1, PromptIsKept DEF ChatInv, TranscriptKept
<1>4. WorkerKept'
  BY <1>1, <1>2 DEF ChatInv, WorkerKept, HasWorker
<1>5. PagesKept'
  BY <1>1, <1>2 DEF ChatInv, PagesKept, HasWorker
<1>6. TurnsOver' = TurnsOver
  BY <1>1 DEF TurnsOver
<1> QED
  BY <1>1, <1>3, <1>4, <1>5, <1>6
  DEF ChatInv, EndedThere, StoredThere, Stored, CountedOnce

LEMMA NoteKeeps == ChatInv /\ SendToRuntime => ChatInv'
<1> SUFFICES ASSUME ChatInv, SendToRuntime PROVE ChatInv'
  OBVIOUS
<1>1. /\ page = "classify" /\ page' = "top" /\ turns \in Nat
      /\ transcript' = Append(transcript, [who |-> "note", turn |-> turns])
      /\ UNCHANGED <<waiting, unsure, figures, worker, turns, over>>
  BY DEF SendToRuntime, RunAgain, Entry, ChatInv, TranscriptKept, turnVars
<1>2. turns \in Nat \ {0}
  BY <1>1 DEF ChatInv, PagesKept
<1>3. TranscriptKept'
  BY <1>1, <1>2, NoteIsKept DEF ChatInv, TranscriptKept
<1>4. WorkerKept' /\ PagesKept'
  BY <1>1 DEF ChatInv, WorkerKept, PagesKept, HasWorker
<1>5. TurnsOver' = TurnsOver
  BY <1>1 DEF TurnsOver
<1> QED
  BY <1>1, <1>3, <1>4, <1>5
  DEF ChatInv, EndedThere, StoredThere, Stored, CountedOnce

LEMMA BuildKeeps == ChatInv /\ BuildWorker => ChatInv'
<1> SUFFICES ASSUME ChatInv, BuildWorker PROVE ChatInv'
  OBVIOUS
<1>1. /\ page = "build" /\ page' = "start" /\ worker' = NewWorker
      /\ UNCHANGED <<transcript, waiting, unsure, figures, turns, over>>
  BY DEF BuildWorker, GoTo
<1>2. /\ worker'.st = "new" /\ worker'.base = transcript /\ IsWorker(worker')
  BY <1>1 DEF NewWorker, IsWorker
<1>3. waiting
  BY <1>1 DEF ChatInv, PagesKept
<1>4. WorkerKept'
  BY <1>1, <1>2, <1>3 DEF ChatInv, TranscriptKept, WorkerKept, HasWorker
<1>5. TranscriptKept' /\ PagesKept'
  BY <1>1, <1>2, <1>3 DEF ChatInv, TranscriptKept, PagesKept, HasWorker
<1>6. TurnsOver' = TurnsOver
  BY <1>1 DEF TurnsOver
<1> QED
  BY <1>1, <1>4, <1>5, <1>6
  DEF ChatInv, EndedThere, StoredThere, Stored, CountedOnce

LEMMA HandleKeeps == ChatInv /\ (StartWorker \/ Check) => ChatInv'
<1> SUFFICES ASSUME ChatInv, StartWorker \/ Check PROVE ChatInv'
  OBVIOUS
<1>0. page \in {"start", "check"} /\ waiting /\ HasWorker /\ IsWorker(worker)
  BY DEF StartWorker, Check, ChatInv, PagesKept, WorkerKept
<1>1. CASE Check /\ worker.st = "ended"
  <2>1. /\ page' = IF worker.result = "exception" THEN "drop" ELSE "store"
        /\ UNCHANGED <<transcript, waiting, unsure, figures, worker, turns, over>>
    BY <1>1 DEF Check, GoTo
  <2>2. PagesKept' /\ EndedThere' /\ StoredThere'
    BY <1>0, <1>1, <2>1 DEF ChatInv, PagesKept, HasWorker, EndedThere, StoredThere, Stored
  <2> QED BY <2>1, <2>2, PageMovesKeep DEF HasWorker
<1>2. CASE StartWorker \/ (Check /\ worker.st # "ended")
  <2>1. /\ page' \in {"look", "top"}
        /\ \/ worker' = [worker EXCEPT !.st = "running"]
           \/ worker' = [worker EXCEPT !.stop = worker.stop \/ click = "stop"]
        /\ UNCHANGED <<transcript, waiting, unsure, figures, turns, over>>
    BY <1>2 DEF StartWorker, Check, GoTo, RunAgain
  <2>2. IsWorker(worker') /\ worker'.base = worker.base /\ worker'.st \in {"running", worker.st}
    BY <1>0, <2>1 DEF IsWorker
  <2>3. HasWorker' /\ worker'.st \in {"new", "running", "ended"}
    BY <1>0, <2>2 DEF ChatInv, WorkerKept, HasWorker
  <2>4. WorkerKept'
    BY <1>0, <2>1, <2>2, <2>3 DEF ChatInv, WorkerKept
  <2>5. TranscriptKept' /\ PagesKept'
    BY <1>0, <2>1, <2>3 DEF ChatInv, TranscriptKept, PagesKept
  <2>6. TurnsOver' = TurnsOver
    BY <2>1 DEF TurnsOver
  <2> QED
    BY <2>1, <2>4, <2>5, <2>6
    DEF ChatInv, EndedThere, StoredThere, Stored, CountedOnce
<1> QED BY <1>1, <1>2

LEMMA StoreKeeps == ChatInv /\ StoreMessages => ChatInv'
<1> SUFFICES ASSUME ChatInv, StoreMessages PROVE ChatInv'
  OBVIOUS
<1>1. /\ page = "store" /\ page' = "tab" /\ transcript' = OutcomeMessages
      /\ UNCHANGED <<waiting, unsure, figures, worker, turns, over>>
  BY DEF StoreMessages, GoTo, turnVars
<1>2. /\ HasWorker /\ waiting /\ turns \in Nat \ {0} /\ KnownOver(over)
      /\ Faithful(worker.base, turns, over) /\ worker.said \in Nat
  BY <1>1 DEF ChatInv, PagesKept, WorkerKept, IsWorker, TranscriptKept
<1>3. /\ Faithful(OutcomeMessages, turns, over)
      /\ Cardinality(SaidOf(OutcomeMessages, turns)) >= worker.said
  BY <1>2, OutcomeIsKept
<1>4. TranscriptKept' /\ StoredThere'
  BY <1>1, <1>2, <1>3 DEF TranscriptKept, StoredThere
<1>5. WorkerKept' /\ PagesKept' /\ EndedThere'
  BY <1>1, <1>2 DEF ChatInv, WorkerKept, PagesKept, HasWorker, EndedThere
<1>6. TurnsOver' = TurnsOver
  BY <1>1 DEF TurnsOver
<1> QED BY <1>1, <1>4, <1>5, <1>6 DEF ChatInv, CountedOnce

LEMMA CountKeeps == ChatInv /\ Count => ChatInv'
<1> SUFFICES ASSUME ChatInv, Count PROVE ChatInv'
  OBVIOUS
<1>1. /\ page = "count" /\ page' = "drop" /\ figures' = figures + 1
      /\ UNCHANGED <<transcript, waiting, unsure, worker, turns, over>>
  BY DEF Count, GoTo, turnVars
<1>2. TurnsOver' = TurnsOver
  BY <1>1 DEF TurnsOver
<1>3. Cardinality(TurnsOver) \in Nat
  BY FS_CardinalityType DEF ChatInv, CountedOnce
<1>4. CountedOnce'
  BY <1>1, <1>2, <1>3 DEF ChatInv, CountedOnce
<1>5. TranscriptKept' /\ WorkerKept' /\ PagesKept' /\ EndedThere' /\ StoredThere'
  BY <1>1
  DEF ChatInv, TranscriptKept, WorkerKept, PagesKept, HasWorker, EndedThere, StoredThere, Stored
<1> QED BY <1>4, <1>5 DEF ChatInv

(* The turn is over with what was stored and counted.                       *)
LEMMA DropKeeps == ChatInv /\ Drop => ChatInv'
<1> SUFFICES ASSUME ChatInv, Drop PROVE ChatInv'
  OBVIOUS
<1> DEFINE o == [turn |-> turns, result |-> worker.result, said |-> worker.said]
<1>1. /\ page = "drop" /\ page' = "release" /\ worker' = NoWorker /\ over' = over \cup {o}
      /\ UNCHANGED <<transcript, waiting, unsure, figures, turns>>
  BY DEF Drop, GoTo
<1>2. /\ HasWorker /\ waiting /\ turns \in Nat /\ turns > 0 /\ worker.said \in Nat
      /\ KnownOver(over) /\ Faithful(transcript, turns, over)
  BY <1>1 DEF ChatInv, PagesKept, WorkerKept, IsWorker, TranscriptKept
<1>3. o.turn = turns /\ o.result = worker.result /\ o.said = worker.said
  OBVIOUS
<1> HIDE DEF o
<1>4. o.result # "exception" => Cardinality(SaidOf(transcript, o.turn)) >= o.said
  BY <1>1, <1>3 DEF ChatInv, StoredThere, Stored
<1>5. TranscriptKept'
  BY <1>1, <1>2, <1>3, <1>4 DEF TranscriptKept, KnownOver, Faithful
<1>6. worker'.st = "none"
  BY <1>1 DEF NoWorker
<1>7. WorkerKept' /\ PagesKept' /\ EndedThere' /\ StoredThere'
  BY <1>1, <1>2, <1>6 DEF WorkerKept, PagesKept, HasWorker, EndedThere, StoredThere, Stored
<1>8. CountedOnce'
  <2> DEFINE T == TurnsOver
  <2>1. IsFiniteSet(T) /\ Cardinality(T) \in Nat /\ figures \in Nat /\ figures >= Cardinality(T)
    BY FS_CardinalityType DEF ChatInv, CountedOnce
  <2>2. CASE o.result = "exception"
    <3>1. TurnsOver' = T
      BY <1>1, <2>2 DEF TurnsOver
    <3> QED BY <1>1, <2>1, <3>1 DEF CountedOnce
  <2>3. CASE o.result # "exception"
    <3>1. TurnsOver' = T \cup {turns}
      BY <1>1, <1>3, <2>3 DEF TurnsOver
    <3>2. figures > Cardinality(T)
      BY <1>1, <1>3, <2>3 DEF ChatInv, CountedOnce
    <3> HIDE DEF T
    <3>3. /\ IsFiniteSet(T \cup {turns}) /\ Cardinality(T \cup {turns}) \in Nat
          /\ Cardinality(T \cup {turns}) <= Cardinality(T) + 1
      <4>1. Cardinality(T \cup {turns}) = IF turns \in T THEN Cardinality(T) ELSE Cardinality(T) + 1
        BY <2>1, FS_AddElement
      <4>2. IsFiniteSet(T \cup {turns})
        BY <2>1, FS_AddElement
      <4> QED BY <2>1, <4>1, <4>2
    <3> QED BY <1>1, <2>1, <3>1, <3>2, <3>3 DEF CountedOnce
  <2> QED BY <2>2, <2>3
<1> QED BY <1>5, <1>7, <1>8 DEF ChatInv

(* However runs of the script in chat_app.py are abandoned, the             *)
(* conversation keeps every prompt and what was said of it, and the totals  *)
(* count every turn that ended.                                             *)
THEOREM TurnsStay == ChatSpec => []TurnsAreKept
<1>1. ChatInv => TurnsAreKept
  BY DEF ChatInv, TranscriptKept, Faithful, CountedOnce, TurnsAreKept, Keeps
<1>2. ChatInv /\ [ChatNext]_chatVars => ChatInv'
  <2> SUFFICES ASSUME ChatInv, [ChatNext]_chatVars PROVE ChatInv'
    OBVIOUS
  <2>1. CASE UNCHANGED chatVars
    <3>1. UNCHANGED <<transcript, waiting, unsure, page, figures, worker, turns, over>>
      BY <2>1 DEF chatVars, pageVars, turnVars
    <3>2. TurnsOver' = TurnsOver
      BY <3>1 DEF TurnsOver
    <3> QED
      BY <3>1, <3>2
      DEF ChatInv, TranscriptKept, WorkerKept, PagesKept, HasWorker, EndedThere, StoredThere,
          Stored, CountedOnce
  <2>2. CASE WorkerStep
    BY <2>2, WorkerStepsMove, WorkerMovesKeep
  <2>3. CASE PageStep
    BY <2>3, WalkKeeps, AppendKeeps, NoteKeeps, BuildKeeps, HandleKeeps, StoreKeeps, CountKeeps,
       DropKeeps
    DEF PageStep
  <2>4. CASE (\E c \in {"none", "stop"} : Touch(c)) \/ (\E c \in {"send", "mode"} : Press(c))
    BY <2>4, WalkKeeps
  <2> QED BY <2>1, <2>2, <2>3, <2>4 DEF ChatNext
<1> QED BY <1>1, <1>2, ChatStarts, PTL DEF ChatSpec

=============================================================================
