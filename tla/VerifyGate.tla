----------------------------- MODULE VerifyGate -----------------------------
(***************************************************************************)
(* What AgentWork claims of the files a prompt changed: the orchestrator   *)
(* sorts the task, lets the session loop work on it, checks the Python     *)
(* files it is told were written, has one repair made and checks again     *)
(* (work_orchestrator.py).                                                 *)
(*                                                                         *)
(* How the loop gets to a write, with its approvals and runs, is           *)
(* WorkSession's matter; files that a shell command changes are not        *)
(* reported to the orchestrator, and nobody else writes meanwhile.         *)
(***************************************************************************)
EXTENDS Naturals, Sequences, FiniteSets, SequencesExt

CONSTANTS
    Python,        \* Python files
    TestFiles,     \* those that pytest is run on
    OtherFiles,    \* other files
    MaxTests,      \* test files that are run, the first to be changed
    MaxLint,       \* files that flake8 is given
    RepairAttempts \* the profile's max_repair_attempts

ASSUME VerifyAssumption ==
    /\ TestFiles \subseteq Python
    /\ {MaxTests, MaxLint, RepairAttempts} \subseteq Nat

Checks == {"test"} \X TestFiles \cup {"lint"} \X Python

VARIABLES
    task,      \* what the classifier takes the prompt for
    stage,     \* "idle", "execute", "verify", "repair"
    first,     \* files the execute phase reported, in the order of their first write
    second,    \* those of the repair phase
    mended,    \* whether there was one
    flake8,    \* whether it is installed
    holds,     \* history: checks that passed, and still would
    verdict    \* what the prompt ended with

verifyVars == <<task, stage, first, second, mended, flake8, holds, verdict>>

TaskKinds == {"chat", "read", "small", "large"}

VerifyInit ==
    /\ task = "chat"
    /\ stage = "idle"
    /\ first = <<>>
    /\ second = <<>>
    /\ mended = FALSE
    /\ flake8 \in BOOLEAN
    /\ holds = {}
    /\ verdict = "none"

-----------------------------------------------------------------------------

(* A task that is too large is answered with its steps; none is taken up.  *)
TakeTask(k) ==
    /\ stage = "idle"
    /\ task' = k
    /\ stage' = IF k = "large" THEN "idle" ELSE "execute"
    /\ verdict' = IF k = "large" THEN "declined" ELSE "none"
    /\ first' = <<>>
    /\ second' = <<>>
    /\ mended' = FALSE
    /\ holds' = {}
    /\ UNCHANGED flake8

EndTask(v) ==
    /\ stage' = "idle"
    /\ verdict' = v

(* _collect_changed_files *)
Noted(files, f) == IF f \in Range(files) THEN files ELSE Append(files, f)

(* A test speaks of every file, flake8 of one. *)
StillHolding(f) == {c \in holds : c[1] = "lint" /\ c[2] # f}

WriteSource(f) ==
    /\ \/ stage = "execute" /\ first' = Noted(first, f) /\ UNCHANGED second
       \/ stage = "repair"  /\ second' = Noted(second, f) /\ UNCHANGED first
    /\ holds' = StillHolding(f)
    /\ UNCHANGED <<task, stage, mended, flake8, verdict>>

(* The loop ends: finished, or with an error, a rejection or a limit.      *)
EndExecute ==
    /\ stage = "execute"
    /\ \/ stage' = "verify" /\ UNCHANGED verdict
       \/ EndTask("error")
    /\ UNCHANGED <<task, first, second, mended, flake8, holds>>

EndRepair ==
    /\ stage = "repair"
    /\ \/ stage' = "verify" /\ UNCHANGED verdict
       \/ EndTask("failed")
    /\ UNCHANGED <<task, first, second, mended, flake8, holds>>

-----------------------------------------------------------------------------
(* RuntimeVerifier.                                                         *)

(* Mutant: after a repair only its own files are checked. *)
Changed_Last == Range(IF mended THEN second ELSE first)

Changed == Range(first) \cup Range(second)

(* _merge_unique: g comes in before f.                                     *)
Ahead(g, f) ==
    LET both == first \o second
    IN  \E i \in DOMAIN both : both[i] = g /\ \A j \in 1..i : both[j] # f

FirstOf(S, n) ==
    {f \in S \cap Changed : Cardinality({g \in S \cap Changed : Ahead(g, f)}) < n}

(* build_commands, each command known by the checks it makes *)
Commands ==
    IF task # "small" THEN {}
    ELSE {{<<"test", f>>} : f \in FirstOf(TestFiles, MaxTests)}
         \cup (IF flake8 /\ FirstOf(Python, MaxLint) # {}
               THEN {{"lint"} \X FirstOf(Python, MaxLint)} ELSE {})

(* _should_repair; there is one repair, however many attempts are allowed. *)
MayRepair == task = "small" /\ ~mended /\ RepairAttempts > 0

(* Nothing to run: the prompt ends well, and its answer says that nothing  *)
(* was checked.                                                            *)
SkipChecks ==
    /\ stage = "verify"
    /\ Commands = {}
    /\ EndTask(IF task = "small" THEN "unchecked" ELSE "answered")
    /\ UNCHANGED <<task, first, second, mended, flake8, holds>>

(* Every command is run; one that fails, runs out of time or is cancelled  *)
(* is not good.                                                            *)
RunChecks ==
    /\ stage = "verify"
    /\ Commands # {}
    /\ \E good \in SUBSET Commands :
        /\ holds' = (holds \ UNION Commands) \cup UNION good
        /\ \/ good = Commands /\ EndTask("passed") /\ UNCHANGED mended
           \/ good # Commands /\ MayRepair /\ stage' = "repair" /\ mended' = TRUE /\ UNCHANGED verdict
           \/ good # Commands /\ ~MayRepair /\ EndTask("failed") /\ UNCHANGED mended
    /\ UNCHANGED <<task, first, second, flake8>>

VerifyNext ==
    \/ \E k \in TaskKinds : TakeTask(k)
    \/ \E f \in Python \cup OtherFiles : WriteSource(f)
    \/ EndExecute
    \/ EndRepair
    \/ SkipChecks
    \/ RunChecks

VerifySpec == VerifyInit /\ [][VerifyNext]_verifyVars

-----------------------------------------------------------------------------
(* Properties.                                                              *)

Wrote == Range(first) \cup Range(second)

Within(S, n) == Cardinality(Wrote \cap S) <= n

(* "Checked and passed" is said of a prompt only if each Python file it    *)
(* reported changed, in execute or in repair, has passed its checks since  *)
(* its last change, as long as they are not more than the gate takes       *)
(* (RuntimeVerifier.run, WorkTaskOrchestrator.run).                        *)
PassIsEarned ==
    verdict = "passed" =>
        /\ Wrote \cap Python # {}
        /\ Within(TestFiles, MaxTests) => {"test"} \X (Wrote \cap TestFiles) \subseteq holds
        /\ flake8 /\ Within(Python, MaxLint) => {"lint"} \X (Wrote \cap Python) \subseteq holds

=============================================================================
