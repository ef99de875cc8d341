SPECIFICATION WorkSpec
CONSTANTS
    program = program
    wrong = wrong
    note1 = note1
    note2 = note2
    note3 = note3
    Calls = {note1, note2, note3, program, wrong}
    Writes = {note1, note2, note3, program}
    Unknown = {wrong}
    Text <- Texts
    Modes <- AllModes
    Policy <- ModePolicy
    MaxBatch = 2
    MaxPrompts = 3
    MaxRuns = 2
    Prompts = {p1, p2}
    NoPrompt = NoPrompt
    MaxCalls = 2
    MaxSent = 2
    MaxTouches = 2
    MaxBatches = 1
    MaxKept = 1
INVARIANTS
    ReportedLanded
    RerunHasReason
    RejectedRunsOnlyUnasked
    OnePromptAtATime
    OwnMode
    AnswersCount
    TurnsAreKept
PROPERTIES
    EveryPromptEnds
    EveryTurnEnds
    StopEndsTurn
CHECK_DEADLOCK FALSE
