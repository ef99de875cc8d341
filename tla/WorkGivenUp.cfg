SPECIFICATION Spec
CONSTANTS
    program = program
    wrong = wrong
    note1 = note1
    note2 = note2
    note3 = note3
    Calls = {note1, note2, note3}
    Writes = {note1, note2, note3}
    Unknown = {}
    Text <- Texts
    Modes <- AllModes
    Policy <- ModePolicy
    MaxBatch = 1
    MaxPrompts = 2
    MaxRuns = 2
CHECK_DEADLOCK FALSE
INVARIANT GivenUpNeverRuns
