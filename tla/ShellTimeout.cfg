SPECIFICATION ShellFairSpec
CONSTANTS
    Callers = {"c1"}
    OwnKey <- OneKey
    MaxSessions = 1
    MaxHandles = 1
    MaxCommands = 1
    MaxPipe = 1
    Kinds = {"bare"}
PROPERTY TimeoutIsRespected
CHECK_DEADLOCK FALSE
