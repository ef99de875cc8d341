SPECIFICATION Spec
CONSTANTS
    alpha = alpha
    beta = beta
    None = None
    Chats = {alpha, beta}
    MaxFlows = 2
    MaxSockets = 2
    MaxMoves = 1
    MaxCrashes = 0
    MaxRows = 1
INVARIANTS
    PromptsGoHome
CHECK_DEADLOCK FALSE
