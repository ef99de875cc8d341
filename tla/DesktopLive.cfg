SPECIFICATION FairSpec
CONSTANTS
    alpha = alpha
    beta = beta
    None = None
    Chats = {alpha}
    MaxFlows = 2
    MaxSockets = 3
    MaxMoves = 0
    MaxCrashes = 0
    MaxRows = 1
PROPERTIES
    LiveRowsAppear
CHECK_DEADLOCK FALSE
