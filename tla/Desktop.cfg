SPECIFICATION DesktopSpec
CONSTANTS
    alpha = alpha
    beta = beta
    None = None
    Chats = {alpha, beta}
    MaxFlows = 2
    MaxSockets = 2
    MaxMoves = 1
    MaxCrashes = 1
    MaxRows = 1
    file = file
    section = section
    edge = edge
    Nodes <- NodeItems
    Edges = {edge}
    Own = {edge}
    Others = {section}
    Priors <- Histories
    PageSize = 1
    MaxAtOnce = 2
    MaxWrites = 2
    MaxDeletes = 1
    MaxLoads = 1
INVARIANTS
    ScreenIsOwn
    NothingTracedIsMissed
    SilentViewIsWhole
PROPERTIES
    HistoryComesBack
    DatabaseIsFound
CHECK_DEADLOCK FALSE
