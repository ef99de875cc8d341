SPECIFICATION SupervisorFairSpec
CONSTANTS
    alpha = alpha
    beta = beta
    alphaSock = alphaSock
    betaSock = betaSock
    NoChat = NoChat
    Chats = {alpha}
    Paths = {alphaSock, betaSock}
    SocketOf <- OwnSockets
    MaxSpawns = 3
    MaxRestarts = 0
PROPERTIES
    CrashedBrokerIsReplaced
CHECK_DEADLOCK FALSE
