SPECIFICATION PartsSpec
CONSTANTS
    alpha = alpha
    beta = beta
    alphaSock = alphaSock
    betaSock = betaSock
    NoChat = NoChat
    Chats = {alpha, beta}
    Paths = {alphaSock, betaSock}
    SocketOf <- OwnSockets
    MaxSpawns = 4
    MaxRestarts = 1
    reader = reader
    handler = handler
    NoClient = NoClient
    Threads = {reader, handler}
    Clients = {desktop}
    MaxRows <- RowsOf
    Capacity = 1
    Facts = {f, g}
    KbClients = {a, b}
    MaxKbOps = 4
    PermChats = {a, b}
    PermWindow = 2
    MailClients = {m1, m2}
    Nobody = Nobody
    MaxMail = 3
    MaxMarks = 1
    Files = {"f1", "f2"}
    Names = {"n1", "n2"}
    SymKinds = {"fn", "cls"}
    None = None
    KeyOf <- LinkKey
    LinkClaim <- ClaimsMade
    MaxClaims = 2
    MaxGraphOps = 3
    PagFiles = {1, 2}
    MaxPagChanges = 2
    MaxIndexings = 2
    MaxPagRuns = 1
    TextFiles = {f}
    Talks = {t1, t2}
    MaxReads = 2
    MaxChanges = 3
    Callers = {"c1", "c2"}
    OwnKey <- ChatKey
    MaxSessions = 1
    MaxHandles = 2
    MaxCommands = 2
    MaxPipe = 1
    Kinds = {"line", "chatty", "background"}
    TailMax = 4
    PruneMin = 5
    PruneKeep = 1
    BudgetMax = 5
    RestoreMax = 1
    BatchMax = 2
    MaxMessages = 6
    CapWrite = 2
    CapsSearch = {1, 2}
    CapFetch = 1
    MaxTurns = 5
    Python = {test_a, test_b, mod}
    TestFiles = {test_a, test_b}
    OtherFiles = {notes}
    MaxTests = 1
    MaxLint = 2
    RepairAttempts = 1
    Contexts = {k1, k2}
    DefaultContext = k1
    MaxTuiTurns = 2
    MaxTuiOps = 4
    Margins <- OneWider
    WholeMax = 2
    Run = 1
    MaxLines = 4
    MaxEdits = 4
INVARIANTS
    OneBrokerPerChat
    EndpointLeadsHome
    RowsAreReadable
    SeenIsDurable
    StatusTellsTruth
    RememberedModeIsFound
    MailIsKept
    PutOffIsNotForgotten
    IndexRepairs
    UnchangedIsTrue
    OutputIsOwn
    RequestIsWhole
    FoundIsTheSame
    BookkeepingIsBounded
    PassIsEarned
    ConversationsAreApart
CHECK_DEADLOCK FALSE
