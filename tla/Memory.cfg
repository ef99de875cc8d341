SPECIFICATION FairSpec
CONSTANTS
    memory = memory
    work = work
    NoJob = NoJob
    NoNode = NoNode
    Workers = {memory}
    Authors = {work}
    Serves <- OneChat
    NumFiles = 2
    Hollow <- Hollows
    MaxEdits = 1
    MaxRequests = 2
    MaxSelected = 2
CHECK_DEADLOCK FALSE
INVARIANTS
    AnswersUseIndexedText
    AnsweredBatchIsApplied
PROPERTY RequestsAreHandled
