SPECIFICATION Spec
CONSTANTS
    memory = memory
    work = work
    NoJob = NoJob
    NoNode = NoNode
    Workers = {memory}
    Authors = {work}
    Serves <- OneChat
    NumFiles = 1
    Hollow <- Hollows
    MaxEdits = 0
    MaxRequests = 1
    MaxSelected = 2
CHECK_DEADLOCK FALSE
INVARIANT FilesHangFromProject
