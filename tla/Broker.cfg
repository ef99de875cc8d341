SPECIFICATION FairSpec
CONSTANTS
    work = work
    dummy = dummy
    prompt = prompt
    rival = rival
    publish = publish
    stray = stray
    NoAgent = NoAgent
    NoRequest = NoRequest
    Agents = {work, dummy}
    Silent = {dummy}
    Requests = {prompt, rival, publish, stray}
    Kind <- Kinds
    Target <- Targets
    Meetings <- Encounters
    PipeCapacity = 1
    MaxEvents <- EventsOf
INVARIANTS
    AnswersAreOwn
    PendingOnlyInFlight
    AnswersAreDurable
    EventsAreOrdered
PROPERTIES
    KeepsPromise
    EveryRequestEnds
CHECK_DEADLOCK FALSE
