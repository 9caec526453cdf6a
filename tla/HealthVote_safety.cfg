SPECIFICATION Spec
CONSTANTS
    Node = {a, b, s}
    Daemon = {a}
    Suspect = s
    Scopes <- AllOrZone
    Reaches <- AllOrNone
    VoteTimeOut = 1
    MsgDelay = 1
    RetryTime = 2
    VoteTime = 0
    MaxFaults = 1
    Prompt = {}
    Running = {a, b, s}
INVARIANTS
    EvidenceIsRecent
    TallyIsBacked
    OneVerdictPerVote
PROPERTIES
    ChangedByRecentMajority
