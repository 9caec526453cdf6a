SPECIFICATION FairSpec
CONSTANTS
    Node = {a, b, s}
    Daemon = {a}
    Suspect = s
    Scopes <- Everyone
    Reaches <- AllOrNone
    VoteTimeOut = 1
    MsgDelay = 0
    RetryTime = 1
    VoteTime = 0
    MaxFaults = 1
    Prompt = {a, b}
    Running = {a, b}
PROPERTIES
    UnreachableGetsMarked
    ReachableGetsCleared
