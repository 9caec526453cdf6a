SPECIFICATION FairSpec
CONSTANTS
    n1 = n1
    n2 = n2
    v1 = v1
    v2 = v2
    svc = svc
    p1 = p1
    p2 = p2
    Node = {n1, n2}
    Value = {v1, v2}
    ServiceName = svc
    Part = {p1, p2}
    Spec <- Templates
    Keyless <- NoKey
    Foreign <- Theirs
    Steady = {n1}
    None = None
    MaxRetries = 1
    MaxUid = 2
    MaxEdits = 1
    MaxFaults = 1
    First <- AsMade
    Start <- StartValues
INVARIANTS NothingIsLeftBehind
PROPERTIES SteadyIsNeverDeleted Converges
CHECK_DEADLOCK FALSE
