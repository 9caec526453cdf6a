SPECIFICATION FairSpec
CONSTANTS
    p1 = p1
    p2 = p2
    p3 = p3
    n1 = n1
    n2 = n2
    Pod = {p1, p2}
    Node = {n1, n2}
    None = None
    MaxMoves = 1
    MaxFaults = 1
PROPERTIES HostsSettle
CHECK_DEADLOCK FALSE
