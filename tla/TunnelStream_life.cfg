SPECIFICATION MCSpec
CONSTANTS
    Req = {r1}
    Tcp = {t1}
    MaxStreams = 5
    MaxFaults = 2
INVARIANTS FewReconnections
PROPERTIES ReachableInTheEnd BoundRequestsEnd 
CHECK_DEADLOCK FALSE
