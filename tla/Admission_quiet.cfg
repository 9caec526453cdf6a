SPECIFICATION FairSpec
CONSTANTS
    Node = {"n1", "n2"}
    Flaky = {"n1"}
    Address = {"a", "b", "c", "d", "e"}
    Host <- OneHost
    Pods <- OnePods
    Order <- OneOrder
    Unsteady = {"b"}
    MaxFaults = 5
    MaxMisses = 2
INVARIANT PatchMovesTheVouched
PROPERTY OfflineIsNotEvicted
PROPERTY OfflineGetsUntainted
PROPERTY TouchedKeepsServing
PROPERTY MarkedStopsServing
CHECK_DEADLOCK FALSE
