SPECIFICATION FairSpec
CONSTANTS
    k1 = k1
    w1 = w1
    w2 = w2
    w3 = w3
    Key = {k1}
    Watch = {w1, w2}
    KeyOf <- MCKeyOf
    ChanCap = 1
    MaxHolders = 3
    MaxCrashes = 1
INVARIANTS LoopsAreOwned WatchedIsRepeated
PROPERTIES LockIsReleased RepeatsGoOn AllIsDropped
CHECK_DEADLOCK FALSE
