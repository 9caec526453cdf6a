SPECIFICATION FairSpec
CONSTANTS
    h = h
    a = a
    f = f
    m = m
    Node = {h, f}
    Master = {}
    Host = h
    ZoneOf <- ZonesOfNode
    NoZone = "nozone"
    Plugin = {"ping"}
    Shared = {"ping"}
    Passing <- EveryPlugin
    Clusters <- WholeCluster
    Configs <- ZonesOff
    Links <- AllLinks
    FirstLinks <- HostOnly
    MaxEvents = 1
PROPERTIES
    ScopeSettles
    VerdictsSettle
