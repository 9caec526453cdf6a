SPECIFICATION FairSpec
CONSTANTS
    Worker = {w}
    Master = {m}
    App = {a}
    None = None
    MaxRuns = 3
    MaxFaults = 2
    MaxTries = 1
INVARIANTS
    LabelledIsDeployed
PROPERTIES
    ChangedIsServed
    LastCommandWins
CHECK_DEADLOCK FALSE
