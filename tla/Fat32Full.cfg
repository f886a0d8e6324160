\* An overwrite may find the disk full.
CONSTANTS
    a = a
    b = b
    x = x
    Data <- Small
    Slack <- Beyond
    Names <- TwoNames
    Values <- OneValue
    MaxSize = 3
    SlotsPerCluster = 2
    Room = FALSE
    FaultsAnywhere = FALSE
    MaxFaults = 0
SPECIFICATION Spec
INVARIANTS
    NoSharedCluster
