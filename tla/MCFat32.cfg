\* Files written, overwritten and deleted, a directory that grows, one fault: a stop
\* between two writes or a sector that cannot be read or written.
CONSTANTS
    a = a
    b = b
    x = x
    Data <- Small
    Slack <- Beyond
    Names <- TwoNames
    Values <- OneValue
    MaxSize = 2
    SlotsPerCluster = 1
    Room = TRUE
    FaultsAnywhere = FALSE
    MaxFaults = 1
SPECIFICATION FairSpec
INVARIANTS
    NoSharedCluster
    ContentsKept
    VolumeConsistent
PROPERTIES
    OperationEnds
