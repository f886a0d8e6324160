\* The shell alone uses the disk; calls time out, fail and lose the power.
CONSTANTS
    shell = shell
    loader = loader
    a = a
    b = b
    Clients <- OneClient
    Shell <- shell
    Writers <- MCWriters
    Sectors <- MCSectors
    Values <- MCValues
    Words = 2
    MaxCount = 2
    LBA28 = 4
    LateErrors = FALSE
    MaxCalls = 3
    MaxCrashes = 1
SPECIFICATION FairSpec
INVARIANTS
    SectorsAsWritten
PROPERTIES
    ReadsTheseSectors
    CallEnds
\* The bound on the calls ends a behaviour.
CHECK_DEADLOCK FALSE
