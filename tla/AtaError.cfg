\* The drive may fail after it took the data.
CONSTANTS
    shell = shell
    loader = loader
    a = a
    b = b
    Clients <- OneClient
    Shell <- shell
    Writers <- MCWriters
    Sectors <- MCSectors
    Values <- MCValues
    Words = 2
    MaxCount = 2
    LBA28 = 4
    LateErrors = TRUE
    MaxCalls = 3
    MaxCrashes = 1
SPECIFICATION Spec
INVARIANTS
    SectorsAsWritten
\* The bound on the calls ends a behaviour.
CHECK_DEADLOCK FALSE
