\* Two calls, for the same path or for different ones.
SPECIFICATION FairSpec
CONSTANTS
    Jobs = {i, j}
    Paths = {p, q}
    NoFile = NoFile
    Foreign = Foreign
INVARIANTS
    OneJobPerPath
    DeliveredIsThere
PROPERTIES
    NothingOverwritten
    JobsEnd
CHECK_DEADLOCK FALSE
