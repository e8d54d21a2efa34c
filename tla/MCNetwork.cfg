CONSTANTS
    Dials = {d1}
    Lookups = {l1}
SPECIFICATION FairSpec
INVARIANTS
    NothingOutlivesNetwork
PROPERTIES
    ReturnedConnectionKept
    OperationsRelease
