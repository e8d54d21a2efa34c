SPECIFICATION FairSpec
CONSTANTS
    a1 = a1
    a2 = a2
    p1 = p1
    p2 = p2
    monitor = monitor
    Closers <- MCClosers
    Nobody = Nobody
    Apps <- MCApps
    Ports <- MCPorts
    MaxBacking = 3
    Faults <- MCFaults
CHECK_DEADLOCK FALSE
INVARIANTS
    TorTargetsOpen
    ServiceAgreesWithTor
PROPERTIES
    ClaimReleasedByOwner
    CallsReturn
