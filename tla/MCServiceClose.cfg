SPECIFICATION FairSpec
CONSTANTS
    a1 = a1
    a2 = a2
    p1 = p1
    p2 = p2
    monitor = monitor
    Closers <- MCClosers
    Nobody = Nobody
    Apps <- MCOneApp
    Ports <- MCOnePort
    MaxBacking = 2
    Faults <- MCNone
CHECK_DEADLOCK FALSE
PROPERTIES
    DriverCloseReturns
