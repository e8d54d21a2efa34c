SPECIFICATION FairSpec
CONSTANTS
    a1 = a1
    a2 = a2
    a3 = a3
    Acceptors <- MCAcceptors
INVARIANTS
    TypeOK
    ClosedStaysEmpty
PROPERTIES
    CloseReturns
