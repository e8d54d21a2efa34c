CONSTANTS
    c1 = c1
    c2 = c2
    Nobody = Nobody
    Callers <- MCCallers
    EventCap = 1
    MaxEvents = 2
SPECIFICATION FairSpec
INVARIANTS
    RepliesMatch
    UnansweredCloses
PROPERTIES
    DoReturns
