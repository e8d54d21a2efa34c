CONSTANTS
    t1 = t1
    t2 = t2
    t3 = t3
    r1 = r1
    r2 = r2
    r3 = r3
    NoResource = NoResource
    Threads <- MCThreads
    Resources <- MCResources
    Subscribed <- MCSubscribed
    Failing <- MCFailing
SPECIFICATION FairSpec
INVARIANTS
    ClosedAtMostOnce
    NothingOutlivesClose
    CloseResultsAgree
PROPERTIES
    OwnershipKept
    CloseCompletes
