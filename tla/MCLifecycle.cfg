SPECIFICATION FairSpec
CONSTANTS
    u1 = u1
    u2 = u2
    Users <- MCUsers
INVARIANTS
    LeftoversAreReported
    FailedStartReleases
    ErrMeansLoss
PROPERTIES
    CloseReturns
