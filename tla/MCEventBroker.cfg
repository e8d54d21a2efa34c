CONSTANTS
    s1 = s1
    s2 = s2
    Publishers = {p1, p2}
    Subscribers = {s1, s2}
    Nobody = Nobody
    Buffer <- MCBuffer
    RecentLimit = 2
    MaxEvents = 3
SPECIFICATION FairSpec
INVARIANTS
    KeepsNewest
    JoinsStream
    NoSendOnClosed
PROPERTIES
    PublishReturns
CHECK_DEADLOCK FALSE
