CONSTANTS
    Sessions = {1, 2}
    Setters = {u1}
    Closer = Closer
    LatchOutboundErrors = TRUE
    MaxGeneration = 2
    Limit = 1
    Nobody = 0
SPECIFICATION FairProxySpec
INVARIANTS
    EpochsDoNotOverlap
    ClosedEpochHoldsNothing
    LatchedStaysBlocked
    SlotsMatchHandlers
    NothingOutlivesProxy
PROPERTIES
    OnlyOwnFailuresLatch
    RetiredEpochsDrain
    ProxyCloseReturns
