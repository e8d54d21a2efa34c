CONSTANTS
    Creators = {c1}
    Names = {n1}
    None = None
    Outside = Outside
    Foreign = {f1}
    CacheLimit = 2
SPECIFICATION Spec
INVARIANTS
    PublishedIsCurrent
CHECK_DEADLOCK FALSE
