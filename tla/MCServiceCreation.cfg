CONSTANTS
    Creators = {c1, c2}
    Names = {n1}
    None = None
    Outside = Outside
    Foreign = {f1}
    CacheLimit = 2
SPECIFICATION Spec
SYMMETRY Symmetry
INVARIANTS
    OnionsAnswerToHolders
    NamedKeyIsDurable
    ConfirmationSticks
CHECK_DEADLOCK FALSE
