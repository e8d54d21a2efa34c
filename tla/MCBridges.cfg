SPECIFICATION Spec
CONSTANTS
    c1 = c1
    c2 = c2
    guards = guards
    b1 = b1
    b2 = b2
    Nobody = Nobody
    Callers <- MCCallers
    Configs <- MCConfigs
    UsesBridges <- MCUsesBridges
    Faults <- MCFaults
    MaxListens = 3
SYMMETRY MCSymmetry
INVARIANTS
    RedactedWhileHeld
    DriverKnowsTor
    NoDirectTrafficAfterFailure
