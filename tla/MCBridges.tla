----------------------------- MODULE MCBridges -----------------------------
EXTENDS Bridges, TLC

CONSTANTS c1, c2, guards, b1, b2

MCCallers == {c1, c2}
MCConfigs == {guards, b1, b2}
MCUsesBridges == {b1, b2}
MCFaults == {"reject", "unsent", "lost", "late"}

MCSymmetry == Permutations(MCCallers) \cup Permutations(MCUsesBridges)
=============================================================================
