SPECIFICATION Spec
CONSTANTS
    r1 = r1
    s1 = s1
    s2 = s2
    None = None
    Refreshers = {r1}
    Scans = {s1, s2}
    MaxGens = 4
    MaxClock = 6
    Regimes <- MCLateKills
SYMMETRY Symmetry
INVARIANTS
    ReadableAcrossOneSwap
CHECK_DEADLOCK FALSE
