SPECIFICATION Spec
CONSTANTS
    r1 = r1
    r2 = r2
    s1 = s1
    s2 = s2
    None = None
    Refreshers = {r1, r2}
    Scans = {s1, s2}
    MaxGens = 4
    MaxClock = 6
    Regimes <- MCRegimes
SYMMETRY Symmetry
INVARIANTS
    CurrentUsable
    BuildUndisturbed
    ReadableInCalm
PROPERTIES
    ReturnCleans
CHECK_DEADLOCK FALSE
