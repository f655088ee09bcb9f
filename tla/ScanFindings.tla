----------------------------- MODULE ScanFindings -----------------------------
(***************************************************************************)
(* What a scan may find, reduced to what the storage, the filters and Jira *)
(* tell apart. A finding is a rule, a file and a line (compute_finding_id  *)
(* of sourcebastion/schema.py); a fingerprint leaves out the line, in the  *)
(* baseline (sourcebastion/baseline.py) and in Jira alike.                 *)
(***************************************************************************)
EXTENDS Integers, FiniteSets

CONSTANTS
    Findings,       \* a rule, a file and a line
    Fingerprints,   \* a rule and a file
    Fingerprint,    \* per finding: its fingerprint
    Level           \* per finding: 4 critical, 3 high, 2 medium, 1 low, 0 anything else

ASSUME FindingsAssumption ==
    /\ IsFiniteSet(Findings)
    /\ Fingerprint \in [Findings -> Fingerprints]
    /\ Level \in [Findings -> 0..4]

Severe == {f \in Findings : Level[f] >= 3}

FingerprintsOf(F) == {Fingerprint[f] : f \in F}
=============================================================================
