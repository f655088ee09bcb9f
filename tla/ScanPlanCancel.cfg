SPECIFICATION Spec
CONSTANTS
    Plans <- MCReusePlans
    Outcomes <- MCReuseOutcomes
    MaxWorkers <- MCReuseWorkers
    MaxFindings = 3
    MaxBytes = 4
    ClockSteps = FALSE
INVARIANTS
    EnvelopeSurvivesCancellation
CHECK_DEADLOCK FALSE
