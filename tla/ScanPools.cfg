SPECIFICATION PoolsSpec
CONSTANTS
    Commands = {"contract-scan", "scan"}
    Plans <- MCPlans
    Outcomes <- MCOutcomes
    MaxWorkers <- MCWorkers
    MaxFindings = 3
    MaxBytes = 3
    ClockSteps = TRUE
    Enabled <- MCFour
    WorkerChoices = {1, 2, 3}
    Offline = FALSE
    WriteFaults = TRUE
    MaxInterrupts = 2
INVARIANTS
    RefusalsExplained
    FailuresJustified
    EntriesFaithful
    QuiescentWhenSealed
    PublishedOnlyIfAccepted
    NoOutputLeftBehind
PROPERTIES
    NoStartAfterCancel
    ImplementsVerdicts
    PlanEnds
    ManagerEnds
CHECK_DEADLOCK FALSE
