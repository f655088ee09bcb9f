SPECIFICATION PoolSpec
CONSTANTS
    Enabled <- MCFour
    WorkerChoices = {1, 2, 3}
    Offline = FALSE
    WriteFaults = TRUE
    MaxInterrupts = 0
INVARIANTS
    AnswerIsSerial
CHECK_DEADLOCK FALSE
