SPECIFICATION FairSpec
CONSTANTS
    Kinds = {"dependency", "direct"}
    Ceiling <- MCCeiling
    JobBytes = 16
    Sizes = {1, 3}
    MaxChecks = 60
    Charges <- MCCharges
    MaxTouches = 1
INVARIANTS
    FinalizedMeansWhole
    ReceiptBindsControl
    NoConsumerLeft
PROPERTIES
    ImplementsReceipt
    RefusalsStick
    Termination
CHECK_DEADLOCK FALSE
