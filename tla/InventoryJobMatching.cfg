SPECIFICATION FairSpec
CONSTANTS
    Kinds = {"direct"}
    Ceiling <- MCCeiling
    JobBytes = 16
    Sizes = {1, 3}
    MaxChecks = 60
    Charges <- MCCharges
    MaxTouches = 0
PROPERTIES
    MatchingFailureIsSeparate
CHECK_DEADLOCK FALSE
