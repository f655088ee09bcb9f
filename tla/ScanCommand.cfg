SPECIFICATION Spec
CONSTANTS
    Findings <- MCFindings
    Fingerprints = {"a", "b"}
    Fingerprint <- MCFingerprint
    Level <- MCLevel
    IgnoreRules <- MCIgnoreRules
    Backends = {"json", "sql"}
    Paths <- MCPaths
    InTree = "vulnerabilities.json"
    Folder <- MCFolder
    NoPath = NoPath
    MaxScans = 3
    MaxIssues = 2
    MaxComments = 1
    None = None
    Options <- MCOptions
    Baseline = {"b"}
    Threshold = 0
    PolicyRules <- MCPolicyRules
INVARIANTS
    TrendSinceLastReport
    ZeroMeansStoredAndGated
    OpenIssuesAccounted
    SettledMapMatches
PROPERTIES
    ClosedMeansGoneOrHidden
CHECK_DEADLOCK FALSE
