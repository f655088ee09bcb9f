SPECIFICATION Spec
CONSTANTS
    Findings <- MCFindings
    Fingerprints = {"a", "b"}
    Fingerprint <- MCFingerprint
    Level <- MCLevel
    IgnoreRules <- MCIgnoreRules
    Backends = {"sql"}
    Paths <- MCPaths
    InTree = "vulnerabilities.json"
    Folder <- MCFolder
    NoPath = NoPath
    MaxScans = 2
    MaxIssues = 2
    MaxComments = 1
    None = None
    Options <- MCJiraOptions
    Baseline = {"b"}
    Threshold = 0
    PolicyRules <- MCPolicyRules
INVARIANTS
    TrendSinceLastScan
CHECK_DEADLOCK FALSE
