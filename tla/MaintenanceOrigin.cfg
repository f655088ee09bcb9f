CONSTANTS
    Programs = {"composition"}
    Paths = {1, 2, 3}
    Packages = {"pip", "six"}
    Versions = {1, 2}
    Trees <- MCTrees
    Configs <- MCConfigs
    Locks <- MCLockFiles
    Manifests <- MCManifestFiles
    MaxChanges = 3
    Reviews <- MCReviews
    MaxPushes = 1
    Calls <- MCCalls
    Cases <- MCCases
    LicenseRefs = {"LicenseRef-X"}
    LeakLists <- MCLeakLists
    Secrets = {"k1", "k2", "k3", "t1", "t2"}
    InIAM = {"k1", "k2"}
    MaxLeaks = 3
    MaxRuns = 2
    Plan <- MCPlan
    Agents = {a1, a2}
    Shared = {1}
    MaxIssues = 3
SYMMETRY AgentSymmetry
SPECIFICATION Spec
INVARIANTS
    SelectionsSatisfyApplicableRanges
CHECK_DEADLOCK FALSE
