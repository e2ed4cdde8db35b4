SPECIFICATION Spec
CHECK_DEADLOCK FALSE
CONSTANTS
    None = None
    a = a
    b = b
    Commits <- MCCommits
    Calls <- MCCalls
    Templates <- MCTemplates
    Continuous = 101
    Pinned <- MCPinned
    Latest <- MCLatest
    MaxRunning = 2
    MaxPurges = 1
    MaxFaults = 1
SYMMETRY Symmetry
INVARIANTS
    CachedOrgHoldsData
    RunAsksItsCommit
    NoEmptyOrphan
    IngestedOnce
