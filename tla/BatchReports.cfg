SPECIFICATION Spec
SYMMETRY Symmetry
CHECK_DEADLOCK FALSE
CONSTANTS
    a = a
    b = b
    z = z
    None = None
    Torn = Torn
    Logs <- MCLogs
    Batches <- MCBatches
    Dirs <- MCDirs
    Copies <- MCCopies
    Oracles <- MCOracles
    MaxFaults = 1
INVARIANTS
    SuccessGradedAll
    MissesExplainTheScore
    DashboardIsCurrent
    ComparisonAddsUp
    LayeredAddsUp
    AuditExplainsTheScore
