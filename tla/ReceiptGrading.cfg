SPECIFICATION Spec
CONSTANTS
    None = None
    Files <- MCFiles
    DocRows <- MCDocRows
    Plans <- MCPlans
    Indexed <- MCIndexed
    Defects <- MCDefects
    MaxWorkers = 2
    Threshold = 50
    MaxFaults = 1
INVARIANTS
    RowsAnswerReceipts
    PassIsCounted
    ContradictedIsNotBlamed
    ConsistentIsMeasured
    StatusTellsTheCost
    AnswerIsOwn
    OnlyAnswersAreKept
    NonRetrievalIsNotMeasured
