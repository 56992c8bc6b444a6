SPECIFICATION Spec
CONSTANTS
    a1 = a1
    a2 = a2
    p1 = p1
    Assets <- MCAssets
    Pending = {p1}
    Seeds = 3
    SmokeRuns = 2
    SmokeAssets = 1
    ShardCount = 2
    Windows = 2
    Rows <- MCRows
    Idle <- MCIdle
    Fragile = {5}
    MaxDetours = 1
    MaxRuns = 3
CONSTRAINT FewSummaries
CHECK_DEADLOCK FALSE
INVARIANTS
    SealedData
    NoLeakage
    MatrixIsComplete
    OneChain
