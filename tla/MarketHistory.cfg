SPECIFICATION Spec
CONSTANTS
    j1 = j1
    j2 = j2
    Jobs = {j1, j2}
    MonthCount = 2
    DaysPerMonth = 2
    Renamed = 2
    Recent <- MCRecent
    Requests <- MCRequests
    MinimumRows = 2
    ReviewedStart = 4
    DaysPerYear = 3
    Window <- MCWindow
    Ends = {3, 4}
    Dropped = {3}
    MaxRuns = 2
INVARIANTS CompleteIsContiguous LoadedIsRecorded ContinuityKept
CHECK_DEADLOCK FALSE

SYMMETRY JobSymmetry
