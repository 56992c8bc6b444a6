SPECIFICATION Spec
CONSTANTS
    s1 = s1
    s2 = s2
    Symbols <- MCSymbols
    Configs <- MCConfigs
    Shapes <- MCShapes
    Signals <- MCSignals
    HourRows <- MCHourRows
    Initial = 1000000
    Correlation <- MCCorrelation
    MaxSignals = 3
CHECK_DEADLOCK FALSE
INVARIANTS
    Conservation
    NoLookahead
    StopsAreKept
    WithinBudgets
