SPECIFICATION FairSpec
CONSTANTS
    Orders = {l1, m1}
    LimitOrders = {l1}
    Cycles = {c1, c2}
    PnLs <- MCPnLs
    StartEquity = 3
    None = None
INVARIANTS
    Inv
    ExecutionConsistent
    LedgerChain
    SettledOnce
PROPERTIES
    NeverReopened
    ImplementsTradeBook
    CycleEnds
