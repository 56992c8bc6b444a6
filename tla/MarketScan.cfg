SPECIFICATION ScanSpec
CONSTANTS
    s1 = s1
    s2 = s2
    a = a
    y = y
    Symbols <- MCSymbols
    Routes = {a, y}
    Registry <- MCRegistry
    Discovered <- MCDiscovered
    MaxWorkers = 2
    Budget = 1
    Attempts = 2
    Threshold = 2
    Cooldown = 2
PROPERTIES VerdictStands RouteReturns
