SPECIFICATION Spec
CONSTANTS
    Callers = {strategy, api}
    Providers <- MCProviders
    Sessions = {"yahoo"}
    Streams = TRUE
    Limit = 2
    MaxAge = 1
    Threshold = 2
    Recovery = 2
    MaxCandles = 3
    MaxTime = 4
INVARIANTS ServedIsFresh
CHECK_DEADLOCK FALSE
