\* Budgets in percent of the equity: small enough for two orders to fill them.
CONSTANTS
    None = None
    btc = btc
    eth = eth
    gold = gold
    Pivot = 2
    Lookback = 8
    Period = 8
    FastPeriod = 12
    SlowPeriod = 26
    SignalPeriod = 9
    Short = 20
    Middle = 50
    Long = 200
    Momentum = 14
    Recent = 21
    Kept = 50
    MinScore = 90
    MinConfidence = 90
    Scale = 10
    Symbols <- MCSymbols
    Markets <- MCMarkets
    Held = {eth}
    Leverage <- MCLeverage
    Crypto <- MCCrypto
    Storm <- MCStorm
    Correlation <- MCCorrelation
    Equity0 = 400
    EquityBound = 430
    MaxTrade = 2
    MaxAggregate = 3
    MaxCorrelated = 2
    MaxFutures = 15
    MaxStormLoss = 10
    TopN = 2
SPECIFICATION Spec
INVARIANTS WithinAggregate StormLossBounded
CHECK_DEADLOCK FALSE
CONSTRAINT Careful
