--------------------------- MODULE MCOpportunities ---------------------------
(* Three symbols: a leveraged crypto pair, a pair on the Storm venue that moves
   with it, and a leveraged contract that is not crypto.                     *)
EXTENDS Opportunities, IncrementalSnapshots

CONSTANTS btc, eth, gold

Candle(p, volume) == [high |-> p + 1, low |-> p, close |-> p, volume |-> volume]
Candles(prices, volume) ==
    [i \in 1..Len(prices) |-> Candle(prices[i], IF i = Len(prices) THEN volume ELSE 10)]

(* Rising swings that end in a break, the same turned round, and a series that
   has come back to its support.                                             *)
Rising  == <<40, 41, 42, 41, 40, 41, 43, 44, 45, 44, 43, 44, 47>>
Falling == [i \in 1..Len(Rising) |-> 86 - Rising[i]]
Back    == <<39, 40, 42, 41, 40, 41, 43, 44, 45, 44, 43, 44, 43>>

Bullish(entry, atr) ==
    [ema20 |-> entry, ema50 |-> 38, ema200 |-> 36, rsi14 |-> 60, macd |-> 1, adx14 |-> 30,
     supertrend |-> "BULLISH", vwap20 |-> 40, atr14 |-> atr, volume |-> 10, bollinger |-> 40]
Bearish(entry, atr) ==
    [ema20 |-> entry, ema50 |-> 48, ema200 |-> 50, rsi14 |-> 40, macd |-> -1, adx14 |-> 30,
     supertrend |-> "BEARISH", vwap20 |-> 46, atr14 |-> atr, volume |-> 10, bollinger |-> 46]

(* The snapshots of these series, as the strategy sees them.                 *)
Broken(ind, way, char, break, support, resistance) ==
    [ind |-> ind, trend |-> [direction |-> way, score |-> 100],
     structure |-> [state |-> char, support |-> support, resistance |-> resistance, score |-> 85],
     advanced  |-> [trend |-> way, structure |-> "BOS", break |-> break, score |-> 90,
                    resistance |-> resistance, support |-> support],
     volatility |-> "NORMAL", liquidity |-> [ratio |-> 200, score |-> 100]]

Up(entry, atr)   == Broken(Bullish(entry, atr), "BULLISH", "CHOCH_UP", "UP", 43, 46)
Down(entry, atr) == Broken(Bearish(entry, atr), "BEARISH", "CHOCH_DOWN", "DOWN", 41, 44)

Pullback ==
    [ind |-> Bullish(42, 8), trend |-> [direction |-> "BULLISH", score |-> 100],
     structure |-> [state |-> "NEAR_SUPPORT", support |-> 43, resistance |-> 46, score |-> 50],
     advanced  |-> [trend |-> "BULLISH", structure |-> "HIGHER_HIGH_HIGHER_LOW", break |-> None, score |-> 70,
                    resistance |-> 46, support |-> 43],
     volatility |-> "NORMAL", liquidity |-> [ratio |-> 200, score |-> 100]]

ASSUME SnapshotsAreOfCandles ==
    /\ Up(45, 12)  = Snapshot(Candles(Rising, 20), Bullish(45, 12))
    /\ Down(42, 8) = Snapshot(Candles(Falling, 20), Bearish(42, 8))
    /\ Pullback    = Snapshot(Candles(Back, 20), Bullish(42, 8))

(* What the backtest keeps candle by candle says what the series says: every
   series of up to seven candles of three shapes, with windows short enough
   to drop candles.                                                          *)
Incremental ==
    INSTANCE IncrementalSnapshots WITH
        Pivot <- 1, Lookback <- 3, Period <- 3, FastPeriod <- 2, SlowPeriod <- 3, SignalPeriod <- 2,
        Short <- 3, Middle <- 4, Long <- 5, Momentum <- 2, Recent <- 4, Kept <- 4

Formed(low, high, close, volume) == [low |-> low, high |-> high, close |-> close, volume |-> volume]
Forms == {Formed(10, 12, 11, 5), Formed(12, 16, 15, 20), Formed(8, 11, 9, 0)}

ASSUME IncrementalIsExact ==
    \A n \in 1..7 : \A c \in [1..n -> Forms] : Incremental!Exact(c)

Continuation(entry, atr) == [d1 |-> Up(44, 8), h4 |-> Up(44, atr), h1 |-> Up(44, 8), m15 |-> Up(entry, 8)]
Returning(entry, atr)    == [d1 |-> Up(44, 8), h4 |-> Up(44, atr), h1 |-> Pullback, m15 |-> Up(entry, 8)]
Decline(entry, atr)      == [d1 |-> Down(42, 8), h4 |-> Down(42, atr), h1 |-> Down(42, 8), m15 |-> Down(entry, 8)]

MCSymbols == {btc, eth, gold}
MCMarkets ==
    [s \in MCSymbols |->
        CASE s = btc  -> {Continuation(45, 8), Continuation(45, 12)}
          [] s = eth  -> {Returning(45, 8)}
          [] s = gold -> {Decline(42, 8)}]
MCLeverage == [s \in MCSymbols |-> IF s = eth THEN 1 ELSE 2]
MCCrypto == {btc, eth}
MCStorm == {eth}
MCCorrelation == [s, t \in MCSymbols |-> IF {s, t} = {btc, eth} THEN 100 ELSE IF s = t THEN 100 ELSE -20]
(* What follows a selection that was not assessed against the earlier ones is
   not explored: WithinAggregate says nothing of it.                         *)
Careful == ~careless
=============================================================================
