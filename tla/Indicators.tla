----------------------------- MODULE Indicators -----------------------------
(* The indicators of a series of candles, computed from the whole series
   (src/app/market/indicators.py).  Prices and averages are integers of the
   last decimal place kept; a division rounds down to it.  A square root is
   not taken: the bands are given by their middle and the variance.          *)
EXTENDS MarketStructure

CONSTANTS FastPeriod, SlowPeriod, SignalPeriod,  \* periods of the convergence of averages: 12, 26, 9
          Short, Middle, Long,                   \* periods of the averages: 20, 50, 200
          Momentum                               \* period of the oscillators: 14

Newest(s, n) == SubSeq(s, Len(s) - n + 1, Len(s))
Total(s) == SumFunction(s)
Closes(c) == [i \in 1..Len(c) |-> c[i].close]
NotNegative(x) == IF x > 0 THEN x ELSE 0
Largest(S) == CHOOSE x \in S : \A y \in S : y <= x

-----------------------------------------------------------------------------
(* Averages.                                                                 *)
Sma(values, period) ==
    IF Len(values) < period THEN None ELSE Total(Newest(values, period)) \div period

Smooth(average, value, period) == (2 * (value - average)) \div (period + 1) + average

(* The averages of the prefixes that are long enough, by their length.       *)
EmaSeries(values, period) ==
    LET e[n \in period .. Len(values)] ==
            IF n = period THEN Total(SubSeq(values, 1, period)) \div period
                          ELSE Smooth(e[n - 1], values[n], period)
    IN e

Ema(values, period) ==
    IF Len(values) < period THEN None ELSE EmaSeries(values, period)[Len(values)]

(* The difference of the two averages over its own average.                  *)
Macd(values) ==
    LET fast == EmaSeries(values, FastPeriod)
        slow == EmaSeries(values, SlowPeriod)
        line == [k \in 1 .. Len(values) - SlowPeriod + 1 |-> fast[SlowPeriod + k - 1] - slow[SlowPeriod + k - 1]]
    IN IF Len(values) < SlowPeriod + SignalPeriod - 1
       THEN [line |-> None, histogram |-> None]
       ELSE [line      |-> line[Len(line)],
             histogram |-> line[Len(line)] - Ema(line, SignalPeriod)]

-----------------------------------------------------------------------------
(* Oscillators over the last steps from one candle to the next.              *)
OverSteps(s, period, Move(_, _)) ==
    Total([k \in 1..period |-> LET i == Len(s) - period + k IN Move(s[i - 1], s[i])])

Rise(a, b) == NotNegative(b - a)
Fall(a, b) == NotNegative(a - b)

Rsi(values, period) ==
    LET gain == OverSteps(values, period, Rise)
        loss == OverSteps(values, period, Fall)
    IN IF Len(values) < period + 1 THEN None
       ELSE IF loss = 0 THEN IF gain > 0 THEN 100 ELSE 50
       ELSE (100 * gain) \div (gain + loss)

TrueRange(a, b) == Largest({b.high - b.low, b.high - a.close, a.close - b.high,
                            b.low - a.close, a.close - b.low})

Atr(c, period) ==
    IF Len(c) < period + 1 THEN None ELSE OverSteps(c, period, TrueRange) \div period

(* Of the move up and the move down of a step only the greater one counts.   *)
UpMove(a, b)   == IF b.high - a.high > a.low - b.low THEN NotNegative(b.high - a.high) ELSE 0
DownMove(a, b) == IF a.low - b.low > b.high - a.high THEN NotNegative(a.low - b.low) ELSE 0

Adx(c, period) ==
    LET ranges == OverSteps(c, period, TrueRange)
        up     == (100 * OverSteps(c, period, UpMove)) \div ranges
        down   == (100 * OverSteps(c, period, DownMove)) \div ranges
    IN IF Len(c) < period + 2 THEN None
       ELSE IF ranges <= 0 \/ up + down <= 0 THEN 0
       ELSE (100 * (IF up > down THEN up - down ELSE down - up)) \div (up + down)

-----------------------------------------------------------------------------
(* Volume and bands.                                                         *)
Vwap(c, period) ==
    LET window   == Newest(c, period)
        volume   == Total([i \in 1..period |-> window[i].volume])
        weighted == Total([i \in 1..period |->
                           ((window[i].high + window[i].low + window[i].close) \div 3) * window[i].volume])
    IN IF Len(c) < period THEN None
       ELSE IF volume <= 0 THEN None
       ELSE weighted \div volume

Bollinger(values, period) ==
    LET middle == Sma(values, period)
        window == Newest(values, period)
        Square(x) == x * x
    IN IF Len(values) < period
       THEN [middle |-> None, variance |-> None]
       ELSE [middle   |-> middle,
             variance |-> Total([i \in 1..period |-> Square(window[i] - middle)]) \div period]

(* The direction from a candle, its true range and two averages.             *)
DirectionOf(candle, range, shorter, longer) ==
    IF None \in {range, shorter, longer} THEN None
    ELSE CASE 2 * candle.close >= candle.high + candle.low - 6 * range /\ shorter > longer -> "BULLISH"
           [] 2 * candle.close <= candle.high + candle.low + 6 * range /\ shorter < longer -> "BEARISH"
           [] OTHER                                                                    -> "NEUTRAL"

Supertrend(c, period) ==
    DirectionOf(c[Len(c)], Atr(c, period), Ema(Closes(c), Short), Ema(Closes(c), Middle))

VolumeAverage(c, period) ==
    IF Len(c) < period THEN None
    ELSE Total([i \in 1..period |-> Newest(c, period)[i].volume]) \div period

BuildSnapshot(c) ==
    LET closes == Closes(c)
        macd   == Macd(closes)
        bands  == Bollinger(closes, Short)
    IN [ema20 |-> Ema(closes, Short), ema50 |-> Ema(closes, Middle), ema200 |-> Ema(closes, Long),
        rsi14 |-> Rsi(closes, Momentum), atr14 |-> Atr(c, Momentum), adx14 |-> Adx(c, Momentum),
        volume |-> VolumeAverage(c, Short), sma50 |-> Sma(closes, Middle),
        line |-> macd.line, macd |-> macd.histogram,
        supertrend |-> Supertrend(c, Momentum), vwap20 |-> Vwap(c, Short),
        bollinger |-> bands.middle, variance |-> bands.variance]

AnalyzeMarket(c) == Snapshot(c, BuildSnapshot(c))
=============================================================================
