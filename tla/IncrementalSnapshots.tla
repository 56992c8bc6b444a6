------------------------ MODULE IncrementalSnapshots ------------------------
(* The analysis the backtest engine keeps up to date candle by candle, from a
   few kept windows and sums (src/app/backtest/incremental_snapshots.py).  It
   is to be exactly what Indicators computes from the whole series.  A state
   is a record; there is no history besides the confirmed swings.            *)
EXTENDS Indicators

CONSTANTS Recent,  \* candles kept: 21
          Kept     \* closes kept: 50

(* What is kept reaches back as far as any window that is read.              *)
ASSUME WindowAssumption ==
    /\ Recent \in Nat /\ Kept \in Nat
    /\ Recent >= 2 * Pivot + 1 /\ Recent >= Lookback /\ Recent >= Period + 1
    /\ Recent >= Short /\ Recent >= Momentum + 2
    /\ Kept >= Middle /\ Kept >= Momentum + 1

(* A window that keeps the newest n entries.                                 *)
Keep(window, entry, n) ==
    LET w == Append(window, entry) IN IF Len(w) > n THEN Newest(w, n) ELSE w

AtMost(s, n) == IF Len(s) > n THEN Newest(s, n) ELSE s

-----------------------------------------------------------------------------
(* A running average: a sum until it is seeded, one step per value then.     *)
NoAverage == [count |-> 0, sum |-> 0, value |-> None]

PushAverage(average, value, period) ==
    LET count == average.count + 1
        sum   == average.sum + value
    IN IF count <= period
       THEN [count |-> count, sum |-> sum, value |-> IF count = period THEN sum \div period ELSE None]
       ELSE [average EXCEPT !.count = count, !.value = Smooth(@, value, period)]

Periods == {FastPeriod, SlowPeriod, Short, Middle, Long}

(* The average of the difference starts once both averages are there.        *)
PushSignal(state, averages) ==
    LET fast == averages[FastPeriod].value
        slow == averages[SlowPeriod].value
        signal == PushAverage(state.signal, fast - slow, SignalPeriod)
    IN IF None \in {fast, slow} THEN [signal |-> state.signal, macd |-> state.macd]
       ELSE [signal |-> signal,
             macd   |-> IF signal.value = None THEN state.macd
                        ELSE [line |-> fast - slow, histogram |-> fast - slow - signal.value]]

-----------------------------------------------------------------------------
(* The candle Pivot before the newest may be a swing; no other one changes.  *)
IsHigh(w) ==
    /\ \A j \in 1..Pivot : w[Pivot + 1].high > w[j].high
    /\ \A j \in Pivot + 2 .. 2 * Pivot + 1 : w[Pivot + 1].high >= w[j].high
IsLow(w) ==
    /\ \A j \in 1..Pivot : w[Pivot + 1].low < w[j].low
    /\ \A j \in Pivot + 2 .. 2 * Pivot + 1 : w[Pivot + 1].low <= w[j].low

UpdateSwings(points, count, found, price) ==
    IF count >= 2 * Pivot + 1 /\ found
    THEN Append(points, [price |-> price, index |-> count - Pivot])
    ELSE points

Start == [count |-> 0, candles |-> << >>, closes |-> << >>,
          averages |-> [p \in Periods |-> NoAverage], signal |-> NoAverage,
          macd |-> [line |-> None, histogram |-> None], highs |-> << >>, lows |-> << >>]

Push(state, candle) ==
    LET count    == state.count + 1
        candles  == Keep(state.candles, candle, Recent)
        averages == [p \in Periods |-> PushAverage(state.averages[p], candle.close, p)]
        signal   == PushSignal(state, averages)
        w        == Newest(candles, 2 * Pivot + 1)
    IN [count |-> count, candles |-> candles, closes |-> Keep(state.closes, candle.close, Kept),
        averages |-> averages, signal |-> signal.signal, macd |-> signal.macd,
        highs |-> UpdateSwings(state.highs, count, IsHigh(w), w[Pivot + 1].high),
        lows  |-> UpdateSwings(state.lows, count, IsLow(w), w[Pivot + 1].low)]

-----------------------------------------------------------------------------
(* What is read off the state.                                               *)
Oscillators(state) ==
    [rsi14 |-> Rsi(AtMost(state.closes, Momentum + 1), Momentum),
     atr14 |-> Atr(state.candles, Momentum), adx14 |-> Adx(state.candles, Momentum)]

Bands(state) ==
    LET last20 == AtMost(state.candles, Short)
    IN [vwap20 |-> Vwap(last20, Short), bands |-> Bollinger(Closes(last20), Short),
        volume |-> VolumeAverage(last20, Short)]

KeptIndicators(state) ==
    LET osc   == Oscillators(state)
        bands == Bands(state)
        Average(p) == state.averages[p].value
    IN [ema20 |-> Average(Short), ema50 |-> Average(Middle), ema200 |-> Average(Long),
        rsi14 |-> osc.rsi14, atr14 |-> osc.atr14, adx14 |-> osc.adx14,
        volume |-> bands.volume, sma50 |-> Sma(state.closes, Middle),
        line |-> state.macd.line, macd |-> state.macd.histogram,
        supertrend |-> DirectionOf(state.candles[Len(state.candles)], osc.atr14,
                                   Average(Short), Average(Middle)),
        vwap20 |-> bands.vwap20, bollinger |-> bands.bands.middle, variance |-> bands.bands.variance]

KeptTrend(state, ind) ==
    LET last == state.candles[Len(state.candles)].close
        direction == Aligned(ind, last)
    IN [direction |-> direction,
        score     |-> CASE direction = "UNKNOWN" -> 0
                        [] direction = "NEUTRAL" -> 45
                        [] OTHER                 -> TrendScore(ind, last, direction)]

(* The advanced structure from the swings alone and the last close.          *)
KeptStructure(state) ==
    LET H == state.highs
        L == state.lows
        Newer(S) == S[Len(S)].price
        Older(S) == S[Len(S) - 1].price
        last  == state.candles[Len(state.candles)].close
        trend == IF Len(H) < 2 \/ Len(L) < 2 THEN "UNKNOWN"
                 ELSE CASE Newer(H) > Older(H) /\ Newer(L) > Older(L) -> "BULLISH"
                        [] Newer(H) < Older(H) /\ Newer(L) < Older(L) -> "BEARISH"
                        [] OTHER                                      -> "TRANSITION"
        up    == last > Newer(H)
        down  == last < Newer(L)
        structure == IF up THEN IF trend = "BULLISH" THEN "BOS" ELSE "CHOCH"
                     ELSE IF down THEN IF trend = "BEARISH" THEN "BOS" ELSE "CHOCH"
                     ELSE CASE trend = "BULLISH" -> "HIGHER_HIGH_HIGHER_LOW"
                            [] trend = "BEARISH" -> "LOWER_HIGH_LOWER_LOW"
                            [] OTHER             -> "TRANSITION"
    IN IF H = << >> \/ L = << >>
       THEN [trend |-> trend, structure |-> "UNKNOWN", break |-> None, score |-> 0,
             resistance |-> IF H = << >> THEN None ELSE Newer(H),
             support    |-> IF L = << >> THEN None ELSE Newer(L)]
       ELSE [trend |-> trend, structure |-> structure,
             break |-> IF up THEN "UP" ELSE IF down THEN "DOWN" ELSE None,
             score |-> StructureScore(structure, trend),
             resistance |-> Newer(H), support |-> Newer(L)]

KeptSnapshot(state) ==
    LET ind   == KeptIndicators(state)
        trend == KeptTrend(state, ind)
    IN [ind |-> ind, trend |-> trend,
        structure  |-> Structure(AtMost(state.candles, Lookback)),
        advanced   |-> KeptStructure(state),
        volatility |-> Volatility(AtMost(state.candles, Lookback), trend),
        liquidity  |-> Liquidity(AtMost(state.candles, Period + 1))]

-----------------------------------------------------------------------------
(* The state after a series, and that it says what the series says.          *)
After(c) ==
    LET s[n \in 0..Len(c)] == IF n = 0 THEN Start ELSE Push(s[n - 1], c[n]) IN s[Len(c)]

Exact(c) == KeptSnapshot(After(c)) = AnalyzeMarket(c)
=============================================================================
