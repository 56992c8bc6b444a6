-------------------------- MODULE MarketStructure --------------------------
(* What the program reads off a series of candles: swings, structure, trend,
   regime and liquidity (src/app/market/).  A candle is a record with the
   fields high, low, close and volume; a series is a sequence in the order of
   time.  The indicators (averages, oscillators) are given, a record whose
   fields may be None; their decimal arithmetic is not modelled.             *)
EXTENDS Integers, Sequences, FiniteSets, Functions

CONSTANTS None,      \* a value that is not available
          Pivot,     \* candles on either side that confirm a swing
          Lookback,  \* candles the local structure is read from
          Period     \* candles of the volume baseline

ASSUME PivotAssumption == Pivot \in Nat \ {0}

-----------------------------------------------------------------------------
(* Swings: candle i is a swing high when it is above all Pivot candles on its
   left and at least as high as all Pivot candles on its right.              *)
SwingHighs(c) ==
    {i \in Pivot + 1 .. Len(c) - Pivot :
        /\ \A j \in i - Pivot .. i - 1 : c[i].high > c[j].high
        /\ \A j \in i + 1 .. i + Pivot : c[i].high >= c[j].high}

SwingLows(c) ==
    {i \in Pivot + 1 .. Len(c) - Pivot :
        /\ \A j \in i - Pivot .. i - 1 : c[i].low < c[j].low
        /\ \A j \in i + 1 .. i + Pivot : c[i].low <= c[j].low}

Latest(S) == CHOOSE i \in S : \A j \in S : j <= i
BeforeLatest(S) == Latest(S \ {Latest(S)})

SequenceTrend(c) ==
    LET H == SwingHighs(c)
        L == SwingLows(c)
        high == c[Latest(H)].high
        low  == c[Latest(L)].low
        previousHigh == c[BeforeLatest(H)].high
        previousLow  == c[BeforeLatest(L)].low
    IN IF Cardinality(H) < 2 \/ Cardinality(L) < 2 THEN "UNKNOWN"
       ELSE CASE high > previousHigh /\ low > previousLow -> "BULLISH"
              [] high < previousHigh /\ low < previousLow -> "BEARISH"
              [] OTHER                                    -> "TRANSITION"

StructureScore(structure, trend) ==
    IF structure = "BOS" THEN 90
    ELSE IF structure = "CHOCH" THEN 85
    ELSE IF trend \in {"BULLISH", "BEARISH"} THEN 70 ELSE 50

(* A close beyond the last swing is a break of structure when it goes with
   the trend of the swings, and a change of character otherwise.             *)
AdvancedStructure(c) ==
    LET H == SwingHighs(c)
        L == SwingLows(c)
        trend == SequenceTrend(c)
        last  == c[Len(c)].close
        up    == last > c[Latest(H)].high
        down  == ~up /\ last < c[Latest(L)].low
        kind  == IF \/ up /\ trend = "BULLISH"
                    \/ down /\ trend = "BEARISH" THEN "BOS" ELSE "CHOCH"
        structure == IF up \/ down THEN kind
                     ELSE CASE trend = "BULLISH" -> "HIGHER_HIGH_HIGHER_LOW"
                            [] trend = "BEARISH" -> "LOWER_HIGH_LOWER_LOW"
                            [] OTHER             -> "TRANSITION"
    IN IF H = {} \/ L = {}
       THEN [trend |-> trend, structure |-> "UNKNOWN", break |-> None, score |-> 0,
             resistance |-> IF H = {} THEN None ELSE c[Latest(H)].high,
             support    |-> IF L = {} THEN None ELSE c[Latest(L)].low]
       ELSE [trend |-> trend, structure |-> structure,
             break |-> IF up THEN "UP" ELSE IF down THEN "DOWN" ELSE None,
             score |-> StructureScore(structure, trend),
             resistance |-> c[Latest(H)].high,
             support    |-> c[Latest(L)].low]

(* The structure of the last Lookback candles alone.                         *)
Structure(c) ==
    LET r == AdvancedStructure(SubSeq(c, Len(c) - Lookback + 1, Len(c)))
        last == c[Len(c)].close
        state == CASE r.structure = "BOS"   -> IF r.break = "UP" THEN "BREAKOUT_UP" ELSE "BREAKOUT_DOWN"
                   [] r.structure = "CHOCH" -> IF r.break = "UP" THEN "CHOCH_UP" ELSE "CHOCH_DOWN"
                   [] r.structure \notin {"BOS", "CHOCH"} ->
                        CASE r.support # None /\ 1000 * last <= 1005 * r.support      -> "NEAR_SUPPORT"
                          [] /\ r.support = None \/ 1000 * last > 1005 * r.support
                             /\ r.resistance # None /\ 1000 * last >= 995 * r.resistance -> "NEAR_RESISTANCE"
                          [] OTHER -> CASE r.trend = "BULLISH"    -> "BULLISH_STRUCTURE"
                                        [] r.trend = "BEARISH"    -> "BEARISH_STRUCTURE"
                                        [] r.trend = "TRANSITION" -> "TRANSITION"
                                        [] OTHER                  -> "RANGE"
    IN IF Len(c) < Lookback
       THEN [state |-> "UNKNOWN", support |-> None, resistance |-> None, score |-> 0]
       ELSE [state |-> state, support |-> r.support, resistance |-> r.resistance, score |-> r.score]

-----------------------------------------------------------------------------
(* Trend: the averages in order behind the last close, scored by how many of
   the other indicators agree.                                               *)
Aligned(ind, last) ==
    IF None \in {ind.ema20, ind.ema50, ind.ema200} THEN "UNKNOWN"
    ELSE CASE last > ind.ema20 /\ ind.ema20 > ind.ema50 /\ ind.ema50 > ind.ema200 -> "BULLISH"
           [] last < ind.ema20 /\ ind.ema20 < ind.ema50 /\ ind.ema50 < ind.ema200 -> "BEARISH"
           [] OTHER                                                             -> "NEUTRAL"

Agrees(a, b, direction) ==
    /\ a # None
    /\ b # None
    /\ IF direction = "BULLISH" THEN a >= b ELSE a <= b

AgreesStrictly(a, b, direction) == Agrees(a, b, direction) /\ a # b

Points(condition, n) == IF condition THEN n ELSE 0

AtMost100(n) == IF n > 100 THEN 100 ELSE n

TrendScore(ind, last, direction) ==
    AtMost100(60 + Points(Agrees(ind.rsi14, 50, direction), 10)
                 + Points(AgreesStrictly(ind.macd, 0, direction), 10)
                 + Points(ind.adx14 # None /\ ind.adx14 >= 18, 5)
                 + Points(ind.adx14 # None /\ ind.adx14 >= 25, 5)
                 + Points(ind.supertrend = direction, 5)
                 + Points(Agrees(last, ind.vwap20, direction), 5))

Trend(c, ind) ==
    LET direction == IF c = <<>> THEN "UNKNOWN" ELSE Aligned(ind, c[Len(c)].close)
    IN [direction |-> direction,
        score     |-> CASE direction = "UNKNOWN" -> 0
                        [] direction = "NEUTRAL" -> 45
                        [] OTHER                 -> TrendScore(ind, c[Len(c)].close, direction)]

(* The volatility of the last candles, by the mean of their relative ranges. *)

Volatility(c, trend) ==
    LET last == SubSeq(c, (IF Len(c) > Lookback THEN Len(c) - Lookback ELSE 0) + 1, Len(c))
        mean == SumFunction([i \in 1..Len(last) |-> (10000 * (last[i].high - last[i].low)) \div last[i].close])
                \div Len(last)
    IN IF c = <<>> \/ trend.direction = "UNKNOWN" THEN "UNKNOWN"
       ELSE CASE mean >= 300 -> "HIGH" [] mean <= 100 -> "LOW" [] OTHER -> "NORMAL"

(* The volume of the last candle against the mean of the Period before it.   *)
Liquidity(c) ==
    LET base == SumFunction([i \in Len(c) - Period .. Len(c) - 1 |-> c[i].volume])
    IN IF Len(c) < Period + 1 \/ base = 0
       THEN [ratio |-> None, score |-> 0]
       ELSE [ratio |-> (100 * Period * c[Len(c)].volume) \div base,
             score |-> AtMost100((50 * Period * c[Len(c)].volume) \div base)]

Snapshot(c, ind) ==
    LET trend == Trend(c, ind)
    IN [ind |-> ind, trend |-> trend, structure |-> Structure(c), advanced |-> AdvancedStructure(c),
        volatility |-> Volatility(c, trend), liquidity |-> Liquidity(c)]
=============================================================================
