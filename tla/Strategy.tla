------------------------------ MODULE Strategy ------------------------------
(* The strategy engine (src/app/strategy/): a signal from the snapshots of
   four timeframes, m.d1, m.h4, m.h1 and m.m15.  Prices are integers counting
   units of the last digit the decimal context keeps; a quality is in
   hundredths of a percent.                                                  *)
EXTENDS MarketStructure

CONSTANTS MinScore, MinConfidence,  \* StrategyRules, in percent
          Scale   \* 10^(p - 1), for the p digits the decimal context keeps: a
                  \* price is at least Scale units, a ratio from 1 up to 10 is
                  \* kept to one part in Scale

Clamp(q) == CASE q < 0 -> 0 [] q > 10000 -> 10000 [] OTHER -> q

Direction(m) ==
    CASE m.d1.trend.direction # m.h4.trend.direction -> None
      [] m.d1.trend.direction = "BULLISH" /\ m.h4.trend.direction = "BULLISH" -> "LONG"
      [] m.d1.trend.direction = "BEARISH" /\ m.h4.trend.direction = "BEARISH" -> "SHORT"
      [] OTHER -> None

Expected(direction) == IF direction = "LONG" THEN "BULLISH" ELSE "BEARISH"

(* The level the price comes back to in a pullback, and the one it retests.  *)
Near(direction)   == IF direction = "LONG" THEN "NEAR_SUPPORT" ELSE "NEAR_RESISTANCE"
Retest(direction) == IF direction = "LONG" THEN "NEAR_RESISTANCE" ELSE "NEAR_SUPPORT"
Breakout(direction) == IF direction = "LONG" THEN "BREAKOUT_UP" ELSE "BREAKOUT_DOWN"

Setup(m, direction) ==
    LET with == {tf \in {"h4", "h1", "m15"} : m[tf].trend.direction = Expected(direction)}
        retest   == /\ m.h4.structure.state = Breakout(direction)
                    /\ m.h1.structure.state = Retest(direction)
        pullback == "h1" \in with /\ m.h1.structure.state = Near(direction)
    IN CASE retest                                           -> "BREAKOUT_RETEST"
         [] ~retest /\ pullback                              -> "TREND_PULLBACK"
         [] ~retest /\ ~pullback /\ with = {"h4", "h1", "m15"} -> "CONTINUATION"
         [] OTHER                                            -> None

-----------------------------------------------------------------------------
(* Levels: the entry is the short average, the stop lies a quarter of the ATR
   beyond the last confirmed swing, the target two and a half times as far on
   the other side.  What needs more digits than the context keeps is rounded,
   half to even: the stop, the reward when it is no smaller than a price, the
   target, and the ratio of reward to risk.                                  *)
Nearest(n, d) ==   \* n / d
    LET floor == n \div d
        rest  == 2 * (n % d)
    IN IF rest > d \/ (rest = d /\ floor % 2 = 1) THEN floor + 1 ELSE floor

Known(a, b) == IF a # None THEN a ELSE b

Entry(m) == Known(m.m15.ind.ema20, m.h1.ind.ema20)

Levels(m, direction) ==
    LET entry      == Entry(m)
        support    == Known(m.h4.advanced.support, m.h4.structure.support)
        resistance == Known(m.h4.advanced.resistance, m.h4.structure.resistance)
        atr        == IF m.h4.ind.atr14 = None THEN 0 ELSE m.h4.ind.atr14
        stop       == IF direction = "LONG" THEN Nearest(4 * support - atr, 4)
                                            ELSE Nearest(4 * resistance + atr, 4)
        halves     == 5 * (IF direction = "LONG" THEN entry - stop ELSE stop - entry)
        reward     == IF halves < 2 * Scale THEN halves ELSE 2 * Nearest(halves, 2)
        target     == Nearest(2 * entry + (IF direction = "LONG" THEN reward ELSE -reward), 2)
    IN IF \/ None \in {entry, support, resistance}
          \/ support >= entry
          \/ resistance <= entry
          \/ direction = "LONG" /\ stop <= 0
          \/ direction = "SHORT" /\ target <= 0
       THEN None
       ELSE [entry |-> entry, stop |-> stop, target |-> target]

Distance(a, b) == IF a > b THEN a - b ELSE b - a

(* The quotient the code compares, in parts of Scale, and ratio >= n / d.    *)
Ratio(l) == Nearest(Scale * Distance(l.target, l.entry), Distance(l.entry, l.stop))

RatioAtLeast(l, n, d) == d * Ratio(l) >= n * Scale

-----------------------------------------------------------------------------
(* Evidence: seven qualities, weighted into the score; four of them make the
   confidence.                                                               *)
Completeness(ind) ==
    LET base == {f \in {"ema20", "ema50", "ema200", "rsi14", "atr14", "volume"} : ind[f] # None}
        more == {f \in {"macd", "adx14", "supertrend", "vwap20", "bollinger"} : ind[f] # None}
    IN Clamp((IF Cardinality(base) = 6 THEN 9500 ELSE 1500 * Cardinality(base)) + 100 * Cardinality(more))

DataQuality(m) ==
    (Completeness(m.d1.ind) + Completeness(m.h4.ind) + Completeness(m.h1.ind) + Completeness(m.m15.ind)) \div 4

HtfAlignment(m) ==
    IF Direction(m) = None THEN 0 ELSE Clamp(50 * (m.d1.trend.score + m.h4.trend.score))

StructureQuality(m) ==
    LET mixed == 65 * m.h4.structure.score + 35 * m.h1.structure.score
        best  == IF 100 * m.h4.advanced.score > mixed THEN 100 * m.h4.advanced.score ELSE mixed
    IN Clamp(best + Points(m.h4.structure.state \in {"BREAKOUT_UP", "BREAKOUT_DOWN"}, 500)
                  + Points(m.h4.structure.state \in {"CHOCH_UP", "CHOCH_DOWN"}, 200))

SetupQuality(m, setup, direction) ==
    CASE setup = "BREAKOUT_RETEST" -> 9000 + Points(m.h4.structure.state = Breakout(direction), 500)
      [] setup = "TREND_PULLBACK"  -> 9000 + Points(m.h1.structure.state = Near(direction), 500)
                                           + Points(m.h1.trend.direction = Expected(direction), 300)
      [] setup = "CONTINUATION"    ->
           7400 + 700 * Cardinality({tf \in {"h4", "h1", "m15"} : m[tf].trend.direction = Expected(direction)})

ConfirmationQuality(s, direction) ==
    LET way == Expected(direction)
    IN Clamp(Points(s.trend.direction = way, 6000)
             + Points(s.trend.direction = way /\ s.trend.score >= 85, 1000)
             + Points(Agrees(s.ind.rsi14, 50, way), 800)
             + Points(AgreesStrictly(s.ind.macd, 0, way), 800)
             + Points(s.ind.supertrend = way, 600)
             + Points(Agrees(s.ind.ema20, s.ind.vwap20, way), 400)
             + Points(s.liquidity.ratio # None /\ s.liquidity.ratio >= 100, 400))

VolatilityQuality(s) ==
    CASE s.volatility = "NORMAL" -> 10000
      [] s.volatility = "LOW"    -> 7500
      [] s.volatility = "HIGH"   -> 5000
      [] OTHER                   -> 2500

RewardQuality(l) ==
    CASE RatioAtLeast(l, 3, 1)                               -> 10000
      [] RatioAtLeast(l, 11, 4) /\ ~RatioAtLeast(l, 3, 1)    -> 9000
      [] RatioAtLeast(l, 5, 2) /\ ~RatioAtLeast(l, 11, 4)    -> 8000
      [] RatioAtLeast(l, 2, 1) /\ ~RatioAtLeast(l, 5, 2)     -> 5000
      [] OTHER                                               -> 0

Score(m, setup, direction, l) ==
    (20 * HtfAlignment(m) + 15 * StructureQuality(m) + 25 * SetupQuality(m, setup, direction)
     + 15 * ConfirmationQuality(m.m15, direction) + 10 * Clamp(100 * m.m15.liquidity.score)
     + 5 * VolatilityQuality(m.m15) + 10 * RewardQuality(l)) \div 100

Confidence(m, direction) ==
    (30 * DataQuality(m) + 25 * HtfAlignment(m) + 20 * StructureQuality(m)
     + 25 * ConfirmationQuality(m.m15, direction)) \div 100

-----------------------------------------------------------------------------
NoTrade(reason) == [state |-> "NO_TRADE", reasons |-> {reason}]

Signal(m) ==
    LET direction == Direction(m)
        setup  == Setup(m, direction)
        l      == Levels(m, direction)
        score  == Score(m, setup, direction, l)
        confidence == Confidence(m, direction)
        reasons == {r \in {"rr", "score", "confidence"} :
                       \/ r = "rr" /\ ~RatioAtLeast(l, 5, 2)
                       \/ r = "score" /\ score < 100 * MinScore
                       \/ r = "confidence" /\ confidence < 100 * MinConfidence}
    IN CASE direction = None                                -> NoTrade("direction")
         [] direction # None /\ setup = None                -> NoTrade("setup")
         [] direction # None /\ setup # None /\ l = None    -> NoTrade("levels")
         [] OTHER -> [state |-> IF reasons = {} THEN "READY" ELSE "REJECTED", reasons |-> reasons,
                      direction |-> direction, entry |-> l.entry, stop |-> l.stop, target |-> l.target,
                      rr |-> Ratio(l), score |-> score, confidence |-> confidence]
=============================================================================
