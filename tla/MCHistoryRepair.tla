--------------------------- MODULE MCHistoryRepair ---------------------------
(* Two months of two days, 15m and one derived timeframe, a source that is    *)
(* revised once. The ranges are the whole year, a month and a year that ends  *)
(* inside its last month.                                                     *)
EXTENDS HistoryRepair, HistorySources, SequencesExt

MCRanges == {<<0, 4>>, <<0, 3>>, <<2, 4>>}

-----------------------------------------------------------------------------
(* What becomes of the providers' rows, checked on all small inputs: a 5m     *)
(* candle takes one unit of time, 15m two, 1h four, 4h eight, a day sixteen.  *)
MCLength == [f \in {"5m", "15m", "1h", "4h", "1d"} |->
                CASE f = "5m" -> 1 [] f = "15m" -> 2 [] f = "1h" -> 4 [] f = "4h" -> 8 [] f = "1d" -> 16]
MCNoVolume == -1

Bar(t, price, volume) ==
    [at |-> t, open |-> price, high |-> price + 2, low |-> price - 1, close |-> price + 1, volume |-> volume]
Text == [parses |-> FALSE, row |-> Bar(0, 0, 0)]
Line(row) == [parses |-> TRUE, row |-> row]
Lines == {Text, Line([Bar(0, 5, 1) EXCEPT !.high = 0]), Line(Bar(0, 5, 1)), Line(Bar(0, 6, 1)),
          Line(Bar(1, 5, MCNoVolume)), Line(Bar(2, 5, 1))}
LinesUpTo(n) == UNION {[1 .. k -> Lines] : k \in 0 .. n}

(* Which line of an archive comes first never decides a price: the rows are   *)
(* those of the candles without a conflict, in any order of the lines, and    *)
(* without conflicts every line is counted once.                              *)
ASSUME OrderOfLinesIsIrrelevant ==
    \A lines \in LinesUpTo(4) :
        LET a == Archive(lines)
            q == Quality(lines)
        IN  /\ a = Archive(Reverse(lines))
            /\ a.rows = Clean({lines[i].row : i \in Parsed(lines)}, a.conflicts)
            /\ Strict(a.rows) # Refused
            /\ a.conflicts = {} => Cardinality(a.rows) + q.invalid + q.unordered + q.repeated = Len(lines)

(* A candle whose minute has two prices is never stored, unless the conflict  *)
(* is inside one archive and another archive has rows of that candle.         *)
ASSUME ConflictsAreQuarantined ==
    \A l, m \in LinesUpTo(2) :
        LET archives == {Archive(l), Archive(m)}
            f == Fetched(archives, 0, 16)
            stored == {c.at : c \in f.candles} \cap f.conflicts
        IN  /\ Archive(l) = Archive(m) => stored = {}
            /\ stored \subseteq UNION {a.conflicts : a \in archives}
            /\ stored \cap Quarantined(Overlaps(archives, 0, 16)) = {}
            /\ PolicyRefuses(f, 0, 100) <=> f.conflicts # {}

Series(times, volumes) ==
    UNION {{{Bar(t, 3 * t % 7, v[t]) : t \in chosen} : v \in [chosen -> volumes]} : chosen \in SUBSET times}

(* Candles built in steps are those built at once, in a round-the-clock       *)
(* market and in an exchange's session.                                       *)
ASSUME AggregationComposes ==
    /\ \A rows \in Series({0, 1, 3, 8, 15, 17}, {1, MCNoVolume}) :
         \A f, g \in {"15m", "1h", "4h", "1d"} : MCLength[f] <= MCLength[g] =>
            Aggregate(Aggregate(rows, f, "utc"), g, "utc") = Aggregate(rows, g, "utc")
    /\ \A rows \in Series({t \in {3, 4, 6, 7, 10, 11, 12, 13, 19, 23, 28, 35} : InSession(t)}, {1}) :
         \A f, g \in {"1h", "4h", "1d"} : MCLength[f] <= MCLength[g] =>
            Aggregate(Aggregate(rows, f, "us_rth"), g, "us_rth") = Aggregate(rows, g, "us_rth")

(* One day of rows without conflicts gives the same candles whichever         *)
(* provider's path it takes.                                                  *)
ASSUME ProvidersAgree ==
    \A rows \in Series(0 .. 5, {1}) :
        LET lines == SetToSeq(rows)
            file == [i \in DOMAIN lines |-> [kind |-> "row", row |-> lines[i]]]
            candles == Aggregate(rows, "15m", "utc")
        IN  /\ Fetched({Archive([i \in DOMAIN lines |-> Line(lines[i])])}, 0, 16).candles = candles
            /\ Dukascopy([d \in {0} |-> {[finite |-> TRUE, row |-> r] : r \in rows}], 0, 16) = candles
            /\ GateMonth([d \in {0} |-> file], [d \in {0} |-> {Bar(9, 9, 9)}], 0, 16) = rows
            /\ YahooFourHour(candles) = YahooFourHour(rows) /\ YahooDaily(candles) = YahooDaily(rows)

(* A longer Gate candle is stored only with all its parts, and nothing is     *)
(* dropped from a span that misses nothing and ends with a candle.            *)
ASSUME ResampledIsWhole ==
    \A rows \in Series(0 .. 7, {1}) :
        /\ \A f, g \in {"15m", "1h", "4h"}, c \in Aggregate(rows, "4h", "utc") :
             (c \in Resample(rows, "4h") /\ MCLength[f] <= MCLength["4h"]) =>
                \A k \in 0 .. 7 : BucketStart(c.at + k, f, "utc") \in {s.at : s \in Resample(rows, f)}
        /\ (MissingInsideSpan(rows) = 0 /\ Cardinality(rows) = 8)
             <=> Cardinality(Resample(rows, "4h")) = 1

(* A request is answered within the two budgets, and a sweep leaves no day    *)
(* behind that had an answer.                                                 *)
ASSUME RetriesAreBounded ==
    /\ \A http, transport \in 1 .. 3 :
         \A replies \in [1 .. http + transport - 1 -> {"data", "absent", "permanent", "transient", "transport"}] :
            /\ Ending(replies, http, transport) # {}
            /\ RequestBytes(replies, http, transport).answer = "later" =>
                 \A i \in 1 .. RequestBytes(replies, http, transport).tries : replies[i] \in {"transient", "transport"}
    /\ \A answers \in [1 .. 2 -> [1 .. 2 -> {"rows", "empty", "later", "stop"}]] :
         PendingDays(answers, 2) # Refused =>
            PendingDays(answers, 2) = {d \in 1 .. 2 : \A s \in 1 .. 2 : answers[d][s] = "later"}
    /\ \A try \in 1 .. 6, asked \in {0, 3, 90} :
         /\ RetryDelay(try, 2, 60, asked) >= asked
         /\ RetryDelay(try, 2, 60, asked) <= RetryDelay(try + 1, 2, 60, asked)

(* A sync asks for what the qualification can accept: every reviewed Gate     *)
(* route, and of a base that was not reviewed at most one pair.               *)
Reviewed == {[provider |-> "gateio", market |-> <<"a", "USDT">>], [provider |-> "gateio_futures", market |-> <<"a", "USDT">>],
             [provider |-> "yahoo", market |-> <<"A", "">>]}
Listed == [base : {"a", "b"}, quote : {"USDT", "USD", "BTC"}, tradable : {TRUE}] \cup
          {[base |-> "a", quote |-> "USDC", tradable |-> FALSE]}
ASSUME DiscoveredIsAcceptable ==
    \A reviewed \in SUBSET Reviewed, listed \in SUBSET Listed :
        LET registry == [base \in {"a"} |-> reviewed]
        IN  /\ \A base \in SyncedBases({"b"}, {}, registry) : \A r \in DiscoveredRoutes(base, registry, listed) :
                 Authorized(base, registry, r) <=> (base = "b" \/ r.origin = "source_registry")
            /\ Cardinality(DiscoveredRoutes("b", registry, listed)) <= 1
=============================================================================
