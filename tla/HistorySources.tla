--------------------------- MODULE HistorySources ---------------------------
(***************************************************************************)
(* What the history syncs make of a provider's answers: the rows of an     *)
(* archive, a day or a chart, the candles of the longer timeframes, what   *)
(* is quarantined or refused, how often a request is repeated, and which   *)
(* markets a sync asks for (sync_historical_15m_repair_to_hf,              *)
(* sync_gate_universe_history_to_b2 and sync_yahoo_history_to_hf).         *)
(*                                                                         *)
(* A candle is a record: at, the minute it starts, open, high, low, close  *)
(* and volume.  A set of candles stands for a list in the order of time.   *)
(***************************************************************************)
EXTENDS Integers, Sequences, FiniteSets, Functions

CONSTANTS
    Length,     \* minutes of each timeframe's candle
    DayOpen,    \* the minutes of a day between which the exchange trades
    DayClose,
    DaysOpen,   \* days of a week on which it does
    NoVolume,   \* the volume of a row that has none
    Refused     \* the answer that ends a sync with an error

ASSUME LengthAssumption == Length \in [{"5m", "15m", "1h", "4h", "1d"} -> Nat \ {0}]

-----------------------------------------------------------------------------
\* Rows

Low(numbers) == CHOOSE n \in numbers : \A m \in numbers : n <= m
High(numbers) == CHOOSE n \in numbers : \A m \in numbers : n >= m

\* _valid_candle
Ordered(c) == /\ c.low <= c.high
              /\ c.open \in c.low .. c.high
              /\ c.close \in c.low .. c.high

DayOf(t) == t \div Length["1d"]
InSession(t) == /\ DayOf(t) % 7 < DaysOpen
                /\ t % Length["1d"] \in DayOpen .. DayClose - 1

\* A day of an exchange is divided from its opening on, any other from midnight.
BucketStart(t, frame, session) ==
    LET opening == DayOf(t) * Length["1d"] + DayOpen
        size == IF frame = "1h" THEN Length["1h"] ELSE Length["4h"]
    IN  IF session # "us_rth" THEN t - (t % Length[frame])
        ELSE IF frame = "1d" THEN opening
        ELSE opening + ((t - opening) \div size) * size

Bucket(rows, start, frame, session) == {r \in rows : BucketStart(r.at, frame, session) = start}
Starts(rows, frame, session) == {BucketStart(r.at, frame, session) : r \in rows}

TotalVolume(group) ==
    LET known == {r \in group : r.volume # NoVolume}
    IN  IF known = {} THEN NoVolume ELSE SumFunction([r \in known |-> r.volume])

Merged(group, start) ==
    LET at(t) == CHOOSE r \in group : r.at = t
        times == {r.at : r \in group}
    IN  [at |-> start, open |-> at(Low(times)).open, close |-> at(High(times)).close,
         high |-> High({r.high : r \in group}), low |-> Low({r.low : r \in group}),
         volume |-> TotalVolume(group)]

Aggregate(rows, frame, session) ==
    {Merged(Bucket(rows, start, frame, session), start) : start \in Starts(rows, frame, session)}

\* Rows of which no two differ at the same minute.
Strict(rows) == IF \E r, q \in rows : r.at = q.at /\ r # q THEN Refused ELSE rows

-----------------------------------------------------------------------------
\* HistData: one archive of minutes.  A line parses to a row or not.

Minute(t) == BucketStart(t, "15m", "utc")
Parsed(lines) == {i \in DOMAIN lines : lines[i].parses /\ Ordered(lines[i].row)}
Foremost(lines) ==
    {i \in Parsed(lines) : \A j \in Parsed(lines) : j < i => lines[j].row.at # lines[i].row.at}
Conflicts(lines) ==
    {lines[i].row.at : i \in {i \in Parsed(lines) : \E j \in Parsed(lines) :
                                lines[j].row.at = lines[i].row.at /\ lines[j].row # lines[i].row}}

\* A 15m candle with a minute of two prices is left out as a whole.
Quarantined(times) == {Minute(t) : t \in times}
Clean(rows, buckets) == {r \in rows : Minute(r.at) \notin buckets}

Archive(lines) ==
    LET buckets == Quarantined(Conflicts(lines))
    IN  [rows |-> Clean({lines[i].row : i \in Foremost(lines)}, buckets), conflicts |-> buckets]

Quality(lines) ==
    LET foremost == {lines[i].row : i \in Foremost(lines)}
    IN  [invalid     |-> Cardinality({i \in DOMAIN lines : ~lines[i].parses}),
         unordered   |-> Cardinality({i \in DOMAIN lines : lines[i].parses /\ ~Ordered(lines[i].row)}),
         repeated    |-> Cardinality({i \in Parsed(lines) \ Foremost(lines) : lines[i].row \in foremost}),
         conflicting |-> Cardinality(Conflicts(lines)),
         quarantined |-> Cardinality(foremost \ Archive(lines).rows)]

\* The archives a range needs: of a past year as a whole, of the present one by
\* month.  Months are counted from year 0, in the source's own time.
Scope(month, active) ==
    IF month \div 12 < active THEN <<month \div 12>> ELSE <<month \div 12, month % 12>>
ScopesNeeded(first, last, active) == {Scope(month, active) : month \in first .. last}

\* The archives of a range put together.  Rows that differ between two of them
\* are quarantined like those of one.
Within(rows, from, to) == {r \in rows : from <= r.at /\ r.at < to}
Overlaps(archives, from, to) ==
    LET rows == Within(UNION {a.rows : a \in archives}, from, to)
    IN  {r.at : r \in {r \in rows : \E q \in rows : q.at = r.at /\ q # r}}

Selected(archives, from, to) ==
    Clean(Within(UNION {a.rows : a \in archives}, from, to), Quarantined(Overlaps(archives, from, to)))

Fetched(archives, from, to) ==
    LET known == UNION {a.conflicts : a \in archives} \cup Quarantined(Overlaps(archives, from, to))
        conflicts == {b \in known : from <= b /\ b < to}
    IN  [candles   |-> Aggregate(Selected(archives, from, to), "15m", "utc"),
         conflicts |-> conflicts,
         observed  |-> Quarantined({r.at : r \in Selected(archives, from, to)}) \cup conflicts]

\* A month is refused for too many conflicts, or too many of its candles (percent).
PolicyRefuses(fetched, limit, percent) ==
    \/ Cardinality(fetched.conflicts) > limit
    \/ 100 * Cardinality(fetched.conflicts) > percent * Cardinality(fetched.observed)

-----------------------------------------------------------------------------
\* The other providers refuse rows that differ instead.

\* Dukascopy: the records of a day; one beyond the day or without a number is dropped.
DukascopyDay(records, day) ==
    {[r.row EXCEPT !.at = day * Length["1d"] + @] :
        r \in {r \in records : r.finite /\ r.row.at < Length["1d"] /\ Ordered(r.row)}}

Dukascopy(days, from, to) ==
    LET rows == UNION {DukascopyDay(days[d], d) : d \in DOMAIN days}
    IN  IF Strict(Within(rows, from, to)) = Refused THEN Refused
        ELSE Aggregate(Within(rows, from, to), "15m", "utc")

\* Gate: the file of a day.  Only its first line may be a heading.
GateDay(lines, day) ==
    LET rows == {lines[i].row : i \in {i \in DOMAIN lines : lines[i].kind = "row"}}
        mine == {r \in rows : DayOf(r.at) = day}
    IN  IF \/ \E i \in DOMAIN lines : lines[i].kind = "short"
           \/ \E i \in DOMAIN lines : lines[i].kind = "text" /\ i > 1
           \/ \E r \in mine : r.at % Length["5m"] # 0
        THEN Refused ELSE Strict(mine)

\* A day without a file is asked from REST when it is recent, whose failure is no error.
GateMonth(files, recent, from, to) ==
    LET published == {GateDay(files[d], d) : d \in DOMAIN files}
    IN  IF Refused \in published THEN Refused
        ELSE Within(UNION published \cup UNION {recent[d] : d \in DOMAIN recent \ DOMAIN files}, from, to)

\* Only candles whose every part is there.
Whole(rows, start, frame) ==
    {r.at : r \in Bucket(rows, start, frame, "utc")}
        = {start + k * Length["5m"] : k \in 0 .. Length[frame] \div Length["5m"] - 1}
Resample(rows, frame) == {c \in Aggregate(rows, frame, "utc") : Whole(rows, c.at, frame)}

MissingInsideSpan(rows) ==
    LET times == {r.at : r \in rows}
        expected == (High(times) - Low(times)) \div Length["5m"] + 1
    IN  IF rows = {} \/ expected < Cardinality(rows) THEN 0 ELSE expected - Cardinality(rows)

\* Yahoo: a day has the volume 0 when none of its rows has one.
YahooFourHour(rows) == Aggregate(rows, "4h", "utc")
YahooDaily(rows) ==
    {IF c.volume = NoVolume THEN [c EXCEPT !.volume = 0] ELSE c : c \in Aggregate(rows, "1d", "utc")}

-----------------------------------------------------------------------------
\* Requests

Count(replies, n, kind) == Cardinality({i \in 1 .. n : replies[i] = kind})

\* The reply that ends a Dukascopy request: anything but a failure that may
\* pass, or the failure that exhausts the budget of its kind.
Ending(replies, http, transport) ==
    {n \in DOMAIN replies : \/ replies[n] \notin {"transient", "transport"}
                            \/ Count(replies, n, "transient") >= http
                            \/ Count(replies, n, "transport") >= transport}

RequestBytes(replies, http, transport) ==
    LET n == Low(Ending(replies, http, transport))
    IN  [tries |-> n,
         answer |-> CASE replies[n] = "data"      -> "rows"
                      [] replies[n] = "absent"    -> "empty"
                      [] replies[n] = "permanent" -> "stop"
                      [] OTHER                    -> "later"]

\* answers[d][s] is the answer for day d in sweep s: a day that failed is asked
\* for again in the next sweep, a stop ends them all.
Sweep(answers, days, s) ==
    IF \E d \in days : answers[d][s] = "stop" THEN Refused
    ELSE {d \in days : answers[d][s] = "later"}

PendingDays(answers, sweeps) ==
    LET after[s \in 0 .. sweeps] ==
            IF s = 0 THEN DOMAIN answers
            ELSE IF after[s - 1] = Refused THEN Refused ELSE Sweep(answers, after[s - 1], s)
    IN  after[sweeps]

\* The seconds before the next try.
RetryDelay(try, base, maximum, asked) ==
    LET backoff == Low({maximum, base * 2 ^ (try - 1)})
    IN  High({backoff, asked})

-----------------------------------------------------------------------------
\* The markets of a sync

GateProviders == {"gateio", "gateio_futures"}

Rank == [USDT |-> 0, USDC |-> 1, USD |-> 2]

\* Every base of the venue, of the project's list and of the registry.
SyncedBases(venue, static, registry) == venue \cup static \cup DOMAIN registry

\* A base's reviewed routes, and the best spot pair when none of them is one.
RegistryRoutes(base, registry) ==
    IF base \notin DOMAIN registry THEN {}
    ELSE {[provider |-> r.provider, market |-> r.market, origin |-> "source_registry"] :
            r \in {r \in registry[base] : r.provider \in GateProviders}}

SpotPairs(base, instruments) ==
    {i \in instruments : i.tradable /\ i.quote \in DOMAIN Rank /\ i.base = base}

DiscoveredRoutes(base, registry, instruments) ==
    LET reviewed == RegistryRoutes(base, registry)
        pairs == SpotPairs(base, instruments)
        best == CHOOSE i \in pairs : \A j \in pairs : Rank[i.quote] <= Rank[j.quote]
    IN  IF pairs = {} \/ \E r \in reviewed : r.provider = "gateio" THEN reviewed
        ELSE reviewed \cup {[provider |-> "gateio", market |-> <<best.base, best.quote>>,
                             origin |-> "gate_spot_discovery"]}

\* What the qualification accepts of a base: a reviewed route when there is
\* any, and a discovered pair of that very base otherwise.
Authorized(base, registry, route) ==
    IF base \in DOMAIN registry
    THEN \E r \in registry[base] : r.provider = route.provider /\ r.market = route.market
    ELSE /\ route.provider = "gateio" /\ route.origin = "gate_spot_discovery"
         /\ route.market[1] = base
=============================================================================
