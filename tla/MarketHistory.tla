--------------------------- MODULE MarketHistory ---------------------------
(***************************************************************************)
(* The history of one market in the research bucket: the syncs that store  *)
(* what Gate publishes (scripts/backtest/sync_gate_universe_*, and the one *)
(* that stitches the history of a renamed symbol,                          *)
(* sync_gate_symbol_continuity), the two that store what Yahoo returns     *)
(* (sync_yahoo_history_to_hf and sync_yahoo_backtest_history_to_hf), the   *)
(* run manifests their workflows publish, the global qualification built   *)
(* from a choice of them and the backtest that loads what qualified.       *)
(*                                                                         *)
(* Each sync runs in a workflow of its own and they may overlap; both Gate *)
(* syncs write the same keys, and so do both of Yahoo. Time is counted in  *)
(* days; a timeframe other than the one modelled is resampled from the     *)
(* same rows.                                                              *)
(***************************************************************************)
EXTENDS Integers, Sequences, FiniteSets

CONSTANTS
    Jobs,           \* syncs that may run at the same time
    MonthCount,     \* months of history
    DaysPerMonth,
    Renamed,        \* first day of the symbol's present name
    Recent,         \* days the REST fallback may answer for
    Requests,       \* the ranges of a dispatch, first and last day
    MinimumRows,    \* rows a timeframe needs for a backtest
    ReviewedStart,  \* reviewed start of a listing-limited market, 0 for none
    DaysPerYear,
    Window,         \* days that each Yahoo sync asks for
    Ends,           \* days a Yahoo sync is dispatched for
    Dropped,        \* days whose row Yahoo may return broken
    MaxRuns         \* bound: runs published

Horizon == MonthCount * DaysPerMonth
Days == 1 .. Horizon
Months == 1 .. MonthCount
YearOf(d) == (d - 1) \div DaysPerYear + 1
Years == 1 .. YearOf(Horizon)
GateKinds == {"plain", "continuity"}
YahooKinds == {"full", "deep"}
Kinds == GateKinds \cup YahooKinds
SourceOf(kind) == IF kind \in GateKinds THEN "gateio" ELSE "yahoo"

ASSUME SizesAssumption ==
    /\ MonthCount \in Nat \ {0} /\ DaysPerMonth \in Nat \ {0} /\ Renamed \in Days
    /\ MinimumRows \in Nat \ {0} /\ ReviewedStart \in Nat /\ MaxRuns \in Nat
    /\ DaysPerYear \in Nat \ {0}
ASSUME RequestsAssumption ==
    /\ Recent \subseteq Days
    /\ Requests \subseteq {r \in Days \X Days : r[1] <= r[2]}
    /\ Ends \subseteq Days /\ Dropped \subseteq Days
    /\ Window \in [YahooKinds -> Nat]

VARIABLES
    archived,   \* days whose quotation file Gate has published
    object,     \* the partition objects in the bucket
    job,        \* the running syncs
    runs,       \* summaries of the published run manifests, oldest first
    contract,   \* the qualification last published
    backtest    \* the backtest of the asset

vars == <<archived, object, job, runs, contract, backtest>>

-----------------------------------------------------------------------------
\* Rows, keys and summaries

\* A Gate partition is named by its month, one that ends early also by the last
\* day of the run that stored it; a Yahoo partition by its year only.
Keys == [month : Months, snapshot : 0 .. Horizon] \cup [year : Years]
MonthOf(d) == (d - 1) \div DaysPerMonth + 1
DaysOf(month) == {d \in Days : MonthOf(d) = month}

PartitionKey(request, month) ==
    [month |-> month,
     snapshot |-> IF request[2] >= month * DaysPerMonth THEN 0 ELSE request[2]]

YearKey(year) == [year |-> year]

\* The market traded under its earlier symbol, and from the next day on under its present one.
Segments == <<1 .. Renamed - 1, Renamed .. Horizon>>

\* A plain sync asks for no day before its symbol was listed.
ListingFloor(kind, request) ==
    IF kind = "plain" /\ request[1] < Renamed THEN <<Renamed, request[2]>> ELSE request

\* The rows of the segments that a sync reads are put together.
Traded(kind) == IF kind = "continuity" THEN UNION {Segments[i] : i \in DOMAIN Segments} ELSE Segments[2]

\* The rows of the published files, and what REST may answer for recent days.
ArchiveRows(requested) == requested \cap archived
RestRows(requested) == SUBSET (requested \cap Recent)

\* fetch_month_5m: REST fills only days the archive does not have.
FetchMonth5m(kind, request, month) ==
    LET requested == DaysOf(month) \cap (request[1] .. request[2]) \cap Traded(kind)
    IN  {ArchiveRows(requested) \cup recent : recent \in RestRows(requested)}

\* The rows of one chart request, without the ones that break the OHLC order.
Chart(kind, end) ==
    LET returned == {d \in Days : end - Window[kind] < d /\ d <= end}
    IN  {returned \ broken : broken \in SUBSET Dropped}

First(days) == CHOOSE d \in days : \A e \in days : d <= e
Last(days) == CHOOSE d \in days : \A e \in days : d >= e

Partitions == [key : Keys, days : (SUBSET Days) \ {{}}]
Observed(partitions) == UNION {p.days : p \in partitions}

\* Mutant: the days missing are counted inside the months only.
MissingInMonths(partitions) ==
    \E p \in partitions : Cardinality(p.days) < Last(p.days) - First(p.days) + 1

\* route_missing_5m_inside_observed_span: counted over the whole route, so that
\* a month without any row counts too.
MissingInside(partitions) ==
    LET days == Observed(partitions)
    IN  Cardinality(days) < Last(days) - First(days) + 1

Status(partitions) ==
    IF partitions = {} THEN "NO_HISTORY_RETURNED"
    ELSE IF MissingInside(partitions) THEN "COMPLETE_WITH_RECORDED_GAPS" ELSE "COMPLETE"

Complete == {"COMPLETE", "COMPLETE_WITH_RECORDED_GAPS"}
Statuses == Complete \cup {"NO_HISTORY_RETURNED", "ERROR"}
Summaries == [kind : Kinds, status : Statuses, partitions : SUBSET Partitions]

-----------------------------------------------------------------------------
Absent == {}
Idle == [pc |-> "idle"]
NoContract == [status |-> "none"]
NoBacktest == [pc |-> "idle"]

Init ==
    /\ archived \in SUBSET Days
    /\ object = [k \in Keys |-> Absent]
    /\ job = [j \in Jobs |-> Idle]
    /\ runs = <<>>
    /\ contract = NoContract
    /\ backtest = NoBacktest

\* Gate publishes the file of a recent day; a day missing before stays missing.
PublishFile(d) ==
    /\ d \in Recent \ archived
    /\ archived' = archived \cup {d}
    /\ UNCHANGED <<object, job, runs, contract, backtest>>

-----------------------------------------------------------------------------
\* A sync of the market. It goes through the months of its request, or through
\* the years of the rows it got.

Started(kind, request, base) ==
    [pc |-> "fetch", kind |-> kind, request |-> request, base |-> base,
     period |-> IF kind \in GateKinds THEN MonthOf(ListingFloor(kind, request)[1]) ELSE 1,
     rows |-> {}, left |-> {}, partitions |-> {}]

Slots == Len(runs) + Cardinality({i \in Jobs : job[i] # Idle})

Dispatch(j, kind, request, base) ==
    /\ job[j] = Idle
    /\ Slots < MaxRuns
    /\ \A i \in Jobs : job[i] # Idle => job[i].kind # kind
    /\ job' = [job EXCEPT ![j] = Started(kind, request, base)]
    /\ UNCHANGED <<archived, object, runs, contract, backtest>>

\* The step of the workflow starts the whole route again.
Retry(j) ==
    /\ job[j] # Idle
    /\ job' = [job EXCEPT ![j] = Started(@.kind, @.request, @.base)]
    /\ UNCHANGED <<archived, object, runs, contract, backtest>>

\* The targeted repair of a deep run merges its summary into the one of a prior run.
Repairable == {i \in 1 .. Len(runs) : runs[i].kind \in YahooKinds}

LastMonth(j) == MonthOf(job[j].request[2])
Key(j) == IF job[j].kind \in GateKinds THEN PartitionKey(job[j].request, job[j].period)
          ELSE YearKey(job[j].period)

NextMonth(sync) == [sync EXCEPT !.pc = "fetch", !.period = @ + 1]

\* A month without rows leaves no partition.
FetchMonth(j) ==
    /\ job[j].pc = "fetch" /\ job[j].kind \in GateKinds
    /\ job[j].period <= LastMonth(j)
    /\ \E rows \in FetchMonth5m(job[j].kind, job[j].request, job[j].period) :
         job' = [job EXCEPT ![j] = IF rows = {} THEN NextMonth(@)
                                   ELSE [@ EXCEPT !.pc = "put", !.rows = rows]]
    /\ UNCHANGED <<archived, object, runs, contract, backtest>>

\* The rows of the first year of days, and the other ones.
GroupYears(sync, days) ==
    LET year == YearOf(First(days))
        rows == {d \in days : YearOf(d) = year}
    IN  [sync EXCEPT !.pc = "put", !.period = year, !.rows = rows, !.left = days \ rows]

\* All of the chart is fetched before anything is stored; a chart without rows is an error.
FetchChart(j) ==
    /\ job[j].pc = "fetch" /\ job[j].kind \in YahooKinds
    /\ \E days \in Chart(job[j].kind, job[j].request) \ {{}} :
         job' = [job EXCEPT ![j] = GroupYears(@, days)]
    /\ UNCHANGED <<archived, object, runs, contract, backtest>>

Recorded(sync, key) == [sync EXCEPT !.partitions = @ \cup {[key |-> key, days |-> sync.rows]}, !.rows = {}]

RecordYear(sync) == IF sync.left = {} THEN [sync EXCEPT !.pc = "finish"] ELSE GroupYears(sync, sync.left)

\* The partition is recorded and the sync turns to the next month or year.
Record(j) ==
    LET recorded == Recorded(job[j], Key(j))
    IN  job' = [job EXCEPT ![j] = IF recorded.kind \in GateKinds THEN NextMonth(recorded) ELSE RecordYear(recorded)]

\* The object is downloaded to know its digest.
Stored(j) == object[Key(j)] = job[j].rows

ReuseVerified(j) ==
    /\ job[j].pc = "put" /\ Stored(j)
    /\ Record(j)
    /\ UNCHANGED <<archived, object, runs, contract, backtest>>

Put(j) ==
    /\ job[j].pc = "put" /\ ~Stored(j)
    /\ object' = [object EXCEPT ![Key(j)] = job[j].rows]
    /\ job' = [job EXCEPT ![j].pc = "verify"]
    /\ UNCHANGED <<archived, runs, contract, backtest>>

\* The object is read back.
Verify(j) ==
    /\ job[j].pc = "verify" /\ Stored(j)
    /\ Record(j)
    /\ UNCHANGED <<archived, object, runs, contract, backtest>>

Publish(summary) == runs' = Append(runs, summary)

\* All months are done: the run manifest is published.
Finish(j) ==
    /\ job[j].pc = "fetch" /\ job[j].kind \in GateKinds /\ job[j].period > LastMonth(j)
    /\ Publish([kind |-> job[j].kind, status |-> Status(job[j].partitions),
                partitions |-> job[j].partitions])
    /\ job' = [job EXCEPT ![j] = Idle]
    /\ UNCHANGED <<archived, object, contract, backtest>>

\* merge_repair: the summary takes the place of the route's one in the base manifest.
MergeRepair(base, summary) ==
    /\ base # 0 => summary.status = "COMPLETE"
    /\ Publish(summary)

\* All years are stored. What Yahoo left out is not a gap.
FinishChart(j) ==
    /\ job[j].pc = "finish"
    /\ MergeRepair(job[j].base, [kind |-> job[j].kind, status |-> "COMPLETE", partitions |-> job[j].partitions])
    /\ job' = [job EXCEPT ![j] = Idle]
    /\ UNCHANGED <<archived, object, contract, backtest>>

\* An error at any step, the read-back that differs included, in the last attempt:
\* the summary says so, but a stitching sync leaves none and a repair is not merged.
Fail(j) ==
    /\ job[j] # Idle
    /\ IF job[j].kind = "continuity" \/ job[j].base # 0 THEN UNCHANGED runs
       ELSE Publish([kind |-> job[j].kind, status |-> "ERROR", partitions |-> {}])
    /\ job' = [job EXCEPT ![j] = Idle]
    /\ UNCHANGED <<archived, object, contract, backtest>>

-----------------------------------------------------------------------------
\* The qualification of a choice of runs

OfKinds(chosen, kinds) == {i \in chosen : runs[i].kind \in kinds}

\* Mutant: a later run replaces whatever was there.
LastRun(chosen) == Last(chosen)

\* merge_gate_runs: later evidence of the route replaces earlier evidence, but a
\* plain run never replaces a reviewed continuity.
MergeGateRuns(chosen) ==
    LET continuity == OfKinds(chosen, {"continuity"})
    IN  IF continuity # {} THEN Last(continuity) ELSE Last(chosen)

\* The summaries of the market's sources, one of Gate and one of Yahoo at most.
Sources(chosen) ==
    LET gate == OfKinds(chosen, GateKinds)
        yahoo == OfKinds(chosen, YahooKinds)
    IN  {i \in chosen :
            /\ runs[i].status \in Complete
            /\ i = IF i \in gate THEN MergeGateRuns(gate) ELSE Last(yahoo)}

Rows(summary) == Cardinality(Observed(summary.partitions))
Ready(i) == Rows(runs[i]) >= MinimumRows

\* _listing_policy_matches: the policy names the Gate route.
ListingLimited(i) ==
    /\ ReviewedStart # 0
    /\ runs[i].kind \in GateKinds
    /\ First(Observed(runs[i].partitions)) = ReviewedStart

\* preferred_summary_backtest_ready: the first source that is ready, else the first;
\* Gate's come before Yahoo's.
Foremost(sources) ==
    CHOOSE i \in sources : (\E k \in sources : runs[k].kind \in GateKinds) => runs[i].kind \in GateKinds
Preferred(sources) ==
    LET ready == {i \in sources : Ready(i)}
    IN  Foremost(IF ready # {} THEN ready ELSE sources)

\* qualify and apply_listing_limited_policy.
Qualification(chosen) ==
    IF Sources(chosen) = {} THEN [status |-> "MISSING_HISTORICAL_SOURCE", run |-> 0]
    ELSE LET i == Preferred(Sources(chosen))
         IN  [status |-> IF Ready(i) THEN "QUALIFIED"
                         ELSE IF ListingLimited(i) THEN "QUALIFIED_LISTING_LIMITED_HISTORY"
                         ELSE "INSUFFICIENT_BACKTEST_HISTORY",
              run |-> i]

Qualified == {"QUALIFIED", "QUALIFIED_LISTING_LIMITED_HISTORY"}

\* The operator names Gate's runs, oldest to newest, and one of Yahoo. A contract
\* that is not PASS does not replace the published one.
Qualify(chosen) ==
    LET q == Qualification(chosen)
    IN  /\ Cardinality(OfKinds(chosen, YahooKinds)) <= 1
        /\ q.status \in Qualified
        /\ backtest.pc # "loading"
        /\ contract' = [status |-> q.status, run |-> q.run, manifests |-> chosen]
        /\ backtest' = NoBacktest
        /\ UNCHANGED <<archived, object, job, runs>>

-----------------------------------------------------------------------------
\* The backtest of the asset

\* select_source_summary: the last complete summary of the route in the manifests
\* of the contract.
SelectSourceSummary(chosen, source) ==
    Last({i \in chosen : SourceOf(runs[i].kind) = source /\ runs[i].status \in Complete})

\* A listing-limited asset is reported without performance until it has its rows.
StartBacktest ==
    /\ contract.status \in Qualified /\ backtest.pc # "loading"
    /\ IF contract.status = "QUALIFIED"
       THEN LET i == SelectSourceSummary(contract.manifests, SourceOf(runs[contract.run].kind))
            IN  backtest' = [pc |-> "loading", run |-> i, todo |-> runs[i].partitions, loaded |-> {}]
       ELSE backtest' = [pc |-> "pending"]
    /\ UNCHANGED <<archived, object, job, runs, contract>>

\* Mutant: the digest is not compared.
LoadUnchecked(p) ==
    /\ backtest.pc = "loading" /\ p \in backtest.todo
    /\ \A q \in backtest.todo : First(p.days) <= First(q.days)
    /\ backtest' = [backtest EXCEPT !.todo = @ \ {p}, !.loaded = @ \cup object[p.key]]
    /\ UNCHANGED <<archived, object, job, runs, contract>>

\* load_candles: each object has to have the digest of the summary.
Load(p) ==
    /\ backtest.pc = "loading" /\ p \in backtest.todo
    /\ \A q \in backtest.todo : First(p.days) <= First(q.days)
    /\ backtest' = IF object[p.key] = p.days
                   THEN [backtest EXCEPT !.todo = @ \ {p}, !.loaded = @ \cup object[p.key]]
                   ELSE [pc |-> "failed"]
    /\ UNCHANGED <<archived, object, job, runs, contract>>

\* Too few rows fail the backtest.
FinishLoading ==
    /\ backtest.pc = "loading" /\ backtest.todo = {}
    /\ backtest' = IF Cardinality(backtest.loaded) >= MinimumRows
                   THEN [pc |-> "complete", run |-> backtest.run, loaded |-> backtest.loaded]
                   ELSE [pc |-> "failed"]
    /\ UNCHANGED <<archived, object, job, runs, contract>>

Next ==
    \/ \E d \in Days : PublishFile(d)
    \/ \E j \in Jobs, kind \in GateKinds, request \in Requests : Dispatch(j, kind, request, 0)
    \/ \E j \in Jobs, kind \in YahooKinds, end \in Ends : Dispatch(j, kind, end, 0)
    \/ \E j \in Jobs, end \in Ends : \E base \in Repairable : Dispatch(j, "deep", end, base)
    \/ \E j \in Jobs :
         \/ FetchMonth(j) \/ FetchChart(j) \/ ReuseVerified(j) \/ Put(j) \/ Verify(j)
         \/ Finish(j) \/ FinishChart(j) \/ Retry(j) \/ Fail(j)
    \/ \E chosen \in (SUBSET (1 .. Len(runs))) \ {{}} : Qualify(chosen)
    \/ StartBacktest
    \/ IF backtest.pc = "loading" THEN \E p \in backtest.todo : Load(p) ELSE FALSE
    \/ FinishLoading

Spec == Init /\ [][Next]_vars

-----------------------------------------------------------------------------
\* Properties

\* COMPLETE of a Gate sync, without recorded gaps, means that no day is missing
\* between the first and the last row, in whatever months the syncs found rows.
\* Of Yahoo's rows it says nothing: their gaps are kept as they are.
CompleteIsContiguous ==
    \A i \in 1 .. Len(runs) :
        runs[i].kind \in GateKinds /\ runs[i].status = "COMPLETE" =>
            LET days == Observed(runs[i].partitions)
            IN  \A d \in Days : First(days) <= d /\ d <= Last(days) => d \in days

\* What a backtest reports on is exactly what one run recorded, though syncs
\* replace the objects before and while it loads them.
LoadedIsRecorded ==
    backtest.pc = "complete" => backtest.loaded = Observed(runs[backtest.run].partitions)

\* The rows of a market's earlier name, once a stitching run is among the runs
\* qualified, are not lost to a plain run published after it.
ContinuityKept ==
    contract.status # "none" /\ runs[contract.run].kind \in GateKinds =>
        \A i \in contract.manifests :
            runs[i].kind = "continuity" => runs[contract.run].kind = "continuity"
=============================================================================
