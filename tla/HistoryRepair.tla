--------------------------- MODULE HistoryRepair ---------------------------
(***************************************************************************)
(* The repair of one 15m history route in the research bucket             *)
(* (scripts/backtest/sync_historical_15m_repair_to_hf.py), the run         *)
(* manifest its workflow publishes, the qualification built from it and    *)
(* the loading of qualified candles (scripts/backtest/hf_qualified_data).  *)
(*                                                                         *)
(* The workflow runs one repair at a time; a run can end at any step. What *)
(* it stored stays in the bucket, and the keys of the partitions do not    *)
(* name the requested range, so a later run overwrites them. Qualification *)
(* and loading run in other workflows, at any time.                        *)
(*                                                                         *)
(* Time is counted in days of one year, a month has Days of them.          *)
(***************************************************************************)
EXTENDS Integers, FiniteSets

CONSTANTS
    Providers,      \* the providers a route may have
    Limited,        \* the providers of routes to assets listed too late for a whole history
    Ranges,         \* the ranges an operator asks for, <<from, to>> in days
    MonthCount,     \* months of the year
    Days,           \* days of a month
    FrameCount,     \* timeframes stored: 15m and those derived from it
    Tolerance,      \* days the edges of a history may be off
    MinimumDays,    \* minimum_history_days of a full run
    MinimumRows,    \* rows a timeframe needs to qualify
    MaxRevision,    \* bound: how often the source revises its history
    MaxRuns         \* bound: runs of the workflow

ASSUME ProvidersAssumption ==
    Providers \subseteq {"alpaca_sip", "histdata", "dukascopy"} /\ Limited \subseteq Providers
ASSUME RangesAssumption ==
    Ranges \subseteq {r \in (0 .. MonthCount * Days) \X (0 .. MonthCount * Days) : r[1] < r[2]}
ASSUME SizesAssumption ==
    /\ MonthCount \in Nat \ {0} /\ Days \in Nat \ {0} /\ FrameCount \in Nat \ {0}
    /\ Tolerance \in Nat /\ MinimumDays \in Nat /\ MinimumRows \in Nat
    /\ MaxRevision \in Nat /\ MaxRuns \in Nat

VARIABLES
    provider,       \* of the route
    listing_limited,\* of the route
    revision,       \* the source's current version of the history
    object,         \* partition objects in the bucket
    checkpoint,     \* month and legacy year checkpoints in the bucket
    manifest,       \* the route's manifest in the bucket
    published,      \* route summaries of the published run manifests
    pc, run, unit,  \* the repair: its phase, its arguments, the unit it works on
    fetched, frame, \* the 15m rows of the unit and how many timeframes are stored
    partitions,     \* what it will record
    runs,           \* bound: runs so far
    qualified,      \* the summary the qualification selected
    reader, todo, loaded  \* a backtest that loads the qualified partitions

writer == <<pc, run, unit, fetched, frame, partitions, runs>>
backtest == <<reader, todo, loaded>>
vars == <<provider, listing_limited, revision, object, checkpoint, manifest, published, writer,
          qualified, backtest>>

-----------------------------------------------------------------------------
\* Ranges, rows and partitions

Frames == 1 .. FrameCount
Months == 1 .. MonthCount
Year == 0
Units == {Year} \cup Months
Horizon == MonthCount * Days

None == [none |-> TRUE]

Larger(a, b) == IF a >= b THEN a ELSE b
Smaller(a, b) == IF a <= b THEN a ELSE b

\* The rows of one unit: its edges and the version of the source they are from.
Contents == [first : 0 .. Horizon, last : 0 .. Horizon, revision : 0 .. MaxRevision]
Partitions == [unit : Units, frame : Frames, sha256 : Contents]
Scopes == {"targeted", "full"}
\* What a run validates by, and whether it repairs every route or one that was asked for.
Runs == [from : 0 .. Horizon, to : 0 .. Horizon, force : BOOLEAN, scope : Scopes, discovery : Scopes]
Checkpoints == [from : 0 .. Horizon, to : 0 .. Horizon, sha256 : [Frames -> Contents]]
Summaries == [from : 0 .. Horizon, to : 0 .. Horizon, scope : Scopes,
              partitions : SUBSET Partitions]

\* _month_ranges, _year_ranges: the part of the request a unit stands for.
ChunkFrom(r, u) == IF u = Year THEN r.from ELSE Larger(r.from, (u - 1) * Days)
ChunkTo(r, u) == IF u = Year THEN r.to ELSE Smaller(r.to, u * Days)

FirstMonth(r) == r.from \div Days + 1

LastMonth(r) == (r.to - 1) \div Days + 1

\* What the source may return: at least one valid row.
Answers == {c \in Contents : c.first <= c.last /\ c.revision = revision}

\* fetch_dukascopy_15m, fetch_histdata_15m keep the rows of the range; fetch_alpaca_15m does not look.
AnswersIn(from, to) == {c \in Answers : c.first >= from /\ c.last < to}

Rows(ps, f) ==
    LET days == {d \in 0 .. Horizon : \E p \in ps : p.frame = f /\ d >= p.sha256.first /\ d <= p.sha256.last}
    IN  Cardinality(days)

\* _validate_coverage and _validate_partition_coverage.
CoverageValid(r, ps) ==
    /\ ps # {}
    /\ ~listing_limited => \E q \in ps : q.sha256.first <= r.from + Tolerance
    /\ \E q \in ps : q.sha256.last >= r.to - Tolerance - 1
    /\ r.scope = "full" /\ ~listing_limited => \E p, q \in ps : q.sha256.last - p.sha256.first >= MinimumDays

-----------------------------------------------------------------------------
TypeOK ==
    /\ provider \in Providers /\ listing_limited \in BOOLEAN
    /\ revision \in 0 .. MaxRevision
    /\ object \in [Units -> [Frames -> Contents \cup {None}]]
    /\ checkpoint \in [Units -> Checkpoints \cup {None}]
    /\ manifest \in Summaries \cup {None}
    /\ published \subseteq Summaries
    /\ pc \in {"idle", "year", "month", "fetch", "store", "finish", "publish"}
    /\ run \in Runs \cup {None}
    /\ pc # "idle" => run \in Runs
    /\ unit \in Units
    /\ fetched \in Contents \cup {None}
    /\ pc = "store" => fetched \in Contents
    /\ frame \in 0 .. FrameCount
    /\ partitions \subseteq Partitions
    /\ runs \in 0 .. MaxRuns
    /\ qualified \in Summaries \cup {None}
    /\ reader \in {"idle", "loading", "loaded", "failed"}
    /\ todo \subseteq Partitions
    /\ loaded \subseteq Partitions

\* The bucket may hold what earlier runs stored: the months, or the year as the
\* runs before them stored it, with the checkpoints written after the objects.
Init ==
    /\ provider \in Providers
    /\ listing_limited \in BOOLEAN /\ (listing_limited => provider \in Limited)
    /\ revision = 0
    /\ \E stored \in {{}, {Year}, Months} :
         LET whole == [from |-> 0, to |-> Horizon]
             rows(u) == [first |-> ChunkFrom(whole, u), last |-> ChunkTo(whole, u) - 1, revision |-> 0]
         IN
         /\ Year \in stored => provider = "dukascopy"
         /\ Months = stored => provider # "alpaca_sip"
         /\ object = [u \in Units |-> [f \in Frames |-> IF u \in stored THEN rows(u) ELSE None]]
         /\ checkpoint = [u \in Units |->
                IF u \in stored
                THEN [from |-> ChunkFrom(whole, u), to |-> ChunkTo(whole, u),
                      sha256 |-> [f \in Frames |-> rows(u)]]
                ELSE None]
    /\ manifest = None /\ published = {} /\ qualified = None
    /\ pc = "idle" /\ run = None /\ unit = Year /\ fetched = None /\ frame = 0
    /\ partitions = {} /\ runs = 0
    /\ reader = "idle" /\ todo = {} /\ loaded = {}

\* The provider publishes a corrected or re-adjusted history.
Revise ==
    /\ revision < MaxRevision
    /\ revision' = revision + 1
    /\ UNCHANGED <<provider, listing_limited, object, checkpoint, manifest, published, writer, qualified, backtest>>

-----------------------------------------------------------------------------
\* The repair run

\* The operator may choose what the routes are validated by; auto follows the discovery.
Dispatch(range, force, discovery, choice) ==
    /\ pc = "idle" /\ runs < MaxRuns
    /\ run' = [from |-> range[1], to |-> range[2], force |-> force, discovery |-> discovery,
               scope |-> IF choice = "auto" THEN discovery ELSE choice]
    /\ runs' = runs + 1
    /\ UNCHANGED <<fetched, frame, partitions>>
    /\ pc' = IF provider = "alpaca_sip" THEN "fetch"
             ELSE IF provider = "dukascopy" THEN "year" ELSE "month"
    /\ unit' = IF provider = "histdata" THEN FirstMonth(run') ELSE Year
    /\ UNCHANGED <<provider, listing_limited, revision, object, checkpoint, manifest, published, qualified, backtest>>

\* Mutant: the digests are not compared with the stored objects.
ValidUnread(u) ==
    /\ ~run.force
    /\ checkpoint[u] # None
    /\ checkpoint[u].from = ChunkFrom(run, u)
    /\ checkpoint[u].to = ChunkTo(run, u)

\* Mutant: the range of the checkpoint is not compared with the request.
ValidAnyRange(u) ==
    /\ ~run.force
    /\ checkpoint[u] # None
    /\ \A f \in Frames : object[u][f] = checkpoint[u].sha256[f]

\* A checkpoint may stand for the unit only if it is of the same range and
\* every object it names still has the digest it names.
Valid(u) ==
    /\ ~run.force
    /\ checkpoint[u] # None
    /\ checkpoint[u].from = ChunkFrom(run, u)
    /\ checkpoint[u].to = ChunkTo(run, u)
    /\ \A f \in Frames : object[u][f] = checkpoint[u].sha256[f]

Recorded(u, sha256) == {[unit |-> u, frame |-> f, sha256 |-> sha256[f]] : f \in Frames}

\* The next unit of the loop over months, or the end of it.
Advance ==
    /\ unit' = IF unit # Year /\ unit < LastMonth(run) THEN unit + 1 ELSE unit
    /\ pc' = IF unit # Year /\ unit < LastMonth(run) THEN "month" ELSE "finish"
    /\ fetched' = None /\ frame' = 0

\* The legacy year checkpoint of a dukascopy route.
YearReused ==
    /\ pc = "year" /\ Valid(Year)
    /\ partitions' = Recorded(Year, checkpoint[Year].sha256)
    /\ Advance
    /\ UNCHANGED <<provider, listing_limited, revision, object, checkpoint, manifest, published, run, runs, qualified, backtest>>

YearMissed ==
    /\ pc = "year" /\ ~Valid(Year)
    /\ pc' = "month" /\ unit' = FirstMonth(run)
    /\ UNCHANGED <<provider, listing_limited, revision, object, checkpoint, manifest, published, run, runs, fetched, frame,
                   partitions, qualified, backtest>>

MonthReused ==
    /\ pc = "month" /\ Valid(unit)
    /\ partitions' = partitions \cup Recorded(unit, checkpoint[unit].sha256)
    /\ Advance
    /\ UNCHANGED <<provider, listing_limited, revision, object, checkpoint, manifest, published, run, runs, qualified, backtest>>

MonthMissed ==
    /\ pc = "month" /\ ~Valid(unit)
    /\ pc' = "fetch"
    /\ UNCHANGED <<provider, listing_limited, revision, object, checkpoint, manifest, published, run, runs, unit, fetched, frame,
                   partitions, qualified, backtest>>

Fetch(c) ==
    /\ fetched' = c
    /\ frame' = 0
    /\ pc' = "store"
    /\ UNCHANGED <<provider, listing_limited, revision, object, checkpoint, manifest, published, run, runs, unit, partitions,
                   qualified, backtest>>

\* fetch_alpaca_15m: the whole range, validated before anything is stored.
FetchWhole ==
    /\ pc = "fetch" /\ unit = Year
    /\ \E c \in Answers :
         /\ CoverageValid(run, Recorded(Year, [f \in Frames |-> c]))
         /\ Fetch(c)

\* fetch_dukascopy_15m, fetch_histdata_15m: one month, every day of it or none.
FetchMonth ==
    /\ pc = "fetch" /\ unit # Year
    /\ \E c \in AnswersIn(ChunkFrom(run, unit), ChunkTo(run, unit)) : Fetch(c)

\* Mutant: an object that is there is kept and recorded, whatever it holds.
StoreKeepsExisting ==
    /\ pc = "store" /\ frame < FrameCount
    /\ object' = IF object[unit][frame + 1] # None THEN object
                 ELSE [object EXCEPT ![unit][frame + 1] = fetched]
    /\ frame' = frame + 1
    /\ partitions' = partitions \cup
            {[unit |-> unit, frame |-> frame + 1, sha256 |-> object'[unit][frame + 1]]}
    /\ UNCHANGED <<provider, listing_limited, revision, checkpoint, manifest, published, pc, run, runs, unit, fetched,
                   qualified, backtest>>

\* _store_partition: uploads unless the object is there with these bytes, and
\* records the digest after it was read back.
Store ==
    /\ pc = "store" /\ frame < FrameCount
    /\ object' = [object EXCEPT ![unit][frame + 1] = fetched]
    /\ frame' = frame + 1
    /\ partitions' = partitions \cup {[unit |-> unit, frame |-> frame + 1, sha256 |-> fetched]}
    /\ UNCHANGED <<provider, listing_limited, revision, checkpoint, manifest, published, pc, run, runs, unit, fetched,
                   qualified, backtest>>

\* Mutant: the checkpoint is written when the 15m partition is stored.
WriteCheckpointEarly ==
    /\ pc = "store" /\ frame >= 1
    /\ checkpoint' = IF unit = Year THEN checkpoint
                     ELSE [checkpoint EXCEPT ![unit] =
                            [from |-> ChunkFrom(run, unit), to |-> ChunkTo(run, unit),
                             sha256 |-> [f \in Frames |-> fetched]]]
    /\ Advance
    /\ UNCHANGED <<provider, listing_limited, revision, object, manifest, published, run, runs, partitions, qualified, backtest>>

\* After the last timeframe: a month writes its checkpoint, the whole range has none.
WriteCheckpoint ==
    /\ pc = "store" /\ frame = FrameCount
    /\ checkpoint' = IF unit = Year THEN checkpoint
                     ELSE [checkpoint EXCEPT ![unit] =
                            [from |-> ChunkFrom(run, unit), to |-> ChunkTo(run, unit),
                             sha256 |-> [f \in Frames |-> fetched]]]
    /\ Advance
    /\ UNCHANGED <<provider, listing_limited, revision, object, manifest, published, run, runs, partitions, qualified, backtest>>

Summary == [from |-> run.from, to |-> run.to, scope |-> run.scope, partitions |-> partitions]

\* The coverage is validated and the route's manifest written.
Finish ==
    /\ pc = "finish"
    /\ unit # Year => CoverageValid(run, partitions)
    /\ manifest' = Summary
    /\ pc' = "publish"
    /\ UNCHANGED <<provider, listing_limited, revision, object, checkpoint, published, run, runs, unit, fetched, frame,
                   partitions, qualified, backtest>>

\* The job ends; what it knew is gone with it.
Ends ==
    /\ pc' = "idle" /\ run' = None /\ unit' = Year
    /\ fetched' = None /\ frame' = 0 /\ partitions' = {}

\* The summarize job: only a run over every route is published where qualification looks.
Publish ==
    /\ pc = "publish"
    /\ published' = IF run.discovery = "full" THEN published \cup {Summary} ELSE published
    /\ Ends
    /\ UNCHANGED <<provider, listing_limited, revision, object, checkpoint, manifest, runs, qualified, backtest>>

\* An exception (no rows, a permanent error, the conflict policy, a coverage
\* check, the bucket) or the end of the job at any step: the run has no summary.
Abort ==
    /\ pc # "idle"
    /\ Ends
    /\ UNCHANGED <<provider, listing_limited, revision, object, checkpoint, manifest, published, runs, qualified, backtest>>

-----------------------------------------------------------------------------
\* Qualification and the backtest that loads what was qualified

Ready(s) == \A f \in Frames : Rows(s.partitions, f) >= MinimumRows

\* The operator names a run; its summary is selected when it is ready.
Qualify(s) ==
    /\ s \in published /\ Ready(s)
    /\ reader # "loading"
    /\ qualified' = s
    /\ reader' = "idle" /\ todo' = {} /\ loaded' = {}
    /\ UNCHANGED <<provider, listing_limited, revision, object, checkpoint, manifest, published, writer>>

StartLoading ==
    /\ qualified # None /\ reader # "loading"
    /\ reader' = "loading"
    /\ todo' = qualified.partitions
    /\ loaded' = {}
    /\ UNCHANGED <<provider, listing_limited, revision, object, checkpoint, manifest, published, writer, qualified>>

\* The order of the summary: by month, then by timeframe.
Before(p, q) == p.unit < q.unit \/ (p.unit = q.unit /\ p.frame <= q.frame)

\* Mutant: the digest is not compared.
DownloadUnchecked(p) ==
    /\ reader = "loading" /\ p \in todo
    /\ \A q \in todo : Before(p, q)
    /\ object[p.unit][p.frame] # None
    /\ todo' = todo \ {p}
    /\ loaded' = loaded \cup {[p EXCEPT !.sha256 = object[p.unit][p.frame]]}
    /\ reader' = IF todo = {p} THEN "loaded" ELSE "loading"
    /\ UNCHANGED <<provider, listing_limited, revision, object, checkpoint, manifest, published, writer, qualified>>

\* load_candles: one download, its digest compared with the summary's.
Download(p) ==
    /\ reader = "loading" /\ p \in todo
    /\ \A q \in todo : Before(p, q)
    /\ IF object[p.unit][p.frame] = p.sha256
       THEN /\ todo' = todo \ {p}
            /\ loaded' = loaded \cup {[p EXCEPT !.sha256 = object[p.unit][p.frame]]}
            /\ reader' = IF todo = {p} THEN "loaded" ELSE "loading"
       ELSE /\ reader' = "failed" /\ todo' = {} /\ loaded' = {}
    /\ UNCHANGED <<provider, listing_limited, revision, object, checkpoint, manifest, published, writer, qualified>>

Next ==
    \/ Revise
    \/ \E range \in Ranges, force \in BOOLEAN, discovery \in Scopes, choice \in Scopes \cup {"auto"} :
          Dispatch(range, force, discovery, choice)
    \/ YearReused \/ YearMissed \/ MonthReused \/ MonthMissed
    \/ FetchWhole \/ FetchMonth \/ Store \/ WriteCheckpoint \/ Finish \/ Publish \/ Abort
    \/ \E s \in published : Qualify(s)
    \/ StartLoading
    \/ \E p \in todo : Download(p)

Spec == Init /\ [][Next]_vars

-----------------------------------------------------------------------------
\* Properties

\* When a manifest says COMPLETE, each partition it records is in the bucket
\* with the digest it records, whether it was stored or taken from a checkpoint.
ManifestVerified ==
    [][manifest' # manifest =>
         \A p \in manifest'.partitions : object'[p.unit][p.frame] = p.sha256]_vars

\* A checkpoint is written only after every timeframe it names was stored,
\* so a crash before it leaves none that vouches for a half-written month.
CheckpointVerified ==
    [][\A u \in Units : checkpoint'[u] # checkpoint[u] =>
         \A f \in Frames : object'[u][f] = checkpoint'[u].sha256[f]]_vars

\* All timeframes of a unit in a manifest come from one fetch of it, whatever
\* crashed or forced runs left behind.
OneFetchPerUnit ==
    manifest # None =>
        \A p, q \in manifest.partitions : p.unit = q.unit => p.sha256 = q.sha256

\* A manifest speaks of the request it answers: the partition of a month lies
\* in the request, and no month of the request is missing or answered twice.
\* (Of a whole range in one answer the code keeps what the provider sent.)
ManifestAnswersRequest ==
    manifest # None =>
        /\ \A p \in manifest.partitions : p.unit # Year =>
             p.sha256.first >= ChunkFrom(manifest, p.unit) /\ p.sha256.last < ChunkTo(manifest, p.unit)
        /\ {p.unit : p \in manifest.partitions} \in
             {{Year}, FirstMonth(manifest) .. LastMonth(manifest)}

\* What a backtest has loaded is what was qualified, even when repairs replace
\* objects while it downloads them.
LoadedIsQualified ==
    /\ reader = "loaded" => loaded = qualified.partitions
    /\ reader = "loading" => loaded \cup todo = qualified.partitions
=============================================================================
