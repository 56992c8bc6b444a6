# Verification of Trading System V3

TLA+ models of the trading system, TLC configurations that check them on small
instances, and TLAPS proofs of what matters most for every value of the
constants. Paths below are relative to the repository.

## 1. The system

A Python service reads market data, evaluates a strategy over it, and trades on
PAPER: orders, fills, positions, equity and the journal live in one SQLite file.
Around it stand a read-only market scan with its own candle cache, shadow workers
that accumulate evidence, and a boundary for live orders whose venue connector is
not in the repository. A large offline part collects histories into archives and
research buckets, backtests the strategy over them, and qualifies it in phases
that hand each other artifacts.

| Component | State | Operations and interactions | What is hard | What makes it correct |
|---|---|---|---|---|
| PAPER runtime cycle (`app/application/runtime_cycle.py`, `composition.py`, `app/runtime`) | cycle audits, the selection queue, the recovery flag, `Account.equity` | `run(cycle_id)`: recover, manage open positions, settle exits, check pending orders, pipeline, submit the selection, audit | many transactions per cycle, an exception or a crash between any two, cycle ids run again | a completed cycle is final, the account follows the database |
| Order execution (`app/execution`) | orders, fills, positions, pending_orders | `submit`, `PendingOrderManager.check`, `apply_fill` | INSERT OR REPLACE of positions, a repeated fill, a result without its pending row | result, fill and position agree, a closed position is never reopened |
| Settlement, ledger, journal (`app/position/settlement.py`, `app/journal`) | account_state, ledger, journal | `settle` | four tables in one transaction, replay after a crash | the ledger explains the equity, each position is settled once |
| Recovery (`app/recovery`) | recovery results | reconciliation at the start of a cycle | partial writes of an earlier process | nothing to repair, or repaired once |
| Strategy and risk (`app/strategy`, `app/market`, `app/risk`, `app/portfolio`, the pipelines of `app/application`) | the candidates of a cycle, reserved and open risk | signal, context, risk and portfolio gates, selection, order preparation | several approvals against one snapshot, rounding at a limit, a fill away from the market | aggregate risk and the loss at a stop stay within their limits |
| Shadow workers (`app/shadow_operation`) | lease row, hash chain | `run_once`, `run_forever`, `acquire_lease`, `append`, `verify_chain` | expiring lease, clock read before the lock, killed workers | exclusion while a lease lasts, a chain that verifies, progress |
| Live boundary (`app/live_operation`) | breaker, incidents, submitted ids, readiness | `evaluate_readiness`, `submit`, `trip`, incident calls | connector that raises after acceptance, memory lost on restart, readiness evaluated earlier | no duplicate of an order id the gateway remembers, nothing past a critical incident the readiness could have seen |
| Incremental scan (`app/data/incremental_candle_cache.py`, `adaptive_failover.py`, `app/application/budgeted_market_scan.py`, `app/universe`) | candle store, lock per series, circuits of the routes, deadline | `load`, `run` with a retry pass, `resolve` | threads that outlive their scan, slow requests, an interval that ends in between | closed candles stay closed, a verdict stands, a route that is back is used |
| Data platform and stream (`app/data/platform.py`, `provider_router.py`, `cache.py`, `streaming.py`) | circuits, cache, history | `get_candles` with failover, candle events | circuits shared by threads, cache and history that need no provider | what is served is fresh |
| Locked datasets (`app/data/historical_backfill.py`, `gateio_deals_archive.py`, `locked_*`, `research_object_*`) | checkpoints, shards, manifests, objects | collect, merge, seal, publish, restore | a repeated or interrupted job, answers with a candle in progress, no conditional put | what is sealed is the history, what is committed is complete |
| Research histories (`scripts/backtest/sync_*`, `build_global_history_qualification*`, `hf_qualified_data.py`) | partitions, checkpoints, run manifests, the qualification | sync by route, qualify a choice of runs, load | two workflows on the same keys, objects replaced after qualification, a source that is revised | what a backtest loads is what was qualified |
| Backtest (`app/backtest/engine.py`, `portfolio.py`, `incremental_snapshots.py`) | open trades, equity, cursors, kept windows | the bar loops | order of exits and entries in a bar, look-ahead, shared budgets | no decision sees a later bar, equity adds up |
| Qualification (`app/backtest/*qualification*`, `scripts/backtest/run_phase_48_*`) | plans, shards, checkpoints, reports | phases 48.2 to 48.9 | resumed runs, data and rules that change between phases, shards that die | one chain of evidence over sealed data |
| API (`interfaces/api`) | evaluation cache, rate-limit windows | read endpoints | windows shared by threads | limits hold |

The remaining parts (context, assistant, analytics, health and reporting, research
and strategy validation, deployment descriptions, the Android client) keep no state of
their own that survives a call, or only compute on what they are given;
`PROJECT.json` lists each with its reason.

The components meet in the SQLite file (runtime, execution, settlement and
recovery share it and its transactions), in the in-memory account, in the bucket
(syncs write it, qualification and backtests read it), in artifacts of workflow
runs (each phase downloads those of earlier ones), and in call results. Each
model takes what its neighbours decide as a free choice over what they can
decide: the runtime takes any selection and any outcome of a price comparison,
the phases take any data of an asset.

## 2. Modules

| Module | Models | Its state in the code |
|---|---|---|
| `PaperRuntime` | `RuntimeCycleOrchestrator.run`, `PaperTradingRuntime.submit`, `PendingOrderManager.check`, `AtomicExecutionService`, `PositionSettlementService.settle`, `RecoveryReconciler`, restart | `order`, `fill`, `position`, `pending`, `equity`, `ledger`, `journal`, `audit` are the tables; `pc`, `cycle`, `account`, `recovered`, `closing`, `checking`, `queue`, `batch`, `current` are the process |
| `TradeBook` | what the runtime promises: the life of an order, the P&L booked for it, the balance; no process, so nothing to crash | abstract |
| `PaperRuntimeBook` | the refinement mapping of `PaperRuntime` to `TradeBook` | - |
| `MarketStructure`, `Indicators` | swings, structure, trend, regime, liquidity and indicators of a series of candles (`app/market`) | functions |
| `Strategy` | the gates, the target and the quality of a signal (`app/strategy`) | functions |
| `Opportunities` | `OpportunityPipeline`, `assess_risk`, `assess_portfolio`, `prepare_order`, with the callers that select and the cycle that submits, fills and closes | positions, resting orders and equity; the result a caller holds |
| `IncrementalSnapshots` | the windows, sums and swings the backtest keeps instead of the series | a record per symbol and timeframe |
| `BacktestEngine` | the bar loops of `engine.py` and `portfolio.py` with sizing, costs and budgets | equity, open and closed trades, cursors |
| `ShadowOperation` | `PersistentShadowService` and `ShadowEvidenceRepository` with several workers | `lease`, `evidence` are the tables; `pc`, `age`, `rest`, `stop` the workers |
| `LiveOperation` | `LiveTradingRuntime`, `LiveExecutionGateway`, `LiveTradingCircuitBreaker`, `IncidentManager` | `breaker`, `incident`, `submitted`, `readiness` are memory; `ready`, `synced`, `venue` the outside |
| `IncrementalCandles` | `IncrementalCandleService.load` of one series by several threads, over `SQLiteCandleStore` and the routes | `store` is the table, `lock` the lock of the series, the rest is local to a call |
| `MarketScan` | `BudgetedMarketScanner.run`, `StormDrivenUniverseResolver`, `AdaptiveSourceHealth` | the pass, the deadline `left`, the threads, the results, the circuit of each route |
| `MarketPlatform` | `ProductionMarketDataPlatform.get_candles`, `ProviderRouter`, `CircuitBreaker`, `CandleStreamIngestor` | cache, history, circuits, the call of each thread |
| `LockedArchive` | `historical_backfill`, `gateio_deals_archive`, `locked_dataset_merge`, `locked_source_object_store`, `research_object_store`, `research_object_restore` | directories and checkpoints of the jobs, the object store, a `pc` for each job |
| `HistoryRepair` | `sync_historical_15m_repair_to_hf`, the manifest its workflow publishes, qualification and loading | the bucket, the checkpoint, the run in progress, published runs, a reader |
| `HistorySources` | what the syncs make of the rows of a provider: parsing, conflicts, quarantine, longer timeframes, retries, discovery | functions |
| `MarketHistory` | the Gate, continuity and Yahoo syncs of one market, the global qualification, the loader of the backtest | the bucket, the jobs, published runs, what qualified, what was loaded |
| `Phase48` | the workflows of phases 48.2 to 48.7 with shards, checkpoints and resumed runs | the artifacts (evidence, never changed), the run in progress, data and rules that change |
| `Phase48Statistics` | splits and windows, adverse orders, verdicts on parameters and regimes | functions |
| `Qualification` | the batch of runs, the cost stress and the decision of phase 48.9 | functions |
| `...Proofs` | theorems about the modules they extend (section 4 says which) | - |
| `Sums` | lemmas about sums over finite sets: the open risk, the booked profit | - |
| `MC...` | an instance for TLC: sets, symmetry, assumptions over bounded inputs | - |

A step is what one transaction or one call makes visible at once. In
`PaperRuntime` a step ends at a commit, so `Crash` between two steps is a crash
between two transactions, and `StepFails` an exception in any of them; the
archives and syncs step from object to object, the phases from artifact to
artifact. Definitions marked *Mutant* are plausible wrong versions of the
definition after them; no specification uses them. They are there to show that
each property can fail.

`ASSUME`s in MC modules check the functional modules (`HistorySources`,
`Phase48Statistics`, `Qualification`, `IncrementalSnapshots`, `MarketStructure`)
against a definition or a law over all inputs of a small size; TLC evaluates them
at the start of `history_repair`, `phase48` and `opportunities`.

### Abstractions

- **Runtime.** Prices, quantities and timestamps are the outcome of the comparison
  made on them, chosen freely; the P&L of an exit is any member of `PnLs`.
  `CLOSED` stands for `STOPPED_OUT` too: no guard tells them apart. A selection is
  a set, so every order of a batch is covered. Two FILLED results of one order
  are never equal, because each carries its own `filled_at`; a repeated fill is a
  conflict, not a replay.
- **Shadow.** Clocks agree and time is relative to the present. SHA-256 is
  injective, here and everywhere: a fingerprint is what it is taken of.
- **Live.** The live risk controller and the venue's answers are free choices: it
  takes an order and says so, takes it and says CANCELLED or raises, or refuses
  it. `cancelled` and `unknown` keep the ids it took that way, and `unseen` the
  critical incidents since a readiness was evaluated, for the properties.
- **Candles and scan.** Time is counted in intervals of the series; a candle is
  `final` or `partial` by whether it was closed when it was asked for. A route's
  answer has no hole of its own (markets with sessions have holes that are no
  error). In `MarketScan` an evaluation loads once, hits of the cache are not told
  apart, and time passes only while every thread waits: computing takes none.
- **Platform.** One series and timeframe; a series maps the opening of a candle
  to the moment up to which its trades are in it. Live prices and trade events
  are left out.
- **Locked archive.** A candle is the moment up to which it holds the trades of
  its interval, so one read before it closed differs from the same one read
  later. A bundle's list of checksums is the content it lists. Jobs have the same
  arguments; a source manifest may be replaced by
  another of the same content. A collection over REST is a chain of requests, each
  starting after the last candle of the one before.
- **Research histories.** `HistoryRepair` and `MarketHistory` count time in days
  and treat a month of a route as one object for each timeframe (`MarketHistory`:
  one timeframe, since the others are resampled from the same rows). A run of the
  repair has the range it was asked for and the one discovery gave it, which a
  choice of `auto` takes; the answers of a route that is not cut to the request
  (Alpaca) may lie outside it, and a listing that began later is exempt from
  coverage (`listing_limited`).
  `HistorySources` takes rows as records with small integers; the local time of
  the exchange has no daylight saving change inside a file; adjusted closes,
  scaling, addresses and tokens are left out.
- **Phases.** One job of one phase runs at a time, since the phases only share
  finished artifacts. A shard fails whole, with its asset, or in single experiments
  (`Fragile`). Replays and noise go asset by asset and shard by shard of a ledger;
  smoke runs take the first `SmokeAssets` assets (eight in the code). Paths
  computed by different rules are assumed to differ. An evaluation without trades
  conflicts with nothing. The verdicts of 48.6 and 48.7 are free choices there;
  their formulas are in `Phase48Statistics`.
- **Qualification.** Expectancies and percentages are integers, the bound of the
  interval is compared squared, fingerprints and rendering are left out.
- **Backtest.** Money and quantities in whole units; four kinds of bars; the
  strategy is any signal. The curve has a point after each bar and, at the end of a
  test, after each symbol. What the cursor may show it is checked; what it
  computes from it is `IncrementalSnapshots`. Counters of refusals are left out; the
  error at an equity of zero is `BudgetRaises`.
- **Opportunities.** LIMIT orders only. A price counts units of the last digit
  that is kept; stop and target are rounded to it, half even, and so is the
  reward ratio, to one part in `Scale`, as the quotient of two `Decimal`s is to 28
  digits. The snapshots are literals in
  the MC module, with an `ASSUME` that the candles there give them. The text of
  the evidence, contract errors, minimum notional and the contract's leverage are
  left out; an order is prepared again at most once.
- **Indicators.** Integer arithmetic, division rounds down, the variance instead
  of its root.

## 3. What is checked

| Run | Instance | What it shows |
|---|---|---|
| `paper` | one LIMIT, one MARKET order, two cycle ids, P&L in {-2, 1}, equity 3 | the inductive invariant, `ExecutionConsistent`, `LedgerChain`, `SettledOnce`, `NeverReopened`; the runtime implements `TradeBook`; a cycle that runs ends |
| `shadow` | two workers, interval 2, lease 3, lock wait 1, three reports, two failures | overlapping runs have outlived a lease, the chain verifies, an unexpired lease stays, reports accumulate |
| `live` | two orders, two incidents (one critical), two callers, two sends of an id | an id reaches the venue twice only if the gateway did not remember it: the connector raised or said CANCELLED, or the process started again; past an active critical incident it passes only with a readiness from before the incident |
| `candles` | two threads, six intervals, window 4, minimum 2, routes that lag two intervals and start anywhere | a final candle stays final; a refresh reports the gap it makes |
| `market_scan` | two assets, two routes (one shared, one of its own), two workers, two attempts, threshold 2, cool-down 2, deadline 1 | neither a retry nor the deadline replaces a signal or the finding that there is none; a route that stays up serves its asset again |
| `market_stale` (violation) | two callers, providers with and without sessions, the stream, two candles asked for, age 1 | stored candles are served whatever their age |
| `opportunities` | three symbols (a leveraged crypto pair, a correlated one on the Storm venue, a leveraged contract), two selected at most | the aggregate limit holds for careful callers; the loss at a Storm stop is bounded |
| `backtest` | two correlated symbols, four kinds of bars, three signals, missing longer candles, a test that starts late, both loops | equity adds up; a decision uses exactly the candles complete by then; stops are kept; shared budgets hold |
| `locked_archive` | two jobs, two timeframes, an archive that joins at 4 of 12, answers at 9, 11 and 12, one mishap | what is sealed after the range has ended is the history; a committed manifest has all its objects, a bundle's checksums included; a sealed dataset stays |
| `history_repair` | three ranges over two months of two days, two timeframes, a route that is not cut to the request, one revision of the source, two runs | a unit is from one fetch; manifests answer their request (month by month); checkpoints and manifests are verified; what is loaded was qualified |
| `market_history` | two months of two days, a rename on the second day, two jobs, two published runs | a Gate run that says `complete` has no hole; what is loaded was recorded; the rows before a rename are not lost |
| `phase48` | two assets that trade and one that waits, six experiments (three seeds, locked and walk-forward) on two shards, three runs of 48.2 and 48.3, one detour | phases compute on sealed data; no leakage into the locked split; a passing matrix is complete; one chain behind 48.7 |

The safety properties that are not listed (`ClosingIsOpen`, `TamperingFails`, the
type invariants of the proofs, ...) are parts of a checked invariant or lemmas of a theorem.

**Bounds.** Orders, cycles, workers, threads and jobs interact in pairs: a fill
and its repetition, a holder of a lease and one that waits, a load and a slower
one, a sync and the one that overwrites it. Two of each give every such pair. In
the other dimensions:

- `paper`: two cycle ids give a completed or failed one and a running one; each
  may run any number of times until it completes. P&L -2 with equity 3 makes the
  second loss a refused one. Nothing else is cut off.
- `shadow`: a lease can expire during a run, during a wait for the lock and
  between two wake-ups; three reports are the shortest chain with a row in the
  middle (`MaxEvidence`, `MaxFailures`).
- `live`, `candles`: `MaxSent` and `MaxNow`, `MaxLag`. Six intervals reach a stop
  longer than the window of four.
- `market_scan`: nothing is cut off; the deadline, the threshold and the cool-down
  are small enough for a thread to outlive two scans and a circuit to open,
  expire and open again.
- `opportunities`: budgets of 2, 3, 2, 15 and 10 percent instead of 1, 4, 2, 50
  and 10, so that two orders fill them; windows of 8 candles instead of 20;
  `EquityBound`; and the constraint `Careful`, since the property says nothing of
  what follows a careless selection.
- `backtest`: four to six bars, `MaxSignals`; long enough for two trades of one
  symbol and for a longer timeframe to catch up.
- `locked_archive`: `MaxMishaps` limits what goes wrong in a behaviour, and the
  action constraint `OrderOfJobs` leaves out interleavings of steps that commute
  (a job in its own directories) and the second of two early jobs.
- `history_repair`, `market_history`: `MaxRuns`, `MaxRevision`; `Limited` names the
  route whose listings may begin late. Two months are a
  first and a last one; a range that ends inside a month, one that is that month,
  and the whole.
- `phase48`: `MaxRuns` bounds the runs of 48.2 and 48.3: a locked evaluation, a
  matrix and one resumed from it; `MaxDetours` the changes of data,
  qualification and rules and the smoke runs. `Fragile` is one experiment that may
  fail alone, `SmokeAssets` one asset of a smoke run. `FewSummaries` keeps at most
  seven summaries: two matrices of one evaluation and the whole chain behind one.

**Deadlock** is checked in `paper`, `shadow`, `live`, `candles` and `market_scan`.
The others end: a backtest after its last bar, jobs when all are done, bounded
runs at their bound.

**Fairness.** `CycleEnds` assumes that a cycle that runs keeps running
(`WF(CycleStep)`: sequential code with no waits); a restart, a conflicting
resubmission, an exception and a crash are never owed. `EvidenceAccumulates`
assumes that time passes, that a running worker runs on, and that a failed worker
is restarted (`Restart=` of `deploy/shadow-worker.service`); nobody owes the start
of a stopped worker. `RouteReturns` assumes that the threads and the scan run on,
that scans are started again, and that the clock advances (`SF(Tick)`, since
`Tick` is disabled while a thread computes); calls answer or fail because every
HTTP request has a timeout of ten seconds.

## 4. What is proved

TLAPS checks these, for all values of the constants that the named assumptions
allow:

- **`PaperRuntimeProofs`** (any orders, cycles and P&Ls): `Invariance`,
  `TypeCorrect`, `ExecutionAtomic`, `LedgerExplainsEquity`,
  `SettlementExactlyOnce`, `AccountFollowsDatabase`, `PendingRowsBacked`,
  `ClosedForGood`, `EquityMovesBySettlement`, `CompletedCyclesFinal`, and
  `RuntimeImplementsBook`: every step of the runtime is a step of `TradeBook` or a
  stutter. The safety properties are not inductive alone. `LedgerChain` needs
  `AccountInSync`, since `settle` computes the new equity from the account;
  `SettledOnce` needs `ClosingIsOpen`, since an exit is decided in one step and
  settled in a later one; `NeverReopened` needs `InProgress`, which ties the order
  in hand between two commits (and the orders still to check) to the row the
  first commit wrote. `Inv` is their conjunction.
- **`OperationProofs`**, the shadow workers (any workers and schedules):
  `ShadowTypeCorrect`, `LeaseIsHeld`, `LeaseExcludes`, `ChainVerifies`,
  `UnexpiredLeaseStays`. `LeaseHeld` is proved first, with the types; exclusion
  follows, since two runs younger than the lease would both own it. The live
  boundary (any orders, incidents and callers): `LiveTypeCorrect`,
  `OrdersPassUnseenOnly`, `NoRememberedDuplicate`: an id the venue took is remembered or among those that
  left no trace (raised, cancelled, or of an earlier process), so one taken twice is
  among the latter; and an active readiness looked when no critical incident was
  active but those that came since (`ReadinessLooked`).
- **`ScanProofs`**, the candle cache (any loaders, window and lag):
  `CandleInvariance`, `CandleTypeCorrect`, `FinalCandlesStay`, `GapsAreReported`.
  The invariant says that a final candle is closed, that no answer is from the future, and that an
  answer that waits to be stored knows every stored final candle it covers as
  final. The last part is what the lock is for: no other answer is stored between
  a request and its upsert. For the gaps `LoadsKeep` adds that what is stored at
  the end of a load is what it found and one unbroken answer; a hole in the window
  is then a hole between the two, which the check sees, unless the answer ends
  before the cached candles start or does not fill the window after a long stop.
  The windows the backtest keeps (any pivot, windows and series):
  `ConfirmedSwingsStay`, `PushMatches`, `KeptStructureIsExact`: pushing a candle
  keeps the window the end of the series and the kept swings exactly its swings.
  That a whole series of pushes does so is induction over the series, which is
  left to `IncrementalIsExact` (every series of up to seven candles of three
  shapes).
  The opportunities (any symbols, snapshots, limits and leverage):
  `OpportunityInvariance`, `AggregateIsBounded`, `StormLossIsBounded`. `WithinAggregate` is not inductive: a candidate is
  assessed in one step, selected in another and filled in a third. `ResultHasRoom`
  and `SelectionHasRoom` say that the candidate of a fresh result, and then the
  selected one, still fits beside the risk of positions and resting orders; with
  the types they make it inductive. The loss at a Storm stop follows from what an
  order was assessed for, which its fill does not change.
- **`HistoryRepairProofs`** (any calendar, ranges, timeframes and runs):
  `TypeCorrect`, `ManifestsAreUniform`, `ManifestsAnswer`, `ManifestsAreVerified`,
  `CheckpointsAreVerified`, `BacktestsLoadTheQualified`. The inductive invariant
  `Sound` adds to the types what a checkpoint in hand says of the bucket
  (`CheckpointSound`), how far a run has come (`Progress`), what it has recorded
  (`RecordSound`), that stored objects and checkpoints agree (`StoreSound`), and
  that published manifests answer their request (`ManifestSound`). The uniformity
  of a manifest needs all of them: a resumed run takes what earlier runs left. And
  the rows of any archive: `ArchiveKeepsAllClean`, `ArchiveIsUnambiguous`,
  `OverlapsAreUnambiguous`: the order of repeated lines never decides a price, and
  no candle has a minute with two. And the budgeted scan of `MarketScan` (any
  markets, routes, workers, attempts and deadline): `VerdictsStand`, since a market
  that is evaluated, or picked for it, has no verdict yet (`ScanInv`).
- **`MarketHistoryProofs`** (any calendar, renaming day, ranges and files):
  `Invariance`, `CompleteHasNoGap`, `BacktestLoadsItsRun`,
  `StitchedHistoryIsKept`. The invariant is about the rows and keys of running
  syncs, what a contract names, and that what a backtest has loaded and has yet to
  load make up one run's rows. `CompleteHasNoGap` is a counting argument: a run is
  complete when its rows are as many as the days between the first and the last,
  and a set of days of that size leaves none out.
- **`Phase48Proofs`**, the phases (any assets, rows, seeds, windows, shards and
  runs): `ArtifactsTraced`, `DataStaysSealed`, `LockedSplitStaysUnseen`,
  `PassingMatrixIsComplete`, `EvidenceIsOneChain`. The
  invariant says what each artifact was made from and that the records of one run
  number rest on one locked evaluation (`CheckpointInv`, `EvidenceInv`), and what
  the running workflow has done (`JobInv`). That a chain is one chain, though 48.6
  and 48.7 are given the artifacts of any two runs, follows because equal results
  name their source.
  The gates behind them (any batch, policy and evidence): `BatchPassesFinalGate`,
  `OutOfSampleNeverQualifies`, `FinalNeedsEveryPhase`.
  The locked dataset they read (any jobs, timeframes, range, length of a request
  and moments; the range is aligned to every timeframe and the archive ends inside
  it): `ArchiveInvariance`, `MergeIsHistory`, `CommitIsLast`, `SealsAreKept`. The
  requests of a timeframe that have checkpoints are the first ones of its chain
  (`CollectedOK`), so a repeated collection writes again what is there, and what
  is sealed stays. A prefix in the store binds the content of everything under
  it, and the manifest is put when the rest is there (`PublicationOK`, `ObjectOK`).
  An answer after the end of the range is full, so its requests cover the range
  and a valid dataset has no gap.
- **`BacktestProofs`** (any symbols, calendars, bars, costs and signals):
  `Invariance`, `MoneyIsConserved`, `DecisionsLookNowhereAhead`,
  `StopsBeforeProfits`, `BudgetsAreShared`. The invariant is the four properties
  with the types, the dates of trades (`Dated`) and a cursor that has pushed only
  complete candles (`CursorBehind`). The loops over symbols and trades are folds; lemmas reduce
  a fold to its steps, and `Sums` a sum over trades to the one that changes.

The assumptions are named in the modules (`ASSUME ...Assumption`), and TLC checks
them on every run. `Invariance` and its namesakes are what the other theorems of a
section follow from.

**Only model-checked**: liveness (`CycleEnds`, `EvidenceAccumulates`,
`RouteReturns`), which is beyond the prover; the violation of `market_stale`; and
the laws that `ASSUME`s of the MC modules check over small inputs, most of them
inductions over data. Every other property of a passing run is a theorem.

## 5. Where code and documents differ

`market_stale` refutes, with `ServedIsFresh`, that stale data does not reach the
strategy (`docs/architecture/17_data_quality_reliability.md:60`): `get_candles`
returns cached or stored candles as soon as there are enough of them
(`app/data/platform.py:59-74`); it is the finding in `PROJECT.json`.

The models also have the following behaviours. No run is spent on them; the
properties that are checked are stated so that they allow them, and say so.

- A pending order whose fill is durable cannot be worked again safely
  (`docs/architecture/12_runtime_cycle.md:37`): the second result differs in its
  time and conflicts, so every later cycle fails.
- An order whose process stopped between its request and its result stays PENDING:
  each later submission of it raises and fails the cycle (`paper_runtime.py:40`).
- A collection whose range ends in the future seals its last candle as far as it
  got: no code compares the end with the clock (`historical_backfill.py`).
- An accepted LIMIT order may not survive a restart
  (`docs/architecture/16_paper_trading_runtime.md:33`), after a crash between the
  result and the pending row (`execution/paper_runtime.py:55`).
- A selection is lost when one of its orders raises (`runtime_cycle.py:147`), and
  one position without a live price fails the cycle before any exit
  (`position/manager.py:110`).
- The aggregate limit of 4% (`README.md:253`) is not kept when two candidates of
  one result are selected, or one of a result computed before the last selection
  was submitted: nothing is assessed again (`careless` in `Opportunities`).
- Removing the newest rows of the shadow evidence is not noticed
  (`docs/phases/PHASE_45_PERSISTENT_SHADOW_OPERATION_EVIDENCE_ACCUMULATION.md:43`).
- Order identity is not unique (`docs/live_operation/LIVE_OPERATION_RUNBOOK.md:34-41`):
  an answer of CANCELLED is returned as accepted and the id forgotten
  (`execution_gateway.py:73-76`), so the venue may take it again (`Cancelled`).
- An open critical incident does not block a submission with a readiness
  evaluated before (same document, lines 34-39 and 47; `execution_gateway.py:47`).
- A refresh by a route that lags behind the start of the cached candles leaves a
  hole in the window that is not reported, since only a gap after the last cached
  candle is looked for (`incremental_candle_cache.py:119-123`).
- A gap the refresh refused is analysed after the retry (doc 17, line 60); a
  refresh does not always give the candles a full load gives, and a short series
  fails while the required candles exist
  (`docs/phases/PHASE_47_3_PERSISTENT_CANDLE_CACHE_INCREMENTAL_SCAN.md:74`, `:14`).
  An empty answer raises `IndexError` (`incremental_candle_cache.py:120`).
- A provider whose circuit is open is counted as failed once more by the block
  itself (`provider_router.py`), against doc 17, line 46.
- A matrix runs the default rules of the revision that is checked out, and a change
  of the strategy since the locked evaluation is not refused
  (`docs/phases/PHASE_48_3_1000_RUN_MATRIX.md:51`); 48.4 refuses only ledgers with two
  outcomes.
- The backtest loads the last complete summary of a route
  (`hf_qualified_data.py:130`), whichever the qualification prefers
  (`build_global_history_qualification.py:106`).
- Phase 48.9 asks for 200 in-sample runs; the matrix has none
  (`run_phase_48_3_matrix.py:140`), so it cannot qualify:
  `OutOfSampleNeverQualifies`.
- An existing manifest of an archive is returned without comparing the identity
  of the request (`gateio_deals_archive.py:453`).

## 6. Not modelled

The notes in `PROJECT.json` name what each component leaves out. In short:

- arithmetic in decimals, Monte Carlo quantiles, synthetic noise, attribution and
  the research metrics: numeric and unbounded; only what a gate compares is kept;
- HTTP, signing and parsing of the providers beyond `HistorySources`: external
  answers;
- the TradFi sync to B2, the manifest objects of each route, the in-memory
  repositories, `RecoveryService` and checkpoints, which nothing composes, live
  prices and trade events of the platform, the candle builder;
- the API with its cache and rate limit, and two processes on one candle cache
  (the lock of a series belongs to one process);
- context, assistant, reporting, health, deployment descriptions and the Android
  client: text, or values handed in and out, with no state of the system.

What would come next: the circuits and the cache of `MarketPlatform` as theorems,
the live price path of the platform, and `RecoveryService` if it is composed.
