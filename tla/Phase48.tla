------------------------------- MODULE Phase48 -------------------------------
(***************************************************************************)
(* The statistical qualification of a strategy, phases 48.2 to 48.7: the   *)
(* locked out-of-sample evaluation of every asset, the matrix of           *)
(* experiments with its checkpoints and resumed runs, and the bootstrap,   *)
(* noise, parameter and regime phases built on it.  Each phase is a        *)
(* workflow run by hand that downloads the artifacts of earlier runs,      *)
(* seals a plan, fans out over shards and aggregates their evidence.       *)
(* Artifacts never change; the bucket, the qualification document and the  *)
(* checked-out strategy do, between any two steps.                         *)
(*                                                                         *)
(* A fingerprint is modelled by what it is taken of, so two fingerprints   *)
(* are equal exactly when the contents are.                                *)
(***************************************************************************)
EXTENDS Phase48Statistics

CONSTANTS
    Assets,       \* the executable assets, in the order of their names
    Pending,      \* the assets without warm-up history
    Seeds,        \* seeds of the matrix, for each of its two splits
    SmokeRuns,    \* experiments of a smoke run
    SmokeAssets,  \* assets of a smoke run of the later phases
    ShardCount,
    Windows,      \* walk-forward windows before the locked split
    Rows,         \* 15m candles of an asset, by the version of its data
    Idle,         \* the evaluations <<asset, part, rules>> without a trade
    Fragile,      \* experiments that may fail in an asset that loaded (bound)
    MaxDetours,   \* changes of data, qualification and rules, and smoke runs (bound)
    MaxRuns       \* runs of phases 48.2 and 48.3 (bound)

(* The order of the assets; versions count from 0, as far as Rows goes.    *)
ASSUME PlanAssumption ==
    /\ Assets # <<>> /\ Assets \in Seq(ToSet(Assets)) /\ IsInjective(Assets)
    /\ ToSet(Assets) \cap Pending = {}
    /\ Seeds \in Nat \ {0} /\ Windows \in Nat \ {0} /\ ShardCount \in Nat \ {0}
    /\ SmokeRuns \in Nat /\ SmokeAssets \in Nat \ {0}
ASSUME RowsAssumption ==
    /\ 0 \in DOMAIN Rows /\ DOMAIN Rows \subseteq Nat
    /\ \A v \in DOMAIN Rows : Rows[v] \in Nat

VARIABLES
    store,        \* the version of each asset's partitions in the bucket
    qualification,\* the version of manifests/global-history/v1/latest.json
    rules,        \* the version of the strategy in the repository
    job,          \* the workflow that is running
    started,      \* runs of phases 48.2 and 48.3 so far
    checkpoints,  \* attempt records uploaded by earlier 48.3 runs
    evidence      \* summaries of finished phases

vars == <<store, qualification, rules, job, started, checkpoints, evidence>>

Executable == ToSet(Assets)
Universe == Executable \cup Pending
Scopes == {"smoke", "full"}
NoJob == [kind |-> "none"]
Detours == qualification + rules + FoldFunction(+, 0, store)
           + Cardinality({e \in evidence : e.scope = "smoke"})
-----------------------------------------------------------------------------
(* 48.2: the locked evaluation of one asset.                               *)

(* A slip: the windows are cut from all the observations.                  *)
BoundaryUnsplit(version, part) ==
    LET split == SealSplit(Rows[version])
    IN IF part = 0 THEN <<split[2], split[3]>>
                   ELSE WalkForward(split[3], Windows)[part]

(* The observations part 0, the locked split, or window k is scored on.    *)
Boundary(version, part) ==
    LET split == SealSplit(Rows[version])
    IN IF part = 0 THEN <<split[2], split[3]>>
                   ELSE WalkForward(split[2], Windows)[part]

Report(a, revision) ==
    IF a \in Pending
    THEN [asset |-> a, status |-> "WARMUP_PENDING", qual |-> qualification]
    ELSE [asset |-> a, status |-> "COMPLETE", qual |-> qualification,
          data |-> store[a], rules |-> revision]

Complete(summary) == {r \in summary.reports : r.status = "COMPLETE"}
ReportOf(summary, a) == CHOOSE r \in summary.reports : r.asset = a

SelectedAssets(scope) ==
    IF scope = "full" THEN Universe ELSE {Head(Assets)}

(* A summary exists only when every expected asset and pending asset has   *)
(* reported.                                                               *)
AggregateLocked(scope, reports) ==
    IF {r.asset : r \in reports} = SelectedAssets(scope)
    THEN {[phase |-> "48.2", scope |-> scope, reports |-> reports]}
    ELSE {}

(* What 48.3 demands of the summary it is given.                           *)
VerifyLocked(summary) ==
    /\ summary.phase = "48.2"
    /\ {r.asset : r \in summary.reports} = Universe
    /\ {r.asset : r \in Complete(summary)} = Executable
    /\ Cardinality({r.rules : r \in Complete(summary)}) = 1
    /\ Cardinality({r.qual : r \in Complete(summary)}) = 1
-----------------------------------------------------------------------------
(* 48.3: the matrix.  Experiment i is the i-th of splits x seeds; the      *)
(* assets take them in turn, and an asset's index chooses the shard.       *)

Experiments == 0..(2 * Seeds - 1)
AssetIndex(i) == i % Len(Assets)
AssetOf(i) == Assets[AssetIndex(i) + 1]
IndexOf(a) == (CHOOSE k \in DOMAIN Assets : Assets[k] = a) - 1
ShardOf(a) == IndexOf(a) % ShardCount
PartOf(i) == IF i < Seeds THEN 0 ELSE ((i - Seeds) % Windows) + 1

SelectedRuns(scope) ==
    IF scope = "full" THEN Experiments
    ELSE {i \in Experiments : i < SmokeRuns}

(* A slip: the candles are not compared.                                   *)
LockedAssetLoadsAnyData(r) == qualification = r.qual

(* The candles are downloaded again and compared with the fingerprints the *)
(* report carries; the rules are compared with the report's own.           *)
LockedAssetLoads(r) ==
    /\ qualification = r.qual
    /\ store[r.asset] = r.data

(* The experiment is run by the engine of the checked-out revision.        *)
Evaluate(i, r) ==
    [exp |-> i, run |-> job.run, status |-> "SUCCESS", data |-> store[r.asset],
     rules |-> job.rules, span |-> Boundary(r.data, PartOf(i))]

Failure(i) == [exp |-> i, run |-> job.run, status |-> "FAILED"]

(* Of the attempts at one experiment the one of the latest run counts.     *)
Latest(attempts, i) ==
    CHOOSE r \in attempts :
        r.exp = i /\ \A q \in attempts : q.exp = i => q.run <= r.run

Attempted(attempts) == {r.exp : r \in attempts}
Succeeded(attempts) ==
    {i \in Attempted(attempts) : Latest(attempts, i).status = "SUCCESS"}

(* An asset's experiments in this run: those no resumed run has completed. *)
Remaining(a) ==
    {i \in SelectedRuns(job.scope) \ Succeeded(job.prior) : AssetOf(i) = a}

(* They are run in their order.                                            *)
FirstOf(S, n) == {i \in S : Cardinality({j \in S : j < i}) < n}

(* A slip: missing experiments are left out.                               *)
AggregatePresent(scope, summary, attempts) ==
    LET results == {Latest(attempts, i) :
                    i \in SelectedRuns(scope) \cap Attempted(attempts)}
    IN {[phase |-> "48.3", scope |-> scope, source |-> summary,
         results |-> results,
         passed |-> \A r \in results : r.status = "SUCCESS"]}

(* The matrix passes when each selected experiment has evidence and none   *)
(* of it is a failure; missing evidence leaves no summary at all.          *)
AggregateAttempts(scope, summary, attempts) ==
    LET chosen == SelectedRuns(scope)
        results == {Latest(attempts, i) : i \in chosen}
    IN IF chosen \subseteq Attempted(attempts)
       THEN {[phase |-> "48.3", scope |-> scope, source |-> summary,
              results |-> results,
              passed |-> \A r \in results : r.status = "SUCCESS"]}
       ELSE {}

VerifyMatrix(m) == m.phase = "48.3" /\ m.scope = "full" /\ m.passed
-----------------------------------------------------------------------------
(* 48.4 and 48.5: resampling of the observed trades.  Both are functions   *)
(* of the artifacts they are given.                                        *)

(* The repeated evaluations of one asset, split and window are one path.   *)
Path(r) == [asset |-> AssetOf(r.exp), part |-> PartOf(r.exp),
            data |-> r.data, rules |-> r.rules]
Traded(p) == <<p.asset, p.part, p.rules>> \notin Idle
TradePaths(m) == {p \in {Path(r) : r \in m.results} : Traded(p)}
Key(p) == <<p.asset, p.part>>
PathsConflict(paths) == \E p, q \in paths : Key(p) = Key(q) /\ p # q

(* What 48.4 makes of a matrix: nothing when repeated evaluations disagree *)
(* or nothing was traded.                                                  *)
Bootstrap(m, scope) ==
    LET paths == TradePaths(m)
    IN IF VerifyMatrix(m) /\ paths # {} /\ ~PathsConflict(paths)
       THEN {[phase |-> "48.4", scope |-> scope, source |-> m, paths |-> paths]}
       ELSE {}

VerifyBootstrap(b) ==
    b.phase = "48.4" /\ b.scope = "full" /\ VerifyMatrix(b.source)

(* 48.5 collects the ledgers of the matrix afresh, or raises.              *)
Ledgers(m) == IF PathsConflict(TradePaths(m)) THEN {} ELSE TradePaths(m)

(* What 48.5 makes of them: its summary, once the results of every shard   *)
(* are there.                                                              *)
Noise(b, scope) ==
    IF VerifyBootstrap(b) /\ Ledgers(b.source) # {}
    THEN {[phase |-> "48.5", scope |-> scope, source |-> b, paths |-> Ledgers(b.source)]}
    ELSE {}
-----------------------------------------------------------------------------
(* 48.6 and 48.7: the engine runs again, on the ledgers that traded.       *)

(* 48.6 is given a 48.5 bundle and a 48.3 bundle, of any two runs.         *)
VerifyNoiseChain(n, m) ==
    /\ n.phase = "48.5" /\ n.scope = "full"
    /\ VerifyMatrix(m) /\ VerifyLocked(m.source)
    /\ n.source.source.results = m.results
    /\ {Key(p) : p \in n.paths} = {Key(p) : p \in TradePaths(m)}

(* A slip: only the ledgers of the two runs are compared.                  *)
VerifyStabilityChainLedgersOnly(s, m) ==
    /\ s.phase = "48.6" /\ s.scope = "full" /\ s.passed
    /\ VerifyMatrix(m) /\ VerifyLocked(m.source)
    /\ {Key(p) : p \in s.results} = {Key(p) : p \in TradePaths(m)}

VerifyStabilityChain(s, m) ==
    /\ s.phase = "48.6" /\ s.scope = "full" /\ s.passed
    /\ VerifyMatrix(m) /\ VerifyLocked(m.source)
    /\ s.matrix = m.results
    /\ s.locked = m.source
    /\ {Key(p) : p \in s.results} = {Key(p) : p \in TradePaths(m)}

(* The ledgers of a plan are ordered by asset; of one asset 48.6 puts the  *)
(* locked split first, 48.7 the split that is scored first.                *)
Turn(kind, k) == IF kind = "48.7" /\ k[2] = 0 THEN Windows + 1 ELSE k[2]
Before(kind, k, l) == \/ IndexOf(k[1]) < IndexOf(l[1])
                      \/ k[1] = l[1] /\ Turn(kind, k) < Turn(kind, l)
LedgerIndex(kind, keys, k) == Cardinality({l \in keys : Before(kind, l, k)})
LedgerShard(k) ==
    LedgerIndex(job.kind, {Key(p) : p \in TradePaths(job.matrix)}, k) % ShardCount

(* A smoke run takes the ledgers of the first assets, 48.6 one of each.    *)
AssetsIn(keys) == {k[1] : k \in keys}
FirstAssets(keys) ==
    {a \in AssetsIn(keys) :
        Cardinality({b \in AssetsIn(keys) : IndexOf(b) < IndexOf(a)}) < SmokeAssets}
SmokeReplay(keys, scope) ==
    {k \in keys : scope = "full" \/ k[1] \in FirstAssets(keys)}
SmokeSweep(keys, scope) ==
    {k \in SmokeReplay(keys, scope) :
        scope = "smoke" => \A l \in keys : Before("48.6", l, k) => l[1] # k[1]}

(* The engine runs under the rules sealed in the plan.                     *)
Replay(ledger, r) ==
    [asset |-> ledger[1], part |-> ledger[2], data |-> store[ledger[1]],
     rules |-> r.rules]
-----------------------------------------------------------------------------
Init ==
    /\ store = [a \in Executable |-> 0]
    /\ qualification = 0
    /\ rules = 0
    /\ job = NoJob
    /\ started = 0
    /\ checkpoints = {}
    /\ evidence = {}

(* Other workflows publish data and qualifications, and main moves on.     *)
Publish ==
    /\ Detours < MaxDetours
    /\ \/ /\ \E a \in Executable :
                /\ store[a] + 1 \in DOMAIN Rows
                /\ store' = [store EXCEPT ![a] = @ + 1]
          /\ UNCHANGED <<qualification, rules>>
       \/ qualification' = qualification + 1 /\ UNCHANGED <<store, rules>>
       \/ rules' = rules + 1 /\ UNCHANGED <<store, qualification>>
    /\ UNCHANGED <<job, started, checkpoints, evidence>>

outside == <<store, qualification, rules>>

StartLocked(scope) ==
    /\ job = NoJob /\ started < MaxRuns
    /\ started' = started + 1
    /\ job' = [kind |-> "48.2", scope |-> scope, rules |-> rules,
               todo |-> SelectedAssets(scope), reports |-> {}]
    /\ UNCHANGED <<outside, checkpoints, evidence>>

RunAsset(a) ==
    /\ job.kind = "48.2" /\ a \in job.todo
    /\ a \in Executable => ~SplitRefused(Rows[store[a]])
    /\ job' = [job EXCEPT !.todo = @ \ {a},
                          !.reports = @ \cup {Report(a, job.rules)}]
    /\ UNCHANGED <<outside, started, checkpoints, evidence>>

FinishLocked ==
    /\ job.kind = "48.2" /\ job.todo = {}
    /\ evidence' = evidence \cup AggregateLocked(job.scope, job.reports)
    /\ job' = NoJob
    /\ UNCHANGED <<outside, started, checkpoints>>

(* A resumed run must be one of the same plan, or every shard refuses it.  *)
StartMatrix(summary, scope, resume) ==
    /\ job = NoJob /\ started < MaxRuns
    /\ VerifyLocked(summary)
    /\ \A c \in resume : c.source = summary
    /\ started' = started + 1
    /\ job' = [kind |-> "48.3", scope |-> scope, rules |-> rules,
               source |-> summary, run |-> started + 1,
               prior |-> UNION {c.records : c \in resume},
               todo |-> Executable, records |-> {}]
    /\ UNCHANGED <<outside, checkpoints, evidence>>

(* A shard takes its assets in order.  The broken experiments fail: all of *)
(* the asset's when its download is lost.  The shard may die after n.      *)
RunShard(a, broken, n) ==
    /\ job.kind = "48.3" /\ a \in job.todo
    /\ \A b \in job.todo : ShardOf(b) = ShardOf(a) => IndexOf(a) <= IndexOf(b)
    /\ n \in 0..Cardinality(Remaining(a))
    /\ LET r == ReportOf(job.source, a)
           attempt(i) == IF LockedAssetLoads(r) /\ i \notin broken
                         THEN Evaluate(i, r) ELSE Failure(i)
           written == {attempt(i) : i \in FirstOf(Remaining(a), n)}
           lost == n < Cardinality(Remaining(a))
       IN job' = [job EXCEPT
              !.records = @ \cup written,
              !.todo = IF lost THEN {b \in @ : ShardOf(b) # ShardOf(a)}
                               ELSE @ \ {a}]
    /\ UNCHANGED <<outside, started, checkpoints, evidence>>

(* The aggregate runs whether or not every shard survived.                 *)
FinishMatrix ==
    /\ job.kind = "48.3" /\ job.todo = {}
    /\ checkpoints' = checkpoints \cup
           {[source |-> job.source, records |-> job.records]}
    /\ evidence' = evidence \cup
           AggregateAttempts(job.scope, job.source, job.records \cup job.prior)
    /\ job' = NoJob
    /\ UNCHANGED <<outside, started>>

Resample(m, scope) ==
    /\ job = NoJob
    /\ evidence' = evidence \cup Bootstrap(m, scope)
    /\ UNCHANGED <<outside, job, started, checkpoints>>

AddNoise(b, scope) ==
    /\ job = NoJob
    /\ evidence' = evidence \cup Noise(b, scope)
    /\ UNCHANGED <<outside, job, started, checkpoints>>

StartStability(n, m, scope) ==
    /\ job = NoJob
    /\ VerifyNoiseChain(n, m)
    /\ job' = [kind |-> "48.6", scope |-> scope, base |-> n, matrix |-> m,
               todo |-> SmokeSweep({Key(p) : p \in n.paths}, scope),
               results |-> {}]
    /\ UNCHANGED <<outside, started, checkpoints, evidence>>

StartRegime(s, m, scope) ==
    /\ job = NoJob
    /\ VerifyStabilityChain(s, m)
    /\ job' = [kind |-> "48.7", scope |-> scope, base |-> s, matrix |-> m,
               todo |-> SmokeReplay({Key(r) : r \in s.results}, scope),
               results |-> {}]
    /\ UNCHANGED <<outside, started, checkpoints, evidence>>

(* A shard of 48.6 or 48.7 takes its assets in order: it reloads one,      *)
(* refuses changed data, and replays the ledgers of it that it was dealt.  *)
ReplayAsset(a, shard) ==
    /\ job.kind \in {"48.6", "48.7"}
    /\ LET r == ReportOf(job.matrix.source, a)
           dealt == {k \in job.todo : LedgerShard(k) = shard}
           mine == {k \in dealt : k[1] = a}
       IN /\ mine # {} /\ \A k \in dealt : IndexOf(a) <= IndexOf(k[1])
          /\ LockedAssetLoads(r)
          /\ job' = [job EXCEPT !.todo = @ \ mine,
                       !.results = @ \cup {Replay(k, r) : k \in mine}]
    /\ UNCHANGED <<outside, started, checkpoints, evidence>>

(* The verdict is left open: Phase48Statistics has what it is made of.     *)
Summary(passed) ==
    [phase |-> job.kind, scope |-> job.scope, base |-> job.base,
     matrix |-> job.matrix.results, locked |-> job.matrix.source,
     results |-> job.results, passed |-> passed]

(* The aggregate needs a result of every evaluation of the plan.           *)
FinishReplay(passed) ==
    /\ job.kind \in {"48.6", "48.7"} /\ job.todo = {}
    /\ evidence' = evidence \cup {Summary(passed)}
    /\ job' = NoJob
    /\ UNCHANGED <<outside, started, checkpoints>>

(* A job of a phase that needs all its shards fails, or is cancelled.      *)
FailWorkflow ==
    /\ job.kind \in {"48.2", "48.6", "48.7"}
    /\ job' = NoJob
    /\ UNCHANGED <<outside, started, checkpoints, evidence>>

Of(phase) == {e \in evidence : e.phase = phase}
(* A scope that the bound leaves open.                                     *)
Open == {scope \in Scopes : scope = "smoke" => Detours < MaxDetours}
(* A download that is lost, or experiments that fail by themselves.        *)
Failures == {Experiments} \cup SUBSET (Fragile \cap Experiments)
Outcomes == {c \in SUBSET checkpoints : Cardinality(c) <= 1}

Next ==
    \/ Publish
    \/ FinishLocked \/ FinishMatrix \/ FailWorkflow
    \/ \E scope \in Open : StartLocked(scope)
    \/ \E scope \in Open, s \in Of("48.2"), c \in Outcomes :
          StartMatrix(s, scope, c)
    \/ \E scope \in Open, m \in Of("48.3") : Resample(m, scope)
    \/ \E scope \in Open, b \in Of("48.4") : AddNoise(b, scope)
    \/ \E scope \in Open, n \in Of("48.5"), m \in Of("48.3") :
          StartStability(n, m, scope)
    \/ \E scope \in Open, s \in Of("48.6"), m \in Of("48.3") :
          StartRegime(s, m, scope)
    \/ \E a \in Universe : RunAsset(a)
    \/ \E a \in Executable, broken \in Failures, n \in 0..(2 * Seeds) :
          RunShard(a, broken, n)
    \/ \E a \in Executable, shard \in 0..(ShardCount - 1) : ReplayAsset(a, shard)
    \/ \E passed \in BOOLEAN : FinishReplay(passed)

Spec == Init /\ [][Next]_vars
-----------------------------------------------------------------------------

(* Everything a later phase computes is computed from the data its 48.2    *)
(* report sealed, however often the bucket and the qualification change    *)
(* between the phases, within one run, and between a run and its resume.   *)
SealedData ==
    /\ \A m \in Of("48.3") : \A r \in m.results :
          r.status = "SUCCESS" =>
              r.data = ReportOf(m.source, AssetOf(r.exp)).data
    /\ \A e \in Of("48.6") \cup Of("48.7") : \A r \in e.results :
          r.data = ReportOf(e.locked, r.asset).data

(* In one matrix no walk-forward result rests on an observation of the     *)
(* locked split of its asset, and no two windows share one.                *)
NoLeakage ==
    \A m \in Of("48.3") : \A q, r \in m.results :
        (/\ q.status = "SUCCESS" /\ r.status = "SUCCESS"
         /\ AssetOf(q.exp) = AssetOf(r.exp) /\ PartOf(q.exp) # PartOf(r.exp))
        => q.span[2] <= r.span[1] \/ r.span[2] <= q.span[1]

(* A matrix that passes has one success of every selected experiment, each *)
(* from a checkpoint of the same locked evaluation; a run that died, or    *)
(* was resumed from another that died, leaves no hole in it.               *)
MatrixIsComplete ==
    \A m \in Of("48.3") : m.passed =>
        /\ \A i \in SelectedRuns(m.scope) :
              Cardinality({r \in m.results : r.exp = i}) = 1
        /\ \A r \in m.results : \E c \in checkpoints :
              r.status = "SUCCESS" /\ r \in c.records /\ c.source = m.source

(* The phases behind a 48.7 rest on one matrix and one locked evaluation,  *)
(* although each is given the artifacts of two runs, and they replay every *)
(* ledger of that matrix that traded.                                      *)
OneChain ==
    \A e \in Of("48.7") :
        LET noise == e.base.base
        IN /\ noise.source.source.results = e.matrix
           /\ noise.source.source.source = e.locked
           /\ e.base.matrix = e.matrix /\ e.base.locked = e.locked
           /\ e.scope = "full" => {Key(r) : r \in e.results}
                                  = {Key(p) : p \in TradePaths(noise.source.source)}

=============================================================================
