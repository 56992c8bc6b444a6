---------------------------- MODULE Phase48Proofs ----------------------------
(***************************************************************************)
(* Proofs about phases 48.2 to 48.7 for every plan: any assets, seeds,     *)
(* windows and shards, any rows, and any number of runs; about the gates   *)
(* behind them; and about the locked dataset they read, for any jobs,      *)
(* timeframes, ranges and moments.                                         *)
(***************************************************************************)
EXTENDS Phase48, LockedArchive, FiniteSetTheorems, WellFoundedInduction, NaturalsInduction, TLAPS

(***************************************************************************)
(* The inductive invariant, in four parts.                                 *)
(***************************************************************************)

(* The result of an experiment, run on a locked evaluation.                *)
RanOn(r, summary) ==
    /\ r.exp \in Experiments /\ r.run \in 1..started
    /\ r.status = "SUCCESS" =>
          /\ r.data = ReportOf(summary, AssetOf(r.exp)).data
          /\ r.data \in DOMAIN Rows
          /\ r.span = Boundary(r.data, PartOf(r.exp))

Uploaded(r, summary) == \E c \in checkpoints : c.source = summary /\ r \in c.records

TypeInv == store \in [Executable -> DOMAIN Rows] /\ started \in Nat

(* The run that made a record made all records of its number, on one       *)
(* locked evaluation.                                                      *)
CheckpointInv ==
    /\ \A c \in checkpoints : \A r \in c.records : RanOn(r, c.source)
    /\ \A c, d \in checkpoints : \A q \in c.records, r \in d.records :
          q.run = r.run => c.source = d.source

(* Each part of the evidence with what it was made from.                   *)
OneResult(m, i) == \E r \in m.results : \A q \in m.results : q.exp = i <=> q = r
MatrixEvidence(m) ==
    /\ \A i \in SelectedRuns(m.scope) : OneResult(m, i)
    /\ \A r \in m.results : Uploaded(r, m.source)
    /\ m.passed => \A r \in m.results : r.status = "SUCCESS"

OnLocked(results, summary) == \A r \in results : r.data = ReportOf(summary, r.asset).data
NoiseChained(n, results, summary) ==
    /\ n \in Of("48.5")
    /\ n.source.source.results = results /\ n.source.source.source = summary
StabilityChained(s, results, summary) ==
    /\ s \in Of("48.6")
    /\ s.matrix = results /\ s.locked = summary
KeysOf(paths) == {Key(p) : p \in paths}
LedgersBehind(s) == KeysOf(TradePaths(s.base.source.source))

EvidenceInv ==
    /\ \A m \in Of("48.3") : MatrixEvidence(m)
    /\ \A b \in Of("48.4") : b.source \in Of("48.3")
    /\ \A n \in Of("48.5") : n.source \in Of("48.4")
    /\ \A s \in Of("48.6") :
          OnLocked(s.results, s.locked) /\ NoiseChained(s.base, s.matrix, s.locked)
    /\ \A e \in Of("48.7") :
          /\ OnLocked(e.results, e.locked) /\ StabilityChained(e.base, e.matrix, e.locked)
          /\ e.scope = "full" => KeysOf(e.results) = LedgersBehind(e.base)

(* The workflow that runs.                                                 *)
LockedRun ==
    /\ job.kind = "48.2"
    /\ job = [kind |-> "48.2", scope |-> job.scope, rules |-> job.rules,
              todo |-> job.todo, reports |-> job.reports]

MatrixRun ==
    /\ job.kind = "48.3"
    /\ job = [kind |-> "48.3", scope |-> job.scope, rules |-> job.rules,
              source |-> job.source, run |-> job.run, prior |-> job.prior,
              todo |-> job.todo, records |-> job.records]
    /\ job.scope \in Scopes /\ job.run \in 1..started /\ job.todo \subseteq Executable
    /\ VerifyLocked(job.source)
    /\ \A c \in checkpoints : \A r \in c.records : r.run < job.run
    /\ \A r \in job.records : RanOn(r, job.source) /\ r.run = job.run
    /\ \A r \in job.prior : Uploaded(r, job.source)

ReplayRun ==
    /\ job.kind \in {"48.6", "48.7"}
    /\ job = [kind |-> job.kind, scope |-> job.scope, base |-> job.base,
              matrix |-> job.matrix, todo |-> job.todo, results |-> job.results]
    /\ VerifyLocked(job.matrix.source)
    /\ OnLocked(job.results, job.matrix.source)
    /\ job.kind = "48.6" => NoiseChained(job.base, job.matrix.results, job.matrix.source)
    /\ job.kind = "48.7" =>
          /\ StabilityChained(job.base, job.matrix.results, job.matrix.source)
          /\ \A k \in job.todo : k = <<k[1], k[2]>>
          /\ job.scope = "full" => job.todo \cup KeysOf(job.results) = LedgersBehind(job.base)

JobInv == job = NoJob \/ LockedRun \/ MatrixRun \/ ReplayRun

Inv == TypeInv /\ CheckpointInv /\ EvidenceInv /\ JobInv
-----------------------------------------------------------------------------
(***************************************************************************)
(* Facts about the plan and the artifacts.                                 *)
(***************************************************************************)

(* A nonempty set of naturals with a bound has a greatest member.          *)
LEMMA GreatestMember ==
    ASSUME NEW T \in SUBSET Nat, T # {}, NEW bound \in Nat, \A x \in T : x <= bound
    PROVE  \E x \in T : \A y \in T : y <= x
<1> DEFINE Gaps == {bound - x : x \in T}
<1>1. Gaps # {} /\ Gaps \subseteq Nat
  <2>1. \A x \in T : bound - x \in Nat
    OBVIOUS
  <2>2. QED
    BY <2>1
<1>2. IsWellFoundedOn(OpToRel(<, Nat), Nat)
  BY NatLessThanWellFounded
<1>3. PICK g \in Gaps : \A h \in Gaps : ~(<<h, g>> \in OpToRel(<, Nat))
  BY <1>1, <1>2, WFMin
<1>4. PICK x \in T : g = bound - x
  OBVIOUS
<1>5. ASSUME NEW y \in T
      PROVE  y <= x
  <2>1. bound - y \in Gaps /\ bound - y \in Nat
    BY <1>5, <1>1
  <2>2. ~(bound - y < g)
    BY <2>1, <1>1, <1>3 DEF OpToRel
  <2>3. QED
    BY <2>2, <1>4
<1>6. QED
  BY <1>5

(* Of the attempts at one experiment there is a latest.                    *)
LEMMA LatestIsThere ==
    ASSUME NEW attempts, NEW last \in Nat, \A r \in attempts : r.run \in 1..last,
           NEW i \in Attempted(attempts)
    PROVE  Latest(attempts, i) \in attempts /\ Latest(attempts, i).exp = i
<1> DEFINE T == {r.run : r \in {q \in attempts : q.exp = i}}
<1>1. T # {} /\ T \subseteq Nat /\ \A x \in T : x <= last
  BY DEF Attempted
<1>2. PICK x \in T : \A y \in T : y <= x
  BY <1>1, GreatestMember
<1>3. PICK r \in attempts : r.exp = i /\ r.run = x
  OBVIOUS
<1>4. \A q \in attempts : q.exp = i => q.run <= r.run
  BY <1>2, <1>3
<1>5. QED
  BY <1>3, <1>4 DEF Latest

(* Every selected experiment is one of the plan; a full run has some.      *)
LEMMA SelectedArePlanned ==
    /\ \A scope : SelectedRuns(scope) \subseteq Experiments
    /\ 0 \in SelectedRuns("full")
  BY PlanAssumption DEF SelectedRuns, Experiments

(* A summary that 48.3 accepts has a report of every asset.                *)
LEMMA ReportIsThere ==
    ASSUME NEW summary, VerifyLocked(summary), NEW a \in Universe
    PROVE  ReportOf(summary, a).asset = a
<1>1. PICK r \in summary.reports : r.asset = a
  BY DEF VerifyLocked
<1>2. QED
  BY <1>1 DEF ReportOf

(* An experiment is scored on the locked split or on a window.             *)
LEMMA PartIsThere ==
    ASSUME NEW i \in Experiments
    PROVE  PartOf(i) \in 0..Windows
<1>1. CASE i < Seeds
  BY <1>1, PlanAssumption DEF PartOf
<1>2. CASE ~(i < Seeds)
  <2>1. i - Seeds \in Nat
    BY <1>2, PlanAssumption DEF Experiments
  <2>2. (i - Seeds) % Windows \in 0..(Windows - 1)
    BY <2>1, PlanAssumption
  <2>3. QED
    BY <1>2, <2>2, PlanAssumption DEF PartOf
<1>3. QED
  BY <1>1, <1>2

LEMMA ProductGrows ==
    \A j, k, t \in Nat : j <= k => j * t <= k * t
  OBVIOUS

(* The locked split and the windows before it share no observation.        *)
LEMMA BoundariesAreDisjoint ==
    ASSUME NEW v \in DOMAIN Rows, NEW p \in 0..Windows, NEW q \in 0..Windows, p < q
    PROVE  Boundary(v, q)[2] <= Boundary(v, p)[1] \/ Boundary(v, p)[2] <= Boundary(v, q)[1]
<1> DEFINE end == SealSplit(Rows[v])[2]
           t == TestSize(end, Windows)
           cut(k) == FirstTrainEnd(end, Windows) + k * t
<1>1. Windows \in Nat \ {0} /\ Rows[v] \in Nat
  BY PlanAssumption, RowsAssumption
<1>2. end \in Nat
  <2>1. (6 * Rows[v]) \div 10 \in Nat /\ (2 * Rows[v]) \div 10 \in Nat
    BY <1>1
  <2>2. QED
    BY <2>1 DEF SealSplit
<1>3. t \in Nat
  <2>1. end \div (Windows + 4) \in Int
    BY <1>1, <1>2
  <2>2. QED
    BY <2>1 DEF TestSize
<1> HIDE DEF end, t
<1>4. FirstTrainEnd(end, Windows) = end - Windows * t /\ Windows * t \in Nat
  BY <1>1, <1>2, <1>3 DEF FirstTrainEnd, t
<1>5. \A j, k \in 0..Windows : j <= k => cut(j) <= cut(k)
  <2>1. SUFFICES ASSUME NEW j \in 0..Windows, NEW k \in 0..Windows, j <= k
                 PROVE  cut(j) <= cut(k)
    OBVIOUS
  <2>2. j * t <= k * t
    BY <2>1, <1>1, <1>3, ProductGrows
  <2>3. j * t \in Nat /\ k * t \in Nat
    BY <1>3
  <2>4. QED
    BY <2>2, <2>3, <1>4, <1>2
<1>6. cut(Windows) = end
  BY <1>1, <1>2, <1>4
<1>7. \A k \in 1..Windows : Boundary(v, k) = <<cut(k - 1), cut(k)>>
  BY <1>1 DEF Boundary, WalkForward, end, t
<1>8. CASE p = 0
  <2>1. Boundary(v, p)[1] = end
    BY <1>8 DEF Boundary, end
  <2>2. cut(q) <= end
    BY <1>5, <1>6, <1>1
  <2>3. Boundary(v, q)[2] = cut(q)
    BY <1>7, <1>8
  <2>4. QED
    BY <2>1, <2>2, <2>3
<1>9. CASE p # 0
  <2>1. Boundary(v, p)[2] = cut(p) /\ Boundary(v, q)[1] = cut(q - 1)
    BY <1>7, <1>9
  <2>2. cut(p) <= cut(q - 1)
    BY <1>5, <1>9, <1>1
  <2>3. QED
    BY <2>1, <2>2
<1>10. QED
  BY <1>8, <1>9
-----------------------------------------------------------------------------
(***************************************************************************)
(* What the invariant says of the artifacts, and that it lasts.            *)
(***************************************************************************)

(* Two matrices with the same results rest on one locked evaluation, when  *)
(* there are any results.                                                  *)
LEMMA ResultsNameTheSource ==
    ASSUME Inv, NEW m \in Of("48.3"), NEW n \in Of("48.3"),
           m.results = n.results, m.scope = "full"
    PROVE  m.source = n.source
<1>1. MatrixEvidence(m) /\ MatrixEvidence(n)
  BY DEF Inv, EvidenceInv
<1>2. PICK r \in m.results : TRUE
  BY <1>1, SelectedArePlanned DEF MatrixEvidence, OneResult
<1>3. Uploaded(r, m.source) /\ Uploaded(r, n.source)
  BY <1>1 DEF MatrixEvidence
<1>4. QED
  BY <1>3 DEF Uploaded, Inv, CheckpointInv

(* A result of a matrix was run on the locked evaluation of the matrix.    *)
LEMMA ResultsRanOn ==
    ASSUME Inv, NEW m \in Of("48.3"), NEW r \in m.results
    PROVE  RanOn(r, m.source)
<1>1. Uploaded(r, m.source)
  BY DEF Inv, EvidenceInv, MatrixEvidence
<1>2. QED
  BY <1>1 DEF Uploaded, Inv, CheckpointInv

(* A step that takes no artifact away and does not turn back the number of *)
(* runs.                                                                   *)
Grows ==
    /\ checkpoints \subseteq checkpoints' /\ evidence \subseteq evidence'
    /\ started' \in Nat /\ started <= started'

LEMMA RecordsLast ==
    ASSUME Inv, Grows
    PROVE  /\ \A r, summary : RanOn(r, summary) => RanOn(r, summary)'
           /\ \A r, summary : Uploaded(r, summary) => Uploaded(r, summary)'
           /\ \A phase : Of(phase) \subseteq Of(phase)'
<1>1. started \in Nat
  BY DEF Inv, TypeInv
<1>2. 1..started \subseteq 1..started'
  BY <1>1 DEF Grows
<1>3. \A r, summary : RanOn(r, summary) => RanOn(r, summary)'
  BY <1>2 DEF RanOn
<1>4. \A r, summary : Uploaded(r, summary) => Uploaded(r, summary)'
  BY DEF Uploaded, Grows
<1>5. \A phase : Of(phase) \subseteq Of(phase)'
  BY DEF Of, Grows
<1>6. QED
  BY <1>3, <1>4, <1>5

LEMMA ChainsLast ==
    ASSUME Inv, Grows
    PROVE  /\ \A n, results, summary :
                 NoiseChained(n, results, summary) => NoiseChained(n, results, summary)'
           /\ \A s, results, summary :
                 StabilityChained(s, results, summary) => StabilityChained(s, results, summary)'
  BY RecordsLast DEF NoiseChained, StabilityChained

(* What holds of a part of the evidence holds of it ever after.            *)
LEMMA EvidenceLasts ==
    ASSUME Inv, Grows
    PROVE  /\ \A m \in Of("48.3") : MatrixEvidence(m)'
           /\ \A b \in Of("48.4") : (b.source \in Of("48.3"))'
           /\ \A n \in Of("48.5") : (n.source \in Of("48.4"))'
           /\ \A s \in Of("48.6") :
                 OnLocked(s.results, s.locked) /\ NoiseChained(s.base, s.matrix, s.locked)'
           /\ \A e \in Of("48.7") :
                 /\ OnLocked(e.results, e.locked)
                 /\ StabilityChained(e.base, e.matrix, e.locked)'
                 /\ e.scope = "full" => KeysOf(e.results) = LedgersBehind(e.base)
<1>1. \A m \in Of("48.3") : MatrixEvidence(m)'
  BY RecordsLast DEF Inv, EvidenceInv, MatrixEvidence
<1>2. \A b \in Of("48.4") : (b.source \in Of("48.3"))'
  BY RecordsLast DEF Inv, EvidenceInv
<1>3. \A n \in Of("48.5") : (n.source \in Of("48.4"))'
  BY RecordsLast DEF Inv, EvidenceInv
<1>4. \A s \in Of("48.6") :
          OnLocked(s.results, s.locked) /\ NoiseChained(s.base, s.matrix, s.locked)'
  BY ChainsLast DEF Inv, EvidenceInv
<1>5. \A e \in Of("48.7") :
          /\ OnLocked(e.results, e.locked)
          /\ StabilityChained(e.base, e.matrix, e.locked)'
          /\ e.scope = "full" => KeysOf(e.results) = LedgersBehind(e.base)
  BY ChainsLast DEF Inv, EvidenceInv
<1>6. QED
  BY <1>1, <1>2, <1>3, <1>4, <1>5

(* A step that leaves the artifacts alone.                                 *)
LEMMA ArtifactsLast ==
    ASSUME Inv, TypeInv', UNCHANGED <<checkpoints, evidence>>, started <= started'
    PROVE  CheckpointInv' /\ EvidenceInv'
<1>1. Grows
  BY DEF Grows, TypeInv
<1>2. CheckpointInv'
  BY <1>1, RecordsLast DEF Inv, CheckpointInv
<1>3. EvidenceInv'
  <2>1. \A phase : Of(phase)' = Of(phase)
    BY DEF Of
  <2>2. QED
    BY <2>1, <1>1, EvidenceLasts DEF EvidenceInv
<1>4. QED
  BY <1>2, <1>3

(* The kind of a workflow says which it is.                                *)
LEMMA JobKinds ==
    ASSUME Inv
    PROVE  /\ job = NoJob => job.kind = "none"
           /\ job.kind = "48.2" => LockedRun
           /\ job.kind = "48.3" => MatrixRun
           /\ job.kind \in {"48.6", "48.7"} => ReplayRun
  BY DEF Inv, JobInv, NoJob, LockedRun, MatrixRun, ReplayRun
-----------------------------------------------------------------------------
(***************************************************************************)
(* The invariant is inductive: one lemma for each kind of step.            *)
(***************************************************************************)

LEMMA InitInv == Init => Inv
<1>1. SUFFICES ASSUME Init
               PROVE  Inv
  OBVIOUS
<1>2. TypeInv
  BY <1>1, RowsAssumption DEF Init, TypeInv
<1>3. CheckpointInv /\ EvidenceInv /\ JobInv
  BY <1>1 DEF Init, CheckpointInv, EvidenceInv, Of, JobInv
<1>4. QED
  BY <1>2, <1>3 DEF Inv

(* Publish, and a step of another part of the system.                      *)
LEMMA PublishKeepsInv ==
    ASSUME Inv, Publish \/ UNCHANGED vars
    PROVE  Inv'
<1>1. /\ UNCHANGED <<job, started, checkpoints, evidence>>
      /\ TypeInv'
  BY DEF Publish, vars, Inv, TypeInv
<1>2. CheckpointInv' /\ EvidenceInv'
  <2>1. started <= started'
    BY <1>1 DEF TypeInv
  <2>2. QED
    BY <1>1, <2>1, ArtifactsLast
<1>3. JobInv'
  <2>1. Grows
    BY <1>1 DEF Grows, TypeInv
  <2>2. job = NoJob => (job = NoJob)'
    BY <1>1 DEF NoJob
  <2>3. LockedRun => LockedRun'
    BY <1>1 DEF LockedRun
  <2>4. MatrixRun => MatrixRun'
    BY <1>1, <2>1, RecordsLast DEF MatrixRun
  <2>5. ReplayRun => ReplayRun'
    BY <1>1, <2>1, ChainsLast DEF ReplayRun
  <2>6. QED
    BY <2>2, <2>3, <2>4, <2>5 DEF Inv, JobInv
<1>4. QED
  BY <1>1, <1>2, <1>3 DEF Inv

(* A workflow that ends without a summary.                                 *)
LEMMA FailKeepsInv ==
    ASSUME Inv, FailWorkflow
    PROVE  Inv'
<1>1. /\ UNCHANGED <<store, started, checkpoints, evidence>> /\ job' = NoJob
      /\ TypeInv'
  BY DEF FailWorkflow, outside, Inv, TypeInv
<1>2. CheckpointInv' /\ EvidenceInv'
  <2>1. started <= started'
    BY <1>1 DEF TypeInv
  <2>2. QED
    BY <1>1, <2>1, ArtifactsLast
<1>3. QED
  BY <1>1, <1>2 DEF Inv, JobInv, NoJob

(* Phase 48.2.                                                             *)
LEMMA StartLockedKeepsInv ==
    ASSUME Inv, NEW scope, StartLocked(scope)
    PROVE  Inv'
<1>1. /\ UNCHANGED <<store, checkpoints, evidence>> /\ started' = started + 1
      /\ TypeInv'
  BY DEF StartLocked, outside, Inv, TypeInv
<1>2. CheckpointInv' /\ EvidenceInv'
  <2>1. started <= started'
    BY <1>1 DEF Inv, TypeInv
  <2>2. QED
    BY <1>1, <2>1, ArtifactsLast
<1>3. LockedRun'
  BY DEF StartLocked, LockedRun
<1>4. QED
  BY <1>1, <1>2, <1>3 DEF Inv, JobInv

LEMMA RunAssetKeepsInv ==
    ASSUME Inv, NEW a, RunAsset(a)
    PROVE  Inv'
<1>1. /\ UNCHANGED <<store, started, checkpoints, evidence>>
      /\ TypeInv'
  BY DEF RunAsset, outside, Inv, TypeInv
<1>2. CheckpointInv' /\ EvidenceInv'
  <2>1. started <= started'
    BY <1>1 DEF TypeInv
  <2>2. QED
    BY <1>1, <2>1, ArtifactsLast
<1>3. LockedRun'
  <2>1. LockedRun
    BY JobKinds DEF RunAsset
  <2>2. job' = [job EXCEPT !.todo = @ \ {a}, !.reports = @ \cup {Report(a, job.rules)}]
    BY DEF RunAsset
  <2>3. QED
    BY <2>1, <2>2 DEF LockedRun
<1>4. QED
  BY <1>1, <1>2, <1>3 DEF Inv, JobInv

LEMMA FinishLockedKeepsInv ==
    ASSUME Inv, FinishLocked
    PROVE  Inv'
<1>1. /\ UNCHANGED <<store, started, checkpoints>> /\ job' = NoJob
      /\ evidence \subseteq evidence' /\ TypeInv'
  BY DEF FinishLocked, outside, Inv, TypeInv
<1>2. Grows
  BY <1>1 DEF Grows, TypeInv
<1>3. CheckpointInv'
  BY <1>1, <1>2, RecordsLast DEF Inv, CheckpointInv
<1>4. EvidenceInv'
  <2>1. \A e \in evidence' \ evidence : e.phase = "48.2"
    BY DEF FinishLocked, AggregateLocked
  <2>2. \A phase : phase # "48.2" => Of(phase)' = Of(phase)
    BY <2>1, <1>1 DEF Of
  <2>3. QED
    BY <2>2, <1>2, EvidenceLasts DEF EvidenceInv
<1>5. QED
  BY <1>1, <1>3, <1>4 DEF Inv, JobInv, NoJob

(* Phase 48.3.                                                             *)
LEMMA StartMatrixKeepsInv ==
    ASSUME Inv, NEW summary, NEW scope \in Scopes, NEW resume \in SUBSET checkpoints,
           StartMatrix(summary, scope, resume)
    PROVE  Inv'
<1>1. /\ UNCHANGED <<store, checkpoints, evidence>> /\ started' = started + 1
      /\ started \in Nat /\ TypeInv'
  BY DEF StartMatrix, outside, Inv, TypeInv
<1>2. CheckpointInv' /\ EvidenceInv'
  <2>1. started <= started'
    BY <1>1
  <2>2. QED
    BY <1>1, <2>1, ArtifactsLast
<1>3. job' = [kind |-> "48.3", scope |-> scope, rules |-> rules,
              source |-> summary, run |-> started + 1,
              prior |-> UNION {c.records : c \in resume},
              todo |-> Executable, records |-> {}]
  BY DEF StartMatrix
<1>4. \A c \in checkpoints' : \A r \in c.records : r.run < job'.run
  BY <1>1, <1>3 DEF Inv, CheckpointInv, RanOn
<1>5. \A r \in job'.prior : Uploaded(r, summary)'
  BY <1>1, <1>3 DEF StartMatrix, Uploaded
<1>6. MatrixRun'
  <2>1. VerifyLocked(job'.source)
    BY <1>3 DEF StartMatrix
  <2>2. QED
    BY <1>1, <1>3, <1>4, <1>5, <2>1 DEF MatrixRun
<1>7. QED
  BY <1>1, <1>2, <1>6 DEF Inv, JobInv

(* What a shard writes was run on the locked evaluation of its plan.       *)
LEMMA EvaluatedRanOn ==
    ASSUME Inv, MatrixRun, NEW a \in Executable, NEW i \in Remaining(a),
           LockedAssetLoads(ReportOf(job.source, a))
    PROVE  /\ RanOn(Evaluate(i, ReportOf(job.source, a)), job.source)
           /\ Evaluate(i, ReportOf(job.source, a)).run = job.run
<1> DEFINE r == ReportOf(job.source, a)
<1>1. r.asset = a
  BY ReportIsThere DEF MatrixRun, Universe
<1>2. store[a] = r.data /\ store[a] \in DOMAIN Rows
  BY <1>1 DEF LockedAssetLoads, Inv, TypeInv
<1>3. i \in Experiments /\ AssetOf(i) = a
  BY SelectedArePlanned DEF Remaining
<1>4. Evaluate(i, r) =
        [exp |-> i, run |-> job.run, status |-> "SUCCESS", data |-> store[a],
         rules |-> job.rules, span |-> Boundary(r.data, PartOf(i))]
  BY <1>1 DEF Evaluate
<1> HIDE DEF r
<1>5. job.run \in 1..started
  BY DEF MatrixRun
<1>6. RanOn(Evaluate(i, r), job.source)
  BY <1>2, <1>3, <1>4, <1>5 DEF RanOn, r
<1>7. QED
  BY <1>4, <1>6 DEF r

LEMMA FailureRanOn ==
    ASSUME Inv, MatrixRun, NEW a, NEW i \in Remaining(a)
    PROVE  RanOn(Failure(i), job.source) /\ Failure(i).run = job.run
<1>1. i \in Experiments /\ job.run \in 1..started
  BY SelectedArePlanned DEF Remaining, MatrixRun
<1>2. QED
  BY <1>1 DEF RanOn, Failure

LEMMA RunShardKeepsInv ==
    ASSUME Inv, NEW a \in Executable, NEW broken, NEW n, RunShard(a, broken, n)
    PROVE  Inv'
<1>1. /\ UNCHANGED <<store, started, checkpoints, evidence>>
      /\ TypeInv' /\ MatrixRun
  BY JobKinds DEF RunShard, outside, Inv, TypeInv
<1>2. CheckpointInv' /\ EvidenceInv'
  <2>1. started <= started'
    BY <1>1 DEF TypeInv
  <2>2. QED
    BY <1>1, <2>1, ArtifactsLast
<1> DEFINE report == ReportOf(job.source, a)
           attempt(i) == IF LockedAssetLoads(report) /\ i \notin broken
                         THEN Evaluate(i, report) ELSE Failure(i)
           written == {attempt(i) : i \in FirstOf(Remaining(a), n)}
<1>3. PICK todo \in SUBSET job.todo :
          job' = [job EXCEPT !.records = @ \cup written, !.todo = todo]
  BY <1>1 DEF RunShard, MatrixRun
<1>4. \A r \in written : RanOn(r, job.source) /\ r.run = job.run
  <2>1. FirstOf(Remaining(a), n) \subseteq Remaining(a)
    BY DEF FirstOf
  <2>2. QED
    BY <2>1, <1>1, EvaluatedRanOn, FailureRanOn
<1> HIDE DEF written
<1>5. /\ job'.kind = "48.3" /\ job'.scope = job.scope /\ job'.rules = job.rules
      /\ job'.source = job.source /\ job'.run = job.run /\ job'.prior = job.prior
      /\ job'.todo = todo /\ job'.records = job.records \cup written
      /\ job' = [kind |-> "48.3", scope |-> job.scope, rules |-> job.rules,
                 source |-> job.source, run |-> job.run, prior |-> job.prior,
                 todo |-> todo, records |-> job.records \cup written]
  BY <1>1, <1>3 DEF MatrixRun
<1>6. Grows
  BY <1>1 DEF Grows, TypeInv
<1>7. \A r \in job'.records : RanOn(r, job.source)' /\ r.run = job'.run
  <2>1. PICK summary : summary = job.source
    OBVIOUS
  <2>2. \A r \in job'.records : RanOn(r, summary)' /\ r.run = job'.run
    BY <1>1, <1>4, <1>5, <1>6, <2>1, RecordsLast DEF MatrixRun
  <2>3. QED
    BY <2>1, <2>2, <1>5 DEF RanOn
<1>8. \A r \in job'.prior : Uploaded(r, job.source)'
  <2>1. PICK summary : summary = job.source
    OBVIOUS
  <2>2. \A r \in job'.prior : Uploaded(r, summary)'
    BY <1>1, <1>5, <1>6, <2>1, RecordsLast DEF MatrixRun
  <2>3. QED
    BY <2>1, <2>2, <1>5 DEF Uploaded
<1>9. MatrixRun'
  BY <1>1, <1>5, <1>7, <1>8 DEF MatrixRun
<1>10. QED
  BY <1>1, <1>2, <1>9 DEF Inv, JobInv

(* New evidence of one phase leaves the evidence of the others alone.      *)
LEMMA NewEvidence ==
    ASSUME NEW new, NEW phase, evidence' = evidence \cup new, \A e \in new : e.phase = phase
    PROVE  /\ \A other : other # phase => Of(other)' = Of(other)
           /\ Of(phase)' = Of(phase) \cup new
  BY DEF Of

(* The aggregate of a matrix has one result of every selected experiment.  *)
LEMMA AggregateIsComplete ==
    ASSUME NEW scope, NEW summary, NEW attempts, NEW last \in Nat,
           \A r \in attempts : r.run \in 1..last,
           NEW m \in AggregateAttempts(scope, summary, attempts)
    PROVE  /\ m.phase = "48.3" /\ m.scope = scope /\ m.source = summary
           /\ m.results \subseteq attempts
           /\ \A i \in SelectedRuns(scope) : OneResult(m, i)
           /\ m.passed => \A r \in m.results : r.status = "SUCCESS"
<1> DEFINE results == {Latest(attempts, i) : i \in SelectedRuns(scope)}
<1>1. /\ SelectedRuns(scope) \subseteq Attempted(attempts)
      /\ m = [phase |-> "48.3", scope |-> scope, source |-> summary, results |-> results,
              passed |-> \A r \in results : r.status = "SUCCESS"]
  BY DEF AggregateAttempts
<1>2. \A i \in SelectedRuns(scope) : Latest(attempts, i) \in attempts /\ Latest(attempts, i).exp = i
  BY <1>1, LatestIsThere
<1>3. m.results = results
  BY <1>1
<1>4. \A i \in SelectedRuns(scope) : OneResult(m, i)
  BY <1>2, <1>3 DEF OneResult
<1>5. QED
  BY <1>1, <1>2, <1>4

LEMMA FinishMatrixKeepsInv ==
    ASSUME Inv, FinishMatrix
    PROVE  Inv'
<1> DEFINE attempts == job.records \cup job.prior
           new == AggregateAttempts(job.scope, job.source, attempts)
           uploaded == [source |-> job.source, records |-> job.records]
<1>1. /\ UNCHANGED <<store, started>> /\ job' = NoJob
      /\ checkpoints' = checkpoints \cup {uploaded} /\ evidence' = evidence \cup new
      /\ TypeInv' /\ MatrixRun
  BY JobKinds DEF FinishMatrix, outside, Inv, TypeInv
<1>2. Grows
  BY <1>1 DEF Grows, TypeInv
<1>3. CheckpointInv'
  <2>1. \A r \in job.records : RanOn(r, job.source) /\ r.run = job.run /\ job.run \in 1..started
    BY <1>1 DEF MatrixRun
  <2>2. \A c \in checkpoints : \A r \in c.records : RanOn(r, c.source) /\ r.run < job.run
    BY <1>1 DEF MatrixRun, Inv, CheckpointInv
  <2>3. \A r, summary : RanOn(r, summary)' <=> RanOn(r, summary)
    BY <1>1 DEF RanOn
  <2>4. \A c \in checkpoints' : \A r \in c.records : RanOn(r, c.source)'
    <3>1. PICK summary, records : summary = job.source /\ records = job.records
      OBVIOUS
    <3>2. \A r \in records : RanOn(r, summary)'
      BY <2>1, <2>3, <3>1
    <3>3. QED
      BY <1>1, <2>2, <2>3, <3>1, <3>2
  <2>5. \A c, d \in checkpoints' : \A q \in c.records, r \in d.records :
            q.run = r.run => c.source = d.source
    <3>1. SUFFICES ASSUME NEW c \in checkpoints', NEW d \in checkpoints',
                          NEW q \in c.records, NEW r \in d.records, q.run = r.run
                   PROVE  c.source = d.source
      OBVIOUS
    <3>2. CASE c \in checkpoints /\ d \in checkpoints
      BY <3>1, <3>2 DEF Inv, CheckpointInv
    <3>3. CASE c = uploaded /\ d = uploaded
      BY <3>3
    <3>4. CASE c \in checkpoints /\ d = uploaded
      <4>1. q.run < job.run /\ r.run = job.run /\ job.run \in Nat
        BY <2>1, <2>2, <3>1, <3>4
      <4>2. QED
        BY <4>1, <3>1
    <3>5. CASE d \in checkpoints /\ c = uploaded
      <4>1. r.run < job.run /\ q.run = job.run /\ job.run \in Nat
        BY <2>1, <2>2, <3>1, <3>5
      <4>2. QED
        BY <4>1, <3>1
    <3>6. QED
      BY <1>1, <3>2, <3>3, <3>4, <3>5
  <2>6. QED
    BY <2>4, <2>5 DEF CheckpointInv
<1>4. EvidenceInv'
  <2>1. \A r \in job.prior : Uploaded(r, job.source)
    BY <1>1 DEF MatrixRun
  <2>2. \A r \in attempts : r.run \in 1..started
    BY <1>1, <2>1 DEF MatrixRun, Uploaded, RanOn, Inv, CheckpointInv
  <2>3. \A r \in attempts : \E c \in checkpoints' : c.source = job.source /\ r \in c.records
    BY <1>1, <2>1 DEF Uploaded
  <2>4. ASSUME NEW m \in new
        PROVE  m.phase = "48.3" /\ MatrixEvidence(m)'
    <3>1. /\ m.phase = "48.3" /\ m.scope = job.scope /\ m.source = job.source
          /\ m.results \subseteq attempts
          /\ \A i \in SelectedRuns(job.scope) : OneResult(m, i)
          /\ m.passed => \A r \in m.results : r.status = "SUCCESS"
      BY <2>2, <2>4, AggregateIsComplete DEF Inv, TypeInv
    <3>2. \A r \in m.results : Uploaded(r, m.source)'
      BY <2>3, <3>1 DEF Uploaded
    <3>3. QED
      BY <3>1, <3>2 DEF MatrixEvidence
  <2>5. /\ \A other : other # "48.3" => Of(other)' = Of(other)
        /\ Of("48.3")' = Of("48.3") \cup new
    BY <1>1, <2>4, NewEvidence
  <2>6. QED
    BY <2>4, <2>5, <1>2, EvidenceLasts DEF EvidenceInv
<1>5. QED
  BY <1>1, <1>3, <1>4 DEF Inv, JobInv, NoJob

(* Phases 48.4 and 48.5.                                                   *)
LEMMA ResampleKeepsInv ==
    ASSUME Inv, NEW m \in Of("48.3"), NEW scope, Resample(m, scope)
    PROVE  Inv'
<1>1. /\ UNCHANGED <<store, job, started, checkpoints>> /\ job' = NoJob
      /\ evidence' = evidence \cup Bootstrap(m, scope) /\ TypeInv'
  BY DEF Resample, outside, Inv, TypeInv
<1>2. Grows
  BY <1>1 DEF Grows, TypeInv
<1>3. CheckpointInv'
  BY <1>1, <1>2, RecordsLast DEF Inv, CheckpointInv
<1>4. EvidenceInv'
  <2>1. \A b \in Bootstrap(m, scope) : b.phase = "48.4" /\ b.source = m
    BY DEF Bootstrap
  <2>2. /\ \A other : other # "48.4" => Of(other)' = Of(other)
        /\ Of("48.4")' = Of("48.4") \cup Bootstrap(m, scope)
    BY <1>1, <2>1, NewEvidence
  <2>3. \A b \in Of("48.4")' : (b.source \in Of("48.3"))'
    BY <1>2, <2>1, <2>2, EvidenceLasts
  <2>4. QED
    BY <2>2, <2>3, <1>2, EvidenceLasts DEF EvidenceInv
<1>5. QED
  BY <1>1, <1>3, <1>4 DEF Inv, JobInv, NoJob

LEMMA AddNoiseKeepsInv ==
    ASSUME Inv, NEW b \in Of("48.4"), NEW scope, AddNoise(b, scope)
    PROVE  Inv'
<1>1. /\ UNCHANGED <<store, job, started, checkpoints>> /\ job' = NoJob
      /\ evidence' = evidence \cup Noise(b, scope) /\ TypeInv'
  BY DEF AddNoise, outside, Inv, TypeInv
<1>2. Grows
  BY <1>1 DEF Grows, TypeInv
<1>3. CheckpointInv'
  BY <1>1, <1>2, RecordsLast DEF Inv, CheckpointInv
<1>4. EvidenceInv'
  <2>1. \A n \in Noise(b, scope) : n.phase = "48.5" /\ n.source = b
    BY DEF Noise
  <2>2. /\ \A other : other # "48.5" => Of(other)' = Of(other)
        /\ Of("48.5")' = Of("48.5") \cup Noise(b, scope)
    BY <1>1, <2>1, NewEvidence
  <2>3. \A n \in Of("48.5")' : (n.source \in Of("48.4"))'
    BY <1>2, <2>1, <2>2, EvidenceLasts
  <2>4. QED
    BY <2>2, <2>3, <1>2, EvidenceLasts DEF EvidenceInv
<1>5. QED
  BY <1>1, <1>3, <1>4 DEF Inv, JobInv, NoJob

(* Phases 48.6 and 48.7.  The 48.5 bundle and the matrix that 48.6 is      *)
(* given have the same results: they rest on one locked evaluation.        *)
LEMMA StartStabilityKeepsInv ==
    ASSUME Inv, NEW n \in Of("48.5"), NEW m \in Of("48.3"), NEW scope,
           StartStability(n, m, scope)
    PROVE  Inv'
<1>1. /\ UNCHANGED <<store, started, checkpoints, evidence>> /\ TypeInv'
      /\ VerifyNoiseChain(n, m)
  BY DEF StartStability, outside, Inv, TypeInv
<1>2. CheckpointInv' /\ EvidenceInv'
  <2>1. started <= started'
    BY <1>1 DEF TypeInv
  <2>2. QED
    BY <1>1, <2>1, ArtifactsLast
<1>3. PICK todo :
          job' = [kind |-> "48.6", scope |-> scope, base |-> n, matrix |-> m,
                  todo |-> todo, results |-> {}]
  BY DEF StartStability
<1>4. NoiseChained(n, m.results, m.source)'
  <2>1. n.source.source \in Of("48.3") /\ n.source.source.results = m.results
    BY <1>1 DEF VerifyNoiseChain, Inv, EvidenceInv
  <2>2. n.source.source.source = m.source
    BY <1>1, <2>1, ResultsNameTheSource DEF VerifyNoiseChain, VerifyMatrix
  <2>3. Of("48.5")' = Of("48.5")
    BY <1>1 DEF Of
  <2>4. QED
    BY <2>1, <2>2, <2>3 DEF NoiseChained
<1>5. ReplayRun'
  <2>1. VerifyLocked(m.source)
    BY <1>1 DEF VerifyNoiseChain
  <2>2. QED
    BY <1>3, <1>4, <2>1 DEF ReplayRun, OnLocked, NoiseChained
<1>6. QED
  BY <1>1, <1>2, <1>5 DEF Inv, JobInv

LEMMA StartRegimeKeepsInv ==
    ASSUME Inv, NEW s \in Of("48.6"), NEW m \in Of("48.3"), NEW scope,
           StartRegime(s, m, scope)
    PROVE  Inv'
<1> DEFINE todo == SmokeReplay({Key(r) : r \in s.results}, scope)
<1>1. /\ UNCHANGED <<store, started, checkpoints, evidence>> /\ TypeInv'
      /\ VerifyStabilityChain(s, m)
  BY DEF StartRegime, outside, Inv, TypeInv
<1>2. CheckpointInv' /\ EvidenceInv'
  <2>1. started <= started'
    BY <1>1 DEF TypeInv
  <2>2. QED
    BY <1>1, <2>1, ArtifactsLast
<1>3. job' = [kind |-> "48.7", scope |-> scope, base |-> s, matrix |-> m,
              todo |-> todo, results |-> {}]
  BY DEF StartRegime
<1>4. StabilityChained(s, m.results, m.source)'
  BY <1>1 DEF VerifyStabilityChain, StabilityChained, Of
<1>5. \A k \in todo : k = <<k[1], k[2]>>
  BY DEF SmokeReplay, Key
<1>6. scope = "full" => todo \cup KeysOf({}) = LedgersBehind(s)
  <2>1. s.base.source.source.results = m.results
    BY <1>1 DEF VerifyStabilityChain, Inv, EvidenceInv, NoiseChained
  <2>2. TradePaths(s.base.source.source) = TradePaths(m)
    BY <2>1 DEF TradePaths
  <2>3. scope = "full" => todo = {Key(r) : r \in s.results}
    BY DEF SmokeReplay
  <2>4. {Key(r) : r \in s.results} = {Key(p) : p \in TradePaths(m)}
    BY <1>1 DEF VerifyStabilityChain
  <2>5. QED
    BY <2>2, <2>3, <2>4 DEF LedgersBehind, KeysOf
<1> HIDE DEF todo
<1>7. ReplayRun'
  <2>1. VerifyLocked(m.source)
    BY <1>1 DEF VerifyStabilityChain
  <2>2. QED
    BY <1>3, <1>4, <1>5, <1>6, <2>1 DEF ReplayRun, OnLocked, StabilityChained
<1>8. QED
  BY <1>1, <1>2, <1>7 DEF Inv, JobInv

LEMMA ReplayAssetKeepsInv ==
    ASSUME Inv, NEW a \in Executable, NEW shard, ReplayAsset(a, shard)
    PROVE  Inv'
<1> DEFINE r == ReportOf(job.matrix.source, a)
           dealt == {k \in job.todo : LedgerShard(k) = shard}
           mine == {k \in dealt : k[1] = a}
           replayed == {Replay(k, r) : k \in mine}
<1>1. /\ UNCHANGED <<store, started, checkpoints, evidence>> /\ TypeInv' /\ ReplayRun
      /\ LockedAssetLoads(r)
      /\ job' = [job EXCEPT !.todo = @ \ mine, !.results = @ \cup replayed]
  BY JobKinds DEF ReplayAsset, outside, Inv, TypeInv
<1>2. CheckpointInv' /\ EvidenceInv'
  <2>1. started <= started'
    BY <1>1 DEF TypeInv
  <2>2. QED
    BY <1>1, <2>1, ArtifactsLast
<1>3. \A x \in replayed : x.data = ReportOf(job.matrix.source, x.asset).data
  <2>1. r.asset = a
    BY <1>1, ReportIsThere DEF ReplayRun, Universe
  <2>2. store[a] = r.data
    BY <1>1, <2>1 DEF LockedAssetLoads
  <2>3. ASSUME NEW k \in mine
        PROVE  Replay(k, r).data = r.data /\ Replay(k, r).asset = a
    BY <2>2, <2>3 DEF Replay
  <2>4. QED
    BY <2>3
<1>4. job.kind = "48.7" => KeysOf(replayed) = mine
  <2>1. ASSUME job.kind = "48.7", NEW k \in mine
        PROVE  Key(Replay(k, r)) = k
    BY <1>1, <2>1 DEF ReplayRun, Key, Replay
  <2>2. QED
    BY <2>1 DEF KeysOf
<1>5. mine \subseteq job.todo
  OBVIOUS
<1> HIDE DEF r, mine, replayed
<1>6. /\ job'.kind = job.kind /\ job'.scope = job.scope /\ job'.base = job.base
      /\ job'.matrix = job.matrix
      /\ job'.todo = job.todo \ mine /\ job'.results = job.results \cup replayed
      /\ job' = [kind |-> job'.kind, scope |-> job'.scope, base |-> job'.base,
                 matrix |-> job'.matrix, todo |-> job'.todo, results |-> job'.results]
  BY <1>1 DEF ReplayRun
<1>7. OnLocked(job'.results, job'.matrix.source)
  BY <1>1, <1>3, <1>6 DEF ReplayRun, OnLocked
<1>8. /\ job.kind = "48.6" => NoiseChained(job.base, job.matrix.results, job.matrix.source)'
      /\ job.kind = "48.7" => StabilityChained(job.base, job.matrix.results, job.matrix.source)'
  BY <1>1, <1>6 DEF ReplayRun, NoiseChained, StabilityChained, Of
<1>9. job.kind = "48.7" /\ job.scope = "full" =>
          job'.todo \cup KeysOf(job'.results) = LedgersBehind(job'.base)
  <2>1. KeysOf(job'.results) = KeysOf(job.results) \cup KeysOf(replayed)
    BY <1>6 DEF KeysOf
  <2>2. QED
    BY <1>1, <1>4, <1>5, <1>6, <2>1 DEF ReplayRun
<1>10. ReplayRun'
  BY <1>1, <1>6, <1>7, <1>8, <1>9 DEF ReplayRun
<1>11. QED
  BY <1>1, <1>2, <1>10 DEF Inv, JobInv

LEMMA FinishReplayKeepsInv ==
    ASSUME Inv, NEW passed, FinishReplay(passed)
    PROVE  Inv'
<1>1. PICK e : e = Summary(passed)
  OBVIOUS
<1>2. /\ UNCHANGED <<store, started, checkpoints>> /\ job' = NoJob /\ job.todo = {}
      /\ evidence' = evidence \cup {e} /\ TypeInv' /\ ReplayRun
  BY <1>1, JobKinds DEF FinishReplay, outside, Inv, TypeInv
<1>3. Grows
  BY <1>2 DEF Grows, TypeInv
<1>4. CheckpointInv'
  BY <1>2, <1>3, RecordsLast DEF Inv, CheckpointInv
<1>5. /\ e.phase = job.kind /\ e.scope = job.scope /\ e.base = job.base
      /\ e.matrix = job.matrix.results /\ e.locked = job.matrix.source
      /\ e.results = job.results
  BY <1>1 DEF Summary
<1>6. OnLocked(e.results, e.locked)
  BY <1>2, <1>5 DEF ReplayRun
<1>7. ASSUME NEW kind, kind = job.kind
      PROVE  /\ \A other : other # kind => Of(other)' = Of(other)
             /\ Of(kind)' = Of(kind) \cup {e}
  <2>1. \A x \in {e} : x.phase = kind
    BY <1>5, <1>7
  <2>2. evidence' = evidence \cup {e}
    BY <1>2
  <2>3. QED
    BY <2>1, <2>2, NewEvidence
<1>8. CASE job.kind = "48.6"
  <2>1. NoiseChained(e.base, e.matrix, e.locked)'
    <3>1. NoiseChained(e.base, e.matrix, e.locked)
      BY <1>2, <1>5, <1>8 DEF ReplayRun
    <3>2. QED
      BY <3>1, <1>3, <1>5, <1>8, ChainsLast
  <2>2. \A s \in Of("48.6")' :
            OnLocked(s.results, s.locked) /\ NoiseChained(s.base, s.matrix, s.locked)'
    BY <1>3, <1>6, <1>7, <1>8, <2>1, EvidenceLasts
  <2>3. EvidenceInv'
    BY <1>3, <1>7, <1>8, <2>2, EvidenceLasts DEF EvidenceInv
  <2>4. QED
    BY <1>2, <1>4, <2>3 DEF Inv, JobInv, NoJob
<1>9. CASE job.kind = "48.7"
  <2>1. /\ StabilityChained(e.base, e.matrix, e.locked)'
        /\ e.scope = "full" => KeysOf(e.results) = LedgersBehind(e.base)
    BY <1>2, <1>3, <1>5, <1>9, ChainsLast DEF ReplayRun
  <2>2. EvidenceInv'
    BY <1>3, <1>6, <1>7, <1>9, <2>1, EvidenceLasts DEF EvidenceInv
  <2>3. QED
    BY <1>2, <1>4, <2>2 DEF Inv, JobInv, NoJob
<1>10. QED
  BY <1>2, <1>8, <1>9 DEF ReplayRun
-----------------------------------------------------------------------------
(***************************************************************************)
(* The theorems.                                                           *)
(***************************************************************************)

LEMMA NextKeepsInv == Inv /\ [Next]_vars => Inv'
<1>1. SUFFICES ASSUME Inv, [Next]_vars
               PROVE  Inv'
  OBVIOUS
<1>2. CASE Publish \/ UNCHANGED vars
  BY <1>1, <1>2, PublishKeepsInv
<1>3. CASE FinishLocked \/ FinishMatrix \/ FailWorkflow
  BY <1>1, <1>3, FinishLockedKeepsInv, FinishMatrixKeepsInv, FailKeepsInv
<1>4. ASSUME NEW scope \in Open, StartLocked(scope)
      PROVE  Inv'
  BY <1>1, <1>4, StartLockedKeepsInv
<1>5. ASSUME NEW scope \in Open, NEW s \in Of("48.2"), NEW c \in Outcomes,
             StartMatrix(s, scope, c)
      PROVE  Inv'
  <2>1. scope \in Scopes /\ c \in SUBSET checkpoints
    BY <1>5 DEF Open, Outcomes
  <2>2. QED
    BY <1>1, <1>5, <2>1, StartMatrixKeepsInv
<1>6. ASSUME NEW scope \in Open, NEW m \in Of("48.3"), Resample(m, scope)
      PROVE  Inv'
  BY <1>1, <1>6, ResampleKeepsInv
<1>7. ASSUME NEW scope \in Open, NEW b \in Of("48.4"), AddNoise(b, scope)
      PROVE  Inv'
  BY <1>1, <1>7, AddNoiseKeepsInv
<1>8. ASSUME NEW scope \in Open, NEW n \in Of("48.5"), NEW m \in Of("48.3"),
             StartStability(n, m, scope)
      PROVE  Inv'
  BY <1>1, <1>8, StartStabilityKeepsInv
<1>9. ASSUME NEW scope \in Open, NEW s \in Of("48.6"), NEW m \in Of("48.3"),
             StartRegime(s, m, scope)
      PROVE  Inv'
  BY <1>1, <1>9, StartRegimeKeepsInv
<1>10. ASSUME NEW a \in Universe, RunAsset(a)
       PROVE  Inv'
  BY <1>1, <1>10, RunAssetKeepsInv
<1>11. ASSUME NEW a \in Executable, NEW broken \in Failures, NEW n \in 0..(2 * Seeds),
              RunShard(a, broken, n)
       PROVE  Inv'
  BY <1>1, <1>11, RunShardKeepsInv
<1>12. ASSUME NEW passed \in BOOLEAN, FinishReplay(passed)
       PROVE  Inv'
  BY <1>1, <1>12, FinishReplayKeepsInv
<1>13. ASSUME NEW a \in Executable, NEW shard \in 0..(ShardCount - 1), ReplayAsset(a, shard)
       PROVE  Inv'
  BY <1>1, <1>13, ReplayAssetKeepsInv
<1>14. QED
  BY <1>1, <1>2, <1>3, <1>4, <1>5, <1>6, <1>7, <1>8, <1>9, <1>10, <1>11, <1>12, <1>13 DEF Next

(* The inductive invariant: what each artifact was made from, that one run *)
(* number belongs to one locked evaluation, and what the running workflow  *)
(* has done so far.                                                        *)
THEOREM ArtifactsTraced == Spec => []Inv
<1>1. QED
  BY InitInv, NextKeepsInv, PTL DEF Spec

(* Whatever the bucket and the qualification document become meanwhile, a  *)
(* result of 48.3, 48.6 or 48.7 was computed from the data that the 48.2   *)
(* report of its chain sealed (_load_locked_asset and its callers).        *)
THEOREM DataStaysSealed == Spec => []SealedData
<1>1. Inv => SealedData
  <2>1. SUFFICES ASSUME Inv
                 PROVE  SealedData
    OBVIOUS
  <2>2. \A m \in Of("48.3") : \A r \in m.results :
            r.status = "SUCCESS" => r.data = ReportOf(m.source, AssetOf(r.exp)).data
    BY <2>1, ResultsRanOn DEF RanOn
  <2>3. \A e \in Of("48.6") \cup Of("48.7") : \A r \in e.results :
            r.data = ReportOf(e.locked, r.asset).data
    BY <2>1 DEF Inv, EvidenceInv, OnLocked
  <2>4. QED
    BY <2>2, <2>3 DEF SealedData
<1>2. QED
  BY <1>1, ArtifactsTraced, PTL

(* For every number of rows, windows and seeds: no walk-forward result of  *)
(* a matrix rests on an observation of the locked split, and no two        *)
(* windows share one (seal_oos_plan, build_pre_oos_walk_forward_windows).  *)
THEOREM LockedSplitStaysUnseen == Spec => []NoLeakage
<1>1. Inv => NoLeakage
  <2>1. SUFFICES ASSUME Inv, NEW m \in Of("48.3"), NEW q \in m.results, NEW r \in m.results,
                        q.status = "SUCCESS", r.status = "SUCCESS",
                        AssetOf(q.exp) = AssetOf(r.exp), PartOf(q.exp) # PartOf(r.exp)
                 PROVE  q.span[2] <= r.span[1] \/ r.span[2] <= q.span[1]
    BY DEF NoLeakage
  <2>2. RanOn(q, m.source) /\ RanOn(r, m.source)
    BY <2>1, ResultsRanOn
  <2>3. PICK v \in DOMAIN Rows :
            q.span = Boundary(v, PartOf(q.exp)) /\ r.span = Boundary(v, PartOf(r.exp))
    BY <2>1, <2>2 DEF RanOn
  <2>4. PartOf(q.exp) \in 0..Windows /\ PartOf(r.exp) \in 0..Windows
    BY <2>2, PartIsThere DEF RanOn
  <2>5. PartOf(q.exp) < PartOf(r.exp) \/ PartOf(r.exp) < PartOf(q.exp)
    BY <2>1, <2>4, PlanAssumption
  <2>6. QED
    BY <2>3, <2>4, <2>5, BoundariesAreDisjoint
<1>2. QED
  BY <1>1, ArtifactsTraced, PTL

(* A matrix that passes has exactly one result of every selected           *)
(* experiment, a success that a run of the same locked evaluation          *)
(* uploaded, whichever shards died and however it was resumed              *)
(* (aggregate_attempts).                                                   *)
THEOREM PassingMatrixIsComplete == Spec => []MatrixIsComplete
<1>1. Inv => MatrixIsComplete
  <2>1. SUFFICES ASSUME Inv, NEW m \in Of("48.3"), m.passed
                 PROVE  /\ \A i \in SelectedRuns(m.scope) :
                              Cardinality({r \in m.results : r.exp = i}) = 1
                        /\ \A r \in m.results : \E c \in checkpoints :
                              r.status = "SUCCESS" /\ r \in c.records /\ c.source = m.source
    BY DEF MatrixIsComplete
  <2>2. MatrixEvidence(m)
    BY <2>1 DEF Inv, EvidenceInv
  <2>3. ASSUME NEW i \in SelectedRuns(m.scope)
        PROVE  Cardinality({r \in m.results : r.exp = i}) = 1
    <3>1. PICK r \in m.results : \A q \in m.results : q.exp = i <=> q = r
      BY <2>2, <2>3 DEF MatrixEvidence, OneResult
    <3>2. {q \in m.results : q.exp = i} = {r}
      BY <3>1
    <3>3. QED
      BY <3>2, FS_Singleton
  <2>4. QED
    BY <2>1, <2>2, <2>3 DEF MatrixEvidence, Uploaded
<1>2. QED
  BY <1>1, ArtifactsTraced, PTL

(* The evidence behind a 48.7 goes back through one 48.6, one 48.5 and one *)
(* 48.4 to one matrix and one locked evaluation, although 48.6 and 48.7    *)
(* are each given the artifacts of any two runs (verify_source_chain).     *)
THEOREM EvidenceIsOneChain == Spec => []OneChain
<1>1. Inv => OneChain
  <2>1. SUFFICES ASSUME Inv, NEW e \in Of("48.7")
                 PROVE  /\ e.base.base.source.source.results = e.matrix
                        /\ e.base.base.source.source.source = e.locked
                        /\ e.base.matrix = e.matrix /\ e.base.locked = e.locked
                        /\ e.scope = "full" =>
                               {Key(r) : r \in e.results}
                               = {Key(p) : p \in TradePaths(e.base.base.source.source)}
    BY DEF OneChain
  <2>2. StabilityChained(e.base, e.matrix, e.locked)
    BY <2>1 DEF Inv, EvidenceInv
  <2>3. NoiseChained(e.base.base, e.base.matrix, e.base.locked)
    BY <2>1, <2>2 DEF StabilityChained, Inv, EvidenceInv
  <2>4. e.scope = "full" => KeysOf(e.results) = LedgersBehind(e.base)
    BY <2>1 DEF Inv, EvidenceInv
  <2>5. QED
    BY <2>2, <2>3, <2>4 DEF StabilityChained, NoiseChained, KeysOf, LedgersBehind
<1>2. QED
  BY <1>1, ArtifactsTraced, PTL
-----------------------------------------------------------------------------
(***************************************************************************)
(* What the gates behind the phases promise for every batch of runs, every *)
(* policy and every collection of phase evidence.                          *)
(***************************************************************************)
Gates == INSTANCE Qualification

(* A decision that is not one of the refusals was reached past every gate. *)
LEMMA QualifiedPassedGates ==
    ASSUME NEW runs, NEW policy, Gates!BatchDecision(runs, policy) = "QUALIFIED"
    PROVE  LET report == Gates!Report(runs)
           IN /\ ~Gates!TooFewRuns(report, policy)
              /\ ~(report.trades < policy.trades)
              /\ Gates!Traded(Gates!InSample(runs)) # {}
              /\ ~Gates!PoorFactor(report, policy)
              /\ ~(report.net <= 0)
              /\ report.surely
              /\ ~(report.drawdown > policy.drawdown)
  BY DEF Gates!BatchDecision, Gates!Invalid

(* A batch that qualify_batch qualifies passes _statistical_gate_reasons   *)
(* of phase 48.9 under the same policy: the second gate repeats the first. *)
THEOREM BatchPassesFinalGate ==
    \A runs, policy :
        Gates!BatchDecision(runs, policy) = "QUALIFIED"
            => Gates!StatisticalReasons(Gates!BatchDecision(runs, policy), Gates!Report(runs), policy) = {}
  <1>1. SUFFICES ASSUME NEW runs, NEW policy, Gates!BatchDecision(runs, policy) = "QUALIFIED",
                        NEW reason \in Gates!StatisticalReasons("QUALIFIED", Gates!Report(runs), policy)
                 PROVE  FALSE
    OBVIOUS
  <1>2. QED
    BY <1>1, QualifiedPassedGates DEF Gates!StatisticalReasons

(* Runs out of sample alone, the only ones the matrix of phase 48.3 has,   *)
(* never qualify, however many and however good they are.                  *)
THEOREM OutOfSampleNeverQualifies ==
    \A runs, policy :
        (\A r \in runs : r.split # "IS") => Gates!BatchDecision(runs, policy) # "QUALIFIED"
  <1>1. SUFFICES ASSUME NEW runs, NEW policy, \A r \in runs : r.split # "IS",
                        Gates!BatchDecision(runs, policy) = "QUALIFIED"
                 PROVE  FALSE
    OBVIOUS
  <1>2. Gates!Traded(Gates!InSample(runs)) # {}
    BY <1>1, QualifiedPassedGates
  <1>3. Gates!InSample(runs) = {}
    BY <1>1 DEF Gates!InSample, Gates!OfSplits
  <1>4. QED
    BY <1>2, <1>3 DEF Gates!Traded

(* Phase 48.9 qualifies only a strategy for which every required phase has *)
(* one piece of evidence, a passing one, and the batch itself qualified.   *)
THEOREM FinalNeedsEveryPhase ==
    \A given, decision, report, policy :
        Gates!FinalDecision(given, decision, report, policy) = "QUALIFIED"
            => /\ \A phase \in Gates!RequiredPhases :
                     \E e \in given :
                        /\ e.phase = phase /\ e.passed
                        /\ \A f \in given : f.phase = phase => f = e
               /\ decision = "QUALIFIED"
  <1>1. SUFFICES ASSUME NEW given, NEW decision, NEW report, NEW policy,
                        Gates!FinalDecision(given, decision, report, policy) = "QUALIFIED"
                 PROVE  /\ \A phase \in Gates!RequiredPhases :
                              \E e \in given :
                                 /\ e.phase = phase /\ e.passed
                                 /\ \A f \in given : f.phase = phase => f = e
                        /\ decision = "QUALIFIED"
    OBVIOUS
  <1>2. /\ {e.phase : e \in given} = Gates!RequiredPhases
        /\ \A e, f \in given : e.phase = f.phase => e = f
        /\ \A e \in given : e.passed
        /\ Gates!StatisticalReasons(decision, report, policy) = {}
    BY <1>1 DEF Gates!FinalDecision, Gates!Invalid
  <1>3. decision = "QUALIFIED"
    <2>1. CASE decision # "QUALIFIED"
      <3>1. "decision" \in Gates!StatisticalReasons(decision, report, policy)
        BY <2>1 DEF Gates!StatisticalReasons
      <3>2. QED
        BY <1>2, <3>1
    <2>2. QED
      BY <2>1
  <1>4. QED
    BY <1>2, <1>3

(***************************************************************************)
(* The locked dataset (LockedArchive).                                     *)
(***************************************************************************)

(* Multiples of a length.                                                  *)
Multiple(n, a) == n \in Nat \ {0} /\ a \in Int /\ a % n = 0

LEMMA MultipleIsProduct ==
    ASSUME NEW n, NEW a, Multiple(n, a)
    PROVE  n \in Nat \ {0} /\ a \in Int /\ \E k \in Int : a = n * k
<1>1. n \in Nat \ {0} /\ a \in Int /\ a % n = 0
  BY DEF Multiple
<1>2. PICK q : q = a \div n
  OBVIOUS
<1>3. q \in Int /\ a = n * q + (a % n)
  BY <1>1, <1>2
<1>4. a = n * q
  BY <1>1, <1>3
<1> QED
  BY <1>1, <1>3, <1>4

LEMMA ProductIsMultiple ==
    ASSUME NEW n \in Nat \ {0}, NEW k \in Int, NEW a, a = n * k
    PROVE  Multiple(n, a)
<1> SUFFICES a % n = 0
  BY DEF Multiple
<1>1. PICK q, r : a = n * k /\ q = a \div n /\ r = a % n
  OBVIOUS
<1>2. a \in Int /\ q \in Int /\ r \in 0 .. n - 1 /\ a = n * q + r
  BY <1>1
<1>3. r = n * (k - q)
  BY <1>1, <1>2
<1>4. k - q \in Int
  BY <1>2
<1>5. CASE k - q >= 1
  BY <1>2, <1>3, <1>4, <1>5
<1>6. CASE k - q <= -1
  BY <1>2, <1>3, <1>4, <1>6
<1>7. CASE k - q = 0
  BY <1>1, <1>3, <1>7
<1> QED
  BY <1>4, <1>5, <1>6, <1>7

LEMMA MultipleFacts ==
    ASSUME NEW n, NEW a, NEW b, Multiple(n, a), Multiple(n, b)
    PROVE  /\ Multiple(n, a + b) /\ Multiple(n, a - b)
           /\ a < b => a + n <= b
<1>1. PICK k \in Int, l \in Int : a = n * k /\ b = n * l
  BY MultipleIsProduct
<1>0. n \in Nat \ {0}
  BY DEF Multiple
<1>2. a + b = n * (k + l) /\ a - b = n * (k - l) /\ k + l \in Int /\ k - l \in Int
  BY <1>0, <1>1
<1>3. Multiple(n, n * (k + l)) /\ Multiple(n, n * (k - l))
  BY <1>0, <1>2, ProductIsMultiple
<1>4. ASSUME a < b
      PROVE  a + n <= b
  <2>1. l - k >= 1
    <3>1. CASE l - k <= 0
      <4>1. n * (k - l) >= 0
        BY <1>0, <1>1, <3>1
      <4> QED
        BY <1>0, <1>1, <1>2, <1>4, <4>1
    <3> QED
      BY <1>1, <3>1
  <2>2. n * (l - k) >= n
    BY <1>0, <1>1, <2>1
  <2>3. b - a = n * (l - k)
    BY <1>0, <1>1
  <2> QED
    BY <1>0, <1>1, <2>2, <2>3
<1> QED
  BY <1>2, <1>3, <1>4

(* Least and greatest of a bounded set.                                    *)
LEMMA LeastOfTwo ==
    ASSUME NEW a \in Int, NEW b \in Int
    PROVE  Min({a, b}) = IF a <= b THEN a ELSE b
<1>1. PICK m : m = IF a <= b THEN a ELSE b
  OBVIOUS
<1>2. m \in {a, b} /\ \A y \in {a, b} : m <= y
  BY <1>1
<1>3. \A z \in {a, b} : (\A y \in {a, b} : z <= y) => z = m
  BY <1>1
<1>4. Min({a, b}) = m
  BY <1>2, <1>3 DEF Min
<1> QED
  BY <1>1, <1>4

LEMMA LeastMember ==
    ASSUME NEW T \in SUBSET Nat, T # {}
    PROVE  \E x \in T : \A y \in T : x <= y
<1>1. IsWellFoundedOn(OpToRel(<, Nat), Nat)
  BY NatLessThanWellFounded
<1>2. PICK x \in T : \A y \in T : ~(<<y, x>> \in OpToRel(<, Nat))
  BY <1>1, WFMin
<1>3. \A y \in T : ~(y < x)
  BY <1>2 DEF OpToRel
<1>4. QED
  BY <1>3

LEMMA GreatestOfBounded ==
    ASSUME NEW S \in SUBSET Nat, S # {}, NEW bound \in Nat, \A x \in S : x <= bound
    PROVE  /\ Max(S) \in S /\ \A y \in S : y <= Max(S)
           /\ Min(S) \in S /\ \A y \in S : Min(S) <= y
<1>1. PICK T : T = {n \in Nat : bound - n \in S}
  OBVIOUS
<1>2. PICK x \in S : TRUE
  OBVIOUS
<1>3. \A y \in S : y \in Nat /\ bound - y \in Nat /\ bound - (bound - y) = y
  OBVIOUS
<1>4. \A y \in S : bound - y \in T
  BY <1>1, <1>3
<1>5. PICK m \in T : \A n \in T : m <= n
  BY <1>1, <1>2, <1>4, LeastMember
<1>6. PICK g : g = bound - m
  OBVIOUS
<1>7. g \in S /\ \A y \in S : g >= y
  <2>1. g \in S /\ m \in Nat
    BY <1>1, <1>5, <1>6
  <2>2. \A y \in S : m <= bound - y
    BY <1>4, <1>5
  <2> QED
    BY <1>3, <1>6, <2>1, <2>2
<1>8. Max(S) \in S /\ \A y \in S : Max(S) >= y
  BY <1>7 DEF Max
<1>9. PICK l \in S : \A y \in S : l <= y
  BY LeastMember
<1>10. Min(S) \in S /\ \A y \in S : Min(S) <= y
  BY <1>9 DEF Min
<1> QED
  BY <1>8, <1>10
(***************************************************************************)
(* The inductive invariant: of each job, its checkpoints cp, what it is    *)
(* doing p and its directories d.                                          *)
(***************************************************************************)
IsOn(f, S) == f = [x \in S |-> f[x]]

RestSteps == [do : {"rest"}, tf : DOMAIN Timeframes, cursor : Nat]
WriteSteps == [do : {"write"}, shard : {"deals", "lock"}, tf : DOMAIN Timeframes]
SealSteps == [do : {"seal"}, shard : Shards]
PublishSteps == [do : {"head", "put", "readback"}, kind : {"source", "research"}, at : Nat \ {0}]
Downloading(p) == "do" \in DOMAIN p /\ p["do"] = "download"
StepOK(p) ==
    p \in {AtRest} \cup RestSteps \cup WriteSteps \cup SealSteps \cup PublishSteps \/ Downloading(p)

(* An answer says of every candle it has how far it had got.               *)
AnswerOK(tf, c, got) ==
    /\ got = [rows |-> got.rows, retrieved_at |-> got.retrieved_at]
    /\ got.retrieved_at \in Nat
    /\ DOMAIN got.rows \subseteq Slots(tf, c, WindowEnd(tf, c))
    /\ got.rows = [t \in DOMAIN got.rows |-> Min({got.retrieved_at, t + Step[tf]})]
CheckpointOK(cp) ==
    /\ IsOn(cp, Requests)
    /\ \A tf \in TFs : \A c \in Slots(tf, Joins, LastCandle(tf)) :
          cp[Request(tf, c)] # Nothing => AnswerOK(tf, c, cp[Request(tf, c)])

DirectoryOK(d) ==
    /\ IsOn(d, Shards)
    /\ \A s \in Shards :
          /\ d[s] = [files |-> d[s].files, manifest |-> d[s].manifest]
          /\ IsOn(d[s].files, TFs)

(* The requests a timeframe has checkpoints of are the first ones of its   *)
(* chain, and a collection goes along it.                                  *)
AskedIn(cp, tf, cursor) ==
    {c \in Slots(tf, Joins, LastCandle(tf)) : c < cursor /\ cp[Request(tf, c)] # Nothing}
MergedIn(cp, tf, cursor) ==
    LET RowsOf(c) == cp[Request(tf, c)].rows
        asked == AskedIn(cp, tf, cursor)
        LaterOf(t) == Max({c \in asked : t \in DOMAIN RowsOf(c)})
    IN  [t \in UNION {DOMAIN RowsOf(c) : c \in asked} |-> RowsOf(LaterOf(t))[t]]
Answered(cp, tf) == AskedIn(cp, tf, Ends)
Through(cp, tf) == \E c \in Answered(cp, tf) : WindowEnd(tf, c) >= LastCandle(tf)
ChainOK(cp, tf) ==
    /\ \A c \in Answered(cp, tf) : c = Joins \/ c < LastCandle(tf)
    /\ Answered(cp, tf) # {} => Joins \in Answered(cp, tf)
    /\ \A a, b \in Answered(cp, tf) : a < b => WindowEnd(tf, a) \in Answered(cp, tf)
OnChain(cp, tf, cursor) ==
    cursor = Joins \/ \E c \in Answered(cp, tf) : cursor = Following(tf, c)

(* A file of the REST shard is what all its requests were answered with.   *)
RestFileOK(cp, d, tf) ==
    d["rest"].files[tf] # Nothing => Through(cp, tf) /\ d["rest"].files[tf] = MergedIn(cp, tf, Ends)
RestSealOK(d) ==
    d["rest"].manifest # Nothing =>
        /\ \A tf \in TFs : d["rest"].files[tf] # Nothing
        /\ d["rest"].manifest.content = d["rest"].files
RestGoing(cp, p, d) ==
    /\ p.do = "rest" =>
          /\ OnChain(cp, Timeframes[p.tf], p.cursor)
          /\ \A i \in 1 .. p.tf - 1 : d["rest"].files[Timeframes[i]] # Nothing
    /\ p.do = "seal" /\ p.shard = "rest" => \A tf \in TFs : d["rest"].files[tf] # Nothing

(* The rows a shard is written with; a written shard has passed its check. *)
ContentIn(d, s, tf) ==
    IF s = "lock" THEN Over(d["deals"].files[tf], d["rest"].files[tf]) ELSE DealsContent[tf]
Written(d, s, tf) ==
    /\ d[s].files[tf] = ContentIn(d, s, tf)
    /\ Valid(tf, d[s].files[tf])
    /\ Covers(tf, d[s].files[tf], Span[s][1], Span[s][2])
Sealed(d, s) == d[s].manifest # Nothing
Mergeable(d) == Sealed(d, "deals") /\ Sealed(d, "rest")
SealOK(d, s) ==
    Sealed(d, s) =>
        /\ \A tf \in TFs : Written(d, s, tf)
        /\ d[s].manifest.content = d[s].files
        /\ s = "lock" => Mergeable(d)
WriteGoing(p, d) ==
    /\ p.do \in {"write", "seal"} /\ p.shard # "rest" =>
          ~Sealed(d, p.shard) /\ (p.shard = "lock" => Mergeable(d))
    /\ p.do = "write" => \A i \in 1 .. p.tf - 1 : Written(d, p.shard, Timeframes[i])
    /\ p.do = "seal" /\ p.shard # "rest" => \A tf \in TFs : Written(d, p.shard, tf)

CollectedOK(cp, d) ==
    /\ CheckpointOK(cp) /\ DirectoryOK(d)
    /\ \A tf \in TFs : ChainOK(cp, tf) /\ RestFileOK(cp, d, tf)
    /\ RestSealOK(d) /\ SealOK(d, "deals") /\ SealOK(d, "lock")
GoingOK(cp, p, d) == StepOK(p) /\ RestGoing(cp, p, d) /\ WriteGoing(p, d)

(* What a prefix of the store stands for, and the order it is filled in.   *)
ContentUnder(prefix) == IF prefix.kind = "source" THEN prefix.of ELSE prefix.of.content
Named(kind) == TFs \cup (IF kind = "source" THEN {} ELSE {"checksums"})
ObjectOK(put, key) ==
    /\ key[2] \in TFs => put[key] = ContentUnder(key[1])[key[2]]
    /\ key[2] = "checksums" => put[key] = ContentUnder(key[1])
    /\ key[2] = "manifest" =>
          /\ put[key].content = ContentUnder(key[1])
          /\ \A name \in Named(key[1].kind) : ObjectKey(key[1], name) \in DOMAIN put
PublicationOK(put, p, d) ==
    p.do \in {"head", "put", "readback"} =>
        /\ p.at \in DOMAIN Plan(p.kind) /\ Sealed(d, "lock")
        /\ \A i \in 1 .. (IF p.do = "readback" THEN p.at ELSE p.at - 1) :
              ObjectKey(Prefix(p.kind, d["lock"].manifest), Plan(p.kind)[i]) \in DOMAIN put

ArchiveInv ==
    /\ now \in Nat
    /\ IsOn(pc, Jobs) /\ IsOn(checkpoint, Jobs) /\ IsOn(dir, Jobs)
    /\ \A j \in Jobs :
          /\ CollectedOK(checkpoint[j], dir[j])
          /\ GoingOK(checkpoint[j], pc[j], dir[j])
          /\ PublicationOK(objects, pc[j], dir[j])
    /\ \A key \in DOMAIN objects : ObjectOK(objects, key)

(* The requests of a timeframe.                                            *)
LEMMA TimeframeFacts ==
    ASSUME NEW tf \in TFs
    PROVE  /\ Step[tf] \in Nat \ {0}
           /\ Opens \in Nat /\ Joins \in Nat /\ Ends \in Nat /\ Opens < Joins /\ Joins < Ends
           /\ LastCandle(tf) \in Nat /\ LastCandle(tf) + Step[tf] = Ends /\ Joins <= LastCandle(tf)
           /\ Multiple(Step[tf], Opens) /\ Multiple(Step[tf], Joins) /\ Multiple(Step[tf], LastCandle(tf))
           /\ Multiple(Step[tf], Step[tf])
<1>1. /\ Step[tf] \in Nat \ {0}
      /\ Opens \in Nat /\ Joins \in Nat /\ Ends \in Nat /\ Opens < Joins /\ Joins < Ends
      /\ Opens % Step[tf] = 0 /\ Joins % Step[tf] = 0 /\ Ends % Step[tf] = 0
  BY TimeAssumption, AlignmentAssumption DEF TFs
<1>2. PICK n : n = Step[tf]
  OBVIOUS
<1>3. Multiple(n, Opens) /\ Multiple(n, Joins) /\ Multiple(n, Ends) /\ n \in Nat \ {0}
  BY <1>1, <1>2 DEF Multiple
<1>4. Multiple(n, n)
  BY <1>3, ProductIsMultiple, n * 1 = n
<1>5. Joins + n <= Ends
  BY <1>1, <1>3, MultipleFacts
<1>6. Multiple(n, Ends - n)
  BY <1>3, <1>4, MultipleFacts
<1> QED
  BY <1>1, <1>2, <1>3, <1>4, <1>5, <1>6 DEF LastCandle

LEMMA SlotFacts ==
    ASSUME NEW tf \in TFs, NEW t, NEW from \in Nat, NEW to \in Int
    PROVE  t \in Slots(tf, from, to) <=> t \in Nat /\ from <= t /\ t <= to /\ Multiple(Step[tf], t)
<1>1. Step[tf] \in Nat \ {0}
  BY TimeframeFacts
<1> QED
  BY <1>1 DEF Slots, Multiple

(* A request ends on a candle, beyond its first unless that is the last.   *)
LEMMA WindowFacts ==
    ASSUME NEW tf \in TFs, NEW c \in Slots(tf, Joins, LastCandle(tf))
    PROVE  /\ c \in Nat /\ Joins <= c /\ c <= LastCandle(tf)
           /\ WindowEnd(tf, c) \in Slots(tf, Joins, LastCandle(tf))
           /\ WindowEnd(tf, c) \in Nat /\ WindowEnd(tf, c) <= LastCandle(tf) /\ c <= WindowEnd(tf, c)
           /\ c < LastCandle(tf) => c < WindowEnd(tf, c)
<1>1. PICK n, last, reach :
          n = Step[tf] /\ last = LastCandle(tf) /\ reach = c + (ChunkPoints - 1) * n
  OBVIOUS
<1>2. n \in Nat \ {0} /\ last \in Nat /\ Joins \in Nat /\ Multiple(n, last)
  BY <1>1, TimeframeFacts
<1>3. c \in Nat /\ Joins <= c /\ c <= last /\ Multiple(n, c)
  BY <1>1, <1>2, SlotFacts
<1>4. reach \in Nat /\ Multiple(n, reach) /\ c < reach
  <2>1. PICK k : k = ChunkPoints - 1
    OBVIOUS
  <2>2. k \in Nat \ {0} /\ reach = c + k * n
    BY <1>1, <2>1, ChunkAssumption
  <2>3. PICK d : d = n * k
    OBVIOUS
  <2>4. Multiple(n, d) /\ d \in Nat \ {0}
    <3>1. n \in Nat \ {0} /\ k \in Int /\ d = n * k /\ d \in Nat \ {0}
      BY <1>2, <2>2, <2>3
    <3> QED
      BY <3>1, ProductIsMultiple
  <2>5. reach = c + d
    BY <1>2, <1>3, <2>2, <2>3
  <2>6. Multiple(n, c + d)
    BY <1>3, <2>4, MultipleFacts
  <2> QED
    BY <1>3, <2>4, <2>5, <2>6
<1>5. WindowEnd(tf, c) = IF last <= reach THEN last ELSE reach
  BY <1>1, <1>2, <1>4, LeastOfTwo DEF WindowEnd
<1>6. PICK w : w = WindowEnd(tf, c)
  OBVIOUS
<1>7. w \in Nat /\ w <= last /\ c <= w /\ Multiple(n, w) /\ (c < last => c < w)
  BY <1>2, <1>3, <1>4, <1>5, <1>6
<1>8. Joins <= w
  BY <1>2, <1>3, <1>7
<1>9. w \in Slots(tf, Joins, last)
  <2>1. /\ last \in Int /\ Joins \in Nat /\ w \in Nat /\ Joins <= w /\ w <= last
        /\ Multiple(Step[tf], w)
    BY <1>1, <1>2, <1>7, <1>8
  <2> QED
    BY <2>1, SlotFacts
<1> QED
  BY <1>1, <1>3, <1>6, <1>7, <1>9

LEMMA FollowingFacts ==
    ASSUME NEW tf \in TFs, NEW c \in Slots(tf, Joins, LastCandle(tf))
    PROVE  /\ Following(tf, c) \in Nat
           /\ Following(tf, c) = Ends \/ Following(tf, c) = WindowEnd(tf, c)
           /\ Following(tf, c) < Ends =>
                 Following(tf, c) = WindowEnd(tf, c) /\ WindowEnd(tf, c) < LastCandle(tf)
           /\ Following(tf, c) = Ends => WindowEnd(tf, c) >= LastCandle(tf)
<1>1. /\ WindowEnd(tf, c) \in Nat /\ LastCandle(tf) \in Nat /\ Ends \in Nat /\ LastCandle(tf) < Ends
      /\ WindowEnd(tf, c) <= LastCandle(tf)
  BY WindowFacts, TimeframeFacts
<1> QED
  BY <1>1 DEF Following

(* What the exchange answers is an answer.                                 *)
LEMMA AnswerFacts ==
    ASSUME NEW tf \in TFs, NEW c \in Slots(tf, Joins, LastCandle(tf)), now \in Nat, NEW lost,
           NEW got, got = Saved(Request(tf, c), lost)
    PROVE  AnswerOK(tf, c, got) /\ got # Nothing
<1>1. PICK all : all = Answer(tf, c, WindowEnd(tf, c))
  OBVIOUS
<1>2. PICK D : D = DOMAIN all \ lost
  OBVIOUS
<1>3. DOMAIN all \subseteq Slots(tf, c, WindowEnd(tf, c))
      /\ \A t \in DOMAIN all : all[t] = Min({now, t + Step[tf]})
  BY <1>1 DEF Answer
<1>4. got = [rows |-> [t \in D |-> all[t]], retrieved_at |-> now]
  BY <1>1, <1>2 DEF Saved, Request, Restrict
<1>5. /\ got.rows = [t \in D |-> Min({now, t + Step[tf]})] /\ got.retrieved_at = now
      /\ D \subseteq Slots(tf, c, WindowEnd(tf, c))
  BY <1>2, <1>3, <1>4
<1>6. DOMAIN got.rows = D
  BY <1>5
<1>7. got = [rows |-> got.rows, retrieved_at |-> got.retrieved_at]
  BY <1>4
<1>8. got # Nothing
  <2>1. DOMAIN got = {"rows", "retrieved_at"} /\ DOMAIN Nothing = {}
    BY <1>4 DEF Nothing
  <2> QED
    BY <2>1
<1> QED
  BY <1>5, <1>6, <1>7, <1>8 DEF AnswerOK
-----------------------------------------------------------------------------
(* Collecting.                                                             *)
LEMMA MergedIsMergedIn ==
    \A j, tf, cursor : /\ Asked(j, tf, cursor) = AskedIn(checkpoint[j], tf, cursor)
                       /\ Merged(j, tf, cursor) = MergedIn(checkpoint[j], tf, cursor)
  BY DEF Asked, AskedIn, Merged, MergedIn

LEMMA AnsweredFacts ==
    ASSUME NEW cp, NEW tf \in TFs, NEW c
    PROVE  c \in Answered(cp, tf)
              <=> c \in Slots(tf, Joins, LastCandle(tf)) /\ cp[Request(tf, c)] # Nothing
<1>1. \A x \in Slots(tf, Joins, LastCandle(tf)) : x < Ends
  <2>1. \A x \in Slots(tf, Joins, LastCandle(tf)) : x \in Nat /\ x <= LastCandle(tf)
    BY WindowFacts
  <2>2. LastCandle(tf) \in Nat /\ Ends \in Nat /\ LastCandle(tf) < Ends
    BY TimeframeFacts
  <2> QED
    BY <2>1, <2>2
<1> QED
  BY <1>1 DEF Answered, AskedIn

(* What was answered alike is merged alike.                                *)
LEMMA MergedAlike ==
    ASSUME NEW cp, NEW cq, NEW tf \in TFs, Answered(cp, tf) = Answered(cq, tf),
           \A c \in Answered(cp, tf) : cp[Request(tf, c)] = cq[Request(tf, c)]
    PROVE  MergedIn(cp, tf, Ends) = MergedIn(cq, tf, Ends)
<1> DEFINE A == Answered(cp, tf)
           P(c) == cp[Request(tf, c)].rows
           Q(c) == cq[Request(tf, c)].rows
<1>1. \A c \in A : P(c) = Q(c)
  OBVIOUS
<1>2. UNION {DOMAIN P(c) : c \in A} = UNION {DOMAIN Q(c) : c \in A}
  BY <1>1
<1>3. \A t : {c \in A : t \in DOMAIN P(c)} = {c \in A : t \in DOMAIN Q(c)}
  BY <1>1
<1>4. ASSUME NEW t \in UNION {DOMAIN P(c) : c \in A}
      PROVE  P(Max({c \in A : t \in DOMAIN P(c)}))[t] = Q(Max({c \in A : t \in DOMAIN Q(c)}))[t]
  <2>1. PICK M : M = {c \in A : t \in DOMAIN P(c)}
    OBVIOUS
  <2>2. Max(M) \in A
    <3>1. M # {} /\ M \in SUBSET Nat /\ LastCandle(tf) \in Nat /\ \A x \in M : x <= LastCandle(tf)
      BY <2>1, AnsweredFacts, WindowFacts, TimeframeFacts
    <3>2. Max(M) \in M
      BY <3>1, GreatestOfBounded
    <3> QED
      BY <2>1, <3>2
  <2> QED
    BY <1>1, <1>3, <2>1, <2>2
<1>5. MergedIn(cp, tf, Ends) =
          [t \in UNION {DOMAIN P(c) : c \in A} |-> P(Max({c \in A : t \in DOMAIN P(c)}))[t]]
  BY DEF MergedIn, Answered
<1>6. MergedIn(cq, tf, Ends) =
          [t \in UNION {DOMAIN Q(c) : c \in A} |-> Q(Max({c \in A : t \in DOMAIN Q(c)}))[t]]
  BY DEF MergedIn, Answered
<1> QED
  BY <1>2, <1>4, <1>5, <1>6

(* A cursor is at a request that was answered, or at the next one.         *)
LEMMA NextOnChain ==
    ASSUME NEW cp, NEW tf \in TFs, ChainOK(cp, tf), NEW c, OnChain(cp, tf, c), c < Ends
    PROVE  /\ c \in Slots(tf, Joins, LastCandle(tf)) /\ (c = Joins \/ c < LastCandle(tf))
           /\ c \notin Answered(cp, tf) =>
                 /\ ~Through(cp, tf)
                 /\ \A a \in Answered(cp, tf) :
                       a < c /\ (WindowEnd(tf, a) \in Answered(cp, tf) \/ WindowEnd(tf, a) = c)
                 /\ c # Joins => Joins \in Answered(cp, tf)
<1> DEFINE A == Answered(cp, tf)
<1>1. /\ LastCandle(tf) \in Nat /\ Joins \in Nat /\ Ends \in Nat /\ LastCandle(tf) < Ends
      /\ Joins <= LastCandle(tf) /\ Multiple(Step[tf], Joins)
  BY TimeframeFacts
<1>2. /\ A \subseteq Slots(tf, Joins, LastCandle(tf))
      /\ \A a \in A : /\ a \in Nat /\ Joins <= a /\ a <= LastCandle(tf)
                      /\ WindowEnd(tf, a) \in Nat /\ a <= WindowEnd(tf, a)
                      /\ a < LastCandle(tf) => a < WindowEnd(tf, a)
                      /\ WindowEnd(tf, a) \in Slots(tf, Joins, LastCandle(tf))
  BY AnsweredFacts, WindowFacts
<1>3. CASE c = Joins
  <2>1. c \in Slots(tf, Joins, LastCandle(tf))
    <3>1. LastCandle(tf) \in Int /\ Joins <= Joins
      BY <1>1
    <3> QED
      BY <1>1, <1>3, <3>1, SlotFacts
  <2>2. c \notin A => A = {}
    BY <1>3 DEF ChainOK
  <2> QED
    BY <1>3, <2>1, <2>2 DEF Through
<1>4. CASE c # Joins
  <2>1. PICK b \in A : c = Following(tf, b)
    BY <1>4 DEF OnChain
  <2>2. c = WindowEnd(tf, b) /\ c < LastCandle(tf)
    BY <1>2, <2>1, FollowingFacts
  <2>3. b < c /\ c \in Slots(tf, Joins, LastCandle(tf)) /\ c \in Nat
    BY <1>1, <1>2, <2>2
  <2>4. Joins \in A
    BY <2>1 DEF ChainOK
  <2>5. ASSUME c \notin A, NEW a \in A
        PROVE  /\ a < c /\ (WindowEnd(tf, a) \in A \/ WindowEnd(tf, a) = c)
               /\ ~(WindowEnd(tf, a) >= LastCandle(tf))
    <3>1. \A x \in A : ~(b < x)
      BY <2>1, <2>2, <2>5 DEF ChainOK
    <3>2. a <= b /\ a < c
      BY <1>2, <2>1, <2>3, <3>1
    <3>3. CASE a = b
      BY <1>1, <2>2, <2>3, <3>2, <3>3
    <3>4. CASE a < b
      <4>1. WindowEnd(tf, a) \in A
        BY <2>1, <3>4 DEF ChainOK
      <4>2. WindowEnd(tf, a) <= b
        BY <1>2, <2>1, <3>1, <4>1
      <4> QED
        BY <1>1, <1>2, <2>1, <2>2, <2>3, <3>2, <4>1, <4>2
    <3> QED
      BY <1>2, <2>1, <3>2, <3>3, <3>4
  <2> QED
    BY <2>2, <2>3, <2>4, <2>5 DEF Through
<1> QED
  BY <1>3, <1>4

(* A request is saved once, at the end of the chain.                       *)
SavedIn(cp, r, got) == [cp EXCEPT ![r] = got]
AnswerTaken(cp, tf, c, got) ==
    IF cp[Request(tf, c)] # Nothing THEN got = cp[Request(tf, c)]
    ELSE AnswerOK(tf, c, got) /\ got # Nothing

LEMMA AnswerSaved ==
    ASSUME NEW cp, NEW d, CollectedOK(cp, d), NEW tf \in TFs, NEW c, OnChain(cp, tf, c), c < Ends,
           NEW got, NEW cq, cq = SavedIn(cp, Request(tf, c), got), AnswerTaken(cp, tf, c, got)
    PROVE  CollectedOK(cq, d) /\ c \in Answered(cq, tf)
<1> DEFINE A == Answered(cp, tf)
           r == Request(tf, c)
<1>1. CheckpointOK(cp) /\ IsOn(cp, Requests) /\ ChainOK(cp, tf)
  BY DEF CollectedOK, CheckpointOK
<1>2. c \in Slots(tf, Joins, LastCandle(tf)) /\ (c = Joins \/ c < LastCandle(tf))
  BY <1>1, NextOnChain
<1>3. r \in Requests
  BY <1>2 DEF Requests
<1>0. cq = [cp EXCEPT ![r] = got] /\ (IF cp[r] # Nothing THEN got = cp[r] ELSE AnswerOK(tf, c, got) /\ got # Nothing)
  BY DEF SavedIn, AnswerTaken
<1>4. CASE cp[r] # Nothing
  <2>1. cq = cp
    <3>1. \A x \in Requests : cq[x] = cp[x]
      BY <1>0, <1>1, <1>3, <1>4 DEF IsOn
    <3> QED
      BY <1>0, <1>1, <1>3, <1>4, <3>1 DEF IsOn
  <2> QED
    BY <1>2, <1>4, <2>1, AnsweredFacts
<1>5. CASE cp[r] = Nothing
  <2>1. cq[r] = got /\ got # Nothing /\ AnswerOK(tf, c, got)
    BY <1>0, <1>1, <1>3, <1>5 DEF IsOn
  <2>2. \A u, x : <<u, x>> # <<tf, c>> => Request(u, x) # r
    BY DEF Request
  <2>3. \A u, x : <<u, x>> # <<tf, c>> => cq[Request(u, x)] = cp[Request(u, x)]
    BY <1>0, <1>1, <2>2 DEF IsOn
  <2>4. CheckpointOK(cq)
    <3>1. IsOn(cq, Requests)
      BY <1>0, <1>1 DEF IsOn
    <3>2. ASSUME NEW u \in TFs, NEW x \in Slots(u, Joins, LastCandle(u)), cq[Request(u, x)] # Nothing
          PROVE  AnswerOK(u, x, cq[Request(u, x)])
      <4>1. CASE <<u, x>> = <<tf, c>>
        BY <2>1, <4>1
      <4>2. CASE <<u, x>> # <<tf, c>>
        BY <1>1, <2>3, <3>2, <4>2 DEF CheckpointOK
      <4> QED
        BY <4>1, <4>2
    <3> QED
      BY <3>1, <3>2 DEF CheckpointOK
  <2>5. c \notin A
    BY <1>5, AnsweredFacts
  <2>6. Answered(cq, tf) = A \cup {c}
    <3>1. ASSUME NEW x
          PROVE  x \in Answered(cq, tf) <=> x \in A \cup {c}
      <4>1. CASE x = c
        BY <1>2, <2>1, <4>1, AnsweredFacts
      <4>2. CASE x # c
        <5>1. cq[Request(tf, x)] = cp[Request(tf, x)]
          BY <2>3, <4>2
        <5> QED
          BY <4>2, <5>1, AnsweredFacts
      <4> QED
        BY <4>1, <4>2
    <3> QED
      BY <3>1
  <2>7. /\ ~Through(cp, tf)
        /\ \A a \in A : a < c /\ (WindowEnd(tf, a) \in A \/ WindowEnd(tf, a) = c)
        /\ c # Joins => Joins \in A
    BY <1>1, <2>5, NextOnChain
  <2>8. \A x \in Slots(tf, Joins, LastCandle(tf)) : x \in Nat
    BY WindowFacts
  <2>9. \A a \in A \cup {c} : a \in Nat
    BY <1>2, <2>8, AnsweredFacts
  <2>10. ChainOK(cq, tf)
    <3>1. \A x \in A \cup {c} : x = Joins \/ x < LastCandle(tf)
      BY <1>1, <1>2 DEF ChainOK
    <3>2. Joins \in A \cup {c}
      BY <2>7
    <3>3. ASSUME NEW a \in A \cup {c}, NEW b \in A \cup {c}, a < b
          PROVE  WindowEnd(tf, a) \in A \cup {c}
      <4>1. CASE a \in A /\ b \in A
        BY <1>1, <3>3, <4>1 DEF ChainOK
      <4>2. CASE a \in A /\ b = c
        BY <2>7, <4>2
      <4>3. CASE a = c
        BY <2>7, <2>9, <3>3, <4>3
      <4> QED
        BY <4>1, <4>2, <4>3
    <3> QED
      BY <2>6, <3>1, <3>2, <3>3 DEF ChainOK
  <2>11. ASSUME NEW u \in TFs, u # tf
         PROVE  ChainOK(cq, u) /\ RestFileOK(cq, d, u)
    <3>1. \A x : cq[Request(u, x)] = cp[Request(u, x)]
      BY <2>3, <2>11
    <3>2. Answered(cq, u) = Answered(cp, u)
      BY <3>1 DEF Answered, AskedIn
    <3>3. MergedIn(cp, u, Ends) = MergedIn(cq, u, Ends)
      BY <3>1, <3>2, MergedAlike
    <3>4. ChainOK(cp, u) /\ RestFileOK(cp, d, u)
      BY DEF CollectedOK
    <3> QED
      BY <3>2, <3>3, <3>4 DEF ChainOK, RestFileOK, Through
  <2>12. RestFileOK(cq, d, tf)
    BY <2>7 DEF CollectedOK, RestFileOK
  <2>13. CollectedOK(cq, d)
    BY <2>4, <2>10, <2>11, <2>12 DEF CollectedOK
  <2> QED
    BY <2>6, <2>13
<1> QED
  BY <1>4, <1>5

-----------------------------------------------------------------------------
(* What a job is doing.                                                    *)
LEMMA StepKinds ==
    ASSUME NEW p, StepOK(p)
    PROVE  /\ p.do = "rest" => p \in RestSteps
           /\ p.do = "write" => p \in WriteSteps
           /\ p.do = "seal" => p \in SealSteps
           /\ p.do \in {"head", "put", "readback"} => p \in PublishSteps
           /\ p.do = "download" => Downloading(p)
<1>1. CASE p = AtRest
  BY <1>1 DEF AtRest
<1>2. CASE p \in RestSteps
  BY <1>2 DEF RestSteps
<1>3. CASE p \in WriteSteps
  BY <1>3 DEF WriteSteps
<1>4. CASE p \in SealSteps
  BY <1>4 DEF SealSteps
<1>5. CASE p \in PublishSteps
  BY <1>5 DEF PublishSteps
<1>6. CASE Downloading(p)
  <2>1. p.do = "download"
    BY <1>6 DEF Downloading
  <2> QED
    BY <1>6, <2>1
<1> QED
  BY <1>1, <1>2, <1>3, <1>4, <1>5, <1>6 DEF StepOK

LEMMA StepForms ==
    /\ \A i \in DOMAIN Timeframes, c \in Nat : StepOK([do |-> "rest", tf |-> i, cursor |-> c])
    /\ \A s \in {"deals", "lock"}, i \in DOMAIN Timeframes : StepOK([do |-> "write", shard |-> s, tf |-> i])
    /\ \A s \in Shards : StepOK([do |-> "seal", shard |-> s])
    /\ \A do \in {"head", "put", "readback"}, kind \in {"source", "research"}, at \in Nat \ {0} :
          StepOK([do |-> do, kind |-> kind, at |-> at])
<1>1. ASSUME NEW i \in DOMAIN Timeframes, NEW c \in Nat
      PROVE  [do |-> "rest", tf |-> i, cursor |-> c] \in RestSteps
  BY DEF RestSteps
<1>2. ASSUME NEW s \in {"deals", "lock"}, NEW i \in DOMAIN Timeframes
      PROVE  [do |-> "write", shard |-> s, tf |-> i] \in WriteSteps
  BY DEF WriteSteps
<1>3. ASSUME NEW s \in Shards
      PROVE  [do |-> "seal", shard |-> s] \in SealSteps
  BY DEF SealSteps
<1>4. ASSUME NEW do \in {"head", "put", "readback"}, NEW kind \in {"source", "research"},
             NEW at \in Nat \ {0}
      PROVE  [do |-> do, kind |-> kind, at |-> at] \in PublishSteps
  BY DEF PublishSteps
<1> QED
  BY <1>1, <1>2, <1>3, <1>4 DEF StepOK

(* A job at rest, reading or restoring owes its directories nothing.       *)
LEMMA QuietStep ==
    ASSUME NEW p, StepOK(p), p.do \notin {"rest", "write", "seal"}
    PROVE  \A cp, d : GoingOK(cp, p, d)
  BY DEF GoingOK, RestGoing, WriteGoing

LEMMA RestStep ==
    /\ StepOK(AtRest) /\ AtRest.do = "idle"
    /\ \A cp, d, put : GoingOK(cp, AtRest, d) /\ PublicationOK(put, AtRest, d)
<1>1. StepOK(AtRest) /\ AtRest.do = "idle"
  BY DEF StepOK, AtRest
<1> QED
  BY <1>1, QuietStep DEF PublicationOK

AfterWindow(p) == [p EXCEPT !.cursor = Following(Timeframes[p.tf], @)]

LEMMA WindowGoes ==
    ASSUME NEW cp, NEW d, CollectedOK(cp, d), NEW p, GoingOK(cp, p, d), p.do = "rest", p.cursor < Ends,
           NEW got, NEW tf, tf = Timeframes[p.tf], NEW c, c = p.cursor,
           NEW cq, cq = SavedIn(cp, Request(tf, c), got), AnswerTaken(cp, tf, c, got),
           NEW q, q = AtRest \/ q = AfterWindow(p)
    PROVE  CollectedOK(cq, d) /\ GoingOK(cq, q, d) /\ \A put : PublicationOK(put, q, d)
<1>1. p \in RestSteps
  BY StepKinds DEF GoingOK
<1>2. tf \in TFs /\ p.tf \in DOMAIN Timeframes
  BY <1>1 DEF RestSteps, TFs, Range
<1>3. OnChain(cp, tf, c) /\ c < Ends
  BY DEF GoingOK, RestGoing
<1>4. CollectedOK(cq, d) /\ c \in Answered(cq, tf)
  BY <1>2, <1>3, AnswerSaved
<1>5. CASE q = AtRest
  BY <1>4, <1>5, RestStep
<1>6. CASE q = AfterWindow(p)
  <2>1. PICK f : f = Following(tf, c)
    OBVIOUS
  <2>2. c \in Slots(tf, Joins, LastCandle(tf))
    BY <1>2, <1>4, AnsweredFacts
  <2>3. f \in Nat
    BY <1>2, <2>1, <2>2, FollowingFacts
  <2>4. q = [p EXCEPT !.cursor = f]
    BY <1>6, <2>1 DEF AfterWindow
  <2>5. q \in RestSteps /\ q.do = "rest" /\ q.tf = p.tf /\ q.cursor = f
    BY <1>1, <2>3, <2>4 DEF RestSteps
  <2>6. OnChain(cq, tf, f)
    BY <1>4, <2>1 DEF OnChain
  <2>7. RestGoing(cq, q, d)
    BY <2>5, <2>6 DEF GoingOK, RestGoing
  <2>8. WriteGoing(q, d) /\ \A put : PublicationOK(put, q, d)
    BY <2>5 DEF WriteGoing, PublicationOK
  <2>9. StepOK(q)
    BY <2>5 DEF StepOK
  <2> QED
    BY <1>4, <2>7, <2>8, <2>9 DEF GoingOK
<1> QED
  BY <1>5, <1>6

-----------------------------------------------------------------------------
(* Files and manifests.                                                    *)
SealedKept(d, e) ==
    \A s \in Shards : Sealed(d, s) =>
        Sealed(e, s) /\ e[s].files = d[s].files /\ e[s].manifest.content = d[s].manifest.content

OneFileDiffers(d, e, s, tf, rows) ==
    /\ DirectoryOK(e) /\ e[s].manifest = d[s].manifest
    /\ e[s].files[tf] = rows /\ \A u \in TFs \ {tf} : e[s].files[u] = d[s].files[u]
    /\ \A o \in Shards \ {s} : e[o] = d[o]
    /\ d[s].files[tf] = rows => e[s].files = d[s].files
FileIn(d, s, tf, rows) == [d EXCEPT ![s] = WithFile(@, tf, rows)]
ManifestIn(d, s, by) == [d EXCEPT ![s].manifest = Manifest(d[s].files, by)]

LEMMA FileWritten ==
    ASSUME NEW d, DirectoryOK(d), NEW s \in Shards, NEW tf \in TFs, NEW rows,
           NEW e, e = FileIn(d, s, tf, rows)
    PROVE  OneFileDiffers(d, e, s, tf, rows)
<1>1. PICK f, m : f = d[s].files /\ m = d[s].manifest
  OBVIOUS
<1>2. d[s] = [files |-> f, manifest |-> m] /\ IsOn(f, TFs) /\ IsOn(d, Shards)
  BY <1>1 DEF DirectoryOK
<1>3. PICK g : g = [f EXCEPT ![tf] = rows]
  OBVIOUS
<1>4. WithFile(d[s], tf, rows) = [files |-> g, manifest |-> m]
  BY <1>1, <1>2, <1>3 DEF WithFile
<1>5. e[s] = [files |-> g, manifest |-> m] /\ \A o \in Shards \ {s} : e[o] = d[o]
  BY <1>2, <1>4 DEF IsOn, FileIn
<1>6. IsOn(g, TFs) /\ g[tf] = rows /\ \A u \in TFs \ {tf} : g[u] = f[u]
  BY <1>2, <1>3 DEF IsOn
<1>7. f[tf] = rows => g = f
  BY <1>2, <1>6 DEF IsOn
<1>8. IsOn(e, Shards)
  BY <1>2 DEF IsOn, FileIn
<1>9. \A o \in Shards : e[o] = [files |-> e[o].files, manifest |-> e[o].manifest] /\ IsOn(e[o].files, TFs)
  <2>1. ASSUME NEW o \in Shards
        PROVE  e[o] = [files |-> e[o].files, manifest |-> e[o].manifest] /\ IsOn(e[o].files, TFs)
    <3>1. CASE o = s
      <4>1. e[s].files = g /\ e[s].manifest = m
        BY <1>5
      <4> QED
        BY <1>5, <1>6, <3>1, <4>1
    <3>2. CASE o # s
      BY <1>5, <3>2 DEF DirectoryOK
    <3> QED
      BY <3>1, <3>2
  <2> QED
    BY <2>1
<1>10. e[s].files = g /\ e[s].manifest = m
  BY <1>5
<1>11. DirectoryOK(e)
  BY <1>8, <1>9 DEF DirectoryOK
<1> QED
  BY <1>1, <1>5, <1>6, <1>7, <1>10, <1>11 DEF OneFileDiffers

LEMMA ManifestWritten ==
    ASSUME NEW d, DirectoryOK(d), NEW s \in Shards, NEW by,
           NEW e, e = ManifestIn(d, s, by)
    PROVE  /\ DirectoryOK(e) /\ e[s].files = d[s].files /\ Sealed(e, s)
           /\ e[s].manifest.content = d[s].files
           /\ \A o \in Shards \ {s} : e[o] = d[o]
<1>1. PICK f, m : f = d[s].files /\ m = Manifest(f, by)
  OBVIOUS
<1>2. d[s] = [files |-> f, manifest |-> d[s].manifest] /\ IsOn(f, TFs) /\ IsOn(d, Shards)
  BY <1>1 DEF DirectoryOK
<1>3. e[s] = [d[s] EXCEPT !.manifest = m] /\ \A o \in Shards \ {s} : e[o] = d[o]
  BY <1>1, <1>2 DEF IsOn, ManifestIn
<1>4. e[s] = [files |-> f, manifest |-> m]
  BY <1>2, <1>3
<1>5. m.content = f /\ m # Nothing
  <2>1. m = [content |-> f, by |-> by]
    BY <1>1 DEF Manifest
  <2>2. DOMAIN m = {"content", "by"} /\ DOMAIN Nothing = {}
    BY <2>1 DEF Nothing
  <2> QED
    BY <2>1, <2>2
<1>6. IsOn(e, Shards)
  BY <1>2 DEF IsOn, ManifestIn
<1>7. e[s].files = f /\ e[s].manifest = m
  BY <1>4
<1>8. \A o \in Shards : e[o] = [files |-> e[o].files, manifest |-> e[o].manifest] /\ IsOn(e[o].files, TFs)
  <2>1. ASSUME NEW o \in Shards
        PROVE  e[o] = [files |-> e[o].files, manifest |-> e[o].manifest] /\ IsOn(e[o].files, TFs)
    <3>1. CASE o = s
      BY <1>2, <1>4, <1>7, <3>1
    <3>2. CASE o # s
      BY <1>3, <3>2 DEF DirectoryOK
    <3> QED
      BY <3>1, <3>2
  <2> QED
    BY <2>1
<1>9. DirectoryOK(e)
  BY <1>6, <1>8 DEF DirectoryOK
<1> QED
  BY <1>1, <1>3, <1>5, <1>7, <1>9 DEF Sealed

(* The candles of a timeframe are locked once all its requests are         *)
(* answered: a file that is there already is written with what it has.     *)
AfterLock(p) == IF p.tf = Len(Timeframes) THEN [do |-> "seal", shard |-> "rest"]
                ELSE [p EXCEPT !.tf = @ + 1, !.cursor = Joins]

LEMMA LockGoes ==
    ASSUME NEW cp, NEW d, CollectedOK(cp, d), NEW p, GoingOK(cp, p, d), p.do = "rest", p.cursor = Ends,
           NEW tf, tf = Timeframes[p.tf], NEW rows, rows = MergedIn(cp, tf, Ends), rows # Nothing,
           NEW e, e = FileIn(d, "rest", tf, rows),
           NEW q, q = AfterLock(p)
    PROVE  /\ CollectedOK(cp, e) /\ GoingOK(cp, q, e) /\ \A put : PublicationOK(put, q, e)
           /\ SealedKept(d, e)
<1>1. p \in RestSteps /\ p.tf \in DOMAIN Timeframes
  <2>1. p \in RestSteps
    BY StepKinds DEF GoingOK
  <2> QED
    BY <2>1 DEF RestSteps
<1>2. tf \in TFs
  BY <1>1 DEF TFs, Range
<1>3. /\ Ends # Joins /\ Joins \in Nat /\ LastCandle(tf) \in Nat /\ Ends \in Nat
      /\ LastCandle(tf) < Ends
  BY <1>2, TimeframeFacts
<1>4. Through(cp, tf)
  <2>1. OnChain(cp, tf, Ends)
    BY DEF GoingOK, RestGoing
  <2>2. PICK c \in Answered(cp, tf) : Ends = Following(tf, c)
    BY <1>3, <2>1 DEF OnChain
  <2>3. c \in Slots(tf, Joins, LastCandle(tf))
    BY <1>2, AnsweredFacts
  <2>4. WindowEnd(tf, c) >= LastCandle(tf)
    BY <1>2, <2>2, <2>3, FollowingFacts
  <2> QED
    BY <2>4 DEF Through
<1>5. "rest" \in Shards /\ "deals" \in Shards /\ "lock" \in Shards
  BY DEF Shards
<1>6. /\ DirectoryOK(e) /\ e["rest"].manifest = d["rest"].manifest
      /\ e["rest"].files[tf] = rows
      /\ \A u \in TFs \ {tf} : e["rest"].files[u] = d["rest"].files[u]
      /\ \A o \in Shards \ {"rest"} : e[o] = d[o]
      /\ d["rest"].files[tf] = rows => e["rest"].files = d["rest"].files
  <2>1. DirectoryOK(d)
    BY DEF CollectedOK
  <2>2. OneFileDiffers(d, e, "rest", tf, rows)
    BY <1>2, <1>5, <2>1, FileWritten
  <2> QED
    BY <2>2 DEF OneFileDiffers
<1>7. Sealed(d, "rest") => e["rest"].files = d["rest"].files
  <2>1. Sealed(d, "rest") => d["rest"].files[tf] = rows
    BY <1>2 DEF CollectedOK, RestSealOK, RestFileOK, Sealed
  <2> QED
    BY <1>6, <2>1
<1>8. e["deals"] = d["deals"] /\ e["lock"] = d["lock"]
  BY <1>5, <1>6
<1>9. SealOK(d, "deals") /\ SealOK(d, "lock") /\ RestSealOK(d)
  BY DEF CollectedOK
<1>10. SealOK(e, "deals")
  BY <1>8, <1>9 DEF SealOK, Sealed, Written, ContentIn
<1>11. SealOK(e, "lock")
  <2>1. Sealed(e, "lock") => Sealed(d, "lock") /\ Mergeable(d)
    BY <1>8, <1>9 DEF SealOK, Sealed
  <2>2. Mergeable(d) => e["rest"].files = d["rest"].files /\ Mergeable(e)
    BY <1>6, <1>7, <1>8 DEF Mergeable, Sealed
  <2> QED
    BY <1>8, <1>9, <2>1, <2>2 DEF SealOK, Sealed, Written, ContentIn
<1>12. RestSealOK(e)
  BY <1>6, <1>7, <1>9 DEF RestSealOK, Sealed
<1>13. \A u \in TFs : RestFileOK(cp, e, u)
  BY <1>4, <1>6 DEF CollectedOK, RestFileOK
<1>14. CollectedOK(cp, e)
  BY <1>6, <1>10, <1>11, <1>12, <1>13 DEF CollectedOK
<1>15. \A u \in TFs : d["rest"].files[u] # Nothing => e["rest"].files[u] # Nothing
  BY <1>6
<1>16. \A i \in 1 .. p.tf : e["rest"].files[Timeframes[i]] # Nothing
  <2>1. ASSUME NEW i \in 1 .. p.tf
        PROVE  e["rest"].files[Timeframes[i]] # Nothing
    <3>1. CASE i = p.tf
      BY <1>6, <3>1
    <3>2. CASE i # p.tf
      <4>1. p.tf \in 1 .. Len(Timeframes)
        BY <1>1, NameAssumption
      <4>2. i \in 1 .. p.tf - 1 /\ i \in DOMAIN Timeframes
        BY <3>2, <4>1, NameAssumption
      <4>3. d["rest"].files[Timeframes[i]] # Nothing
        BY <4>2 DEF GoingOK, RestGoing
      <4>4. Timeframes[i] \in TFs
        BY <4>2 DEF TFs, Range
      <4> QED
        BY <1>15, <4>3, <4>4
    <3> QED
      BY <3>1, <3>2
  <2> QED
    BY <2>1
<1>17. SealedKept(d, e)
  BY <1>6, <1>7, <1>8 DEF SealedKept, Sealed, Shards
<1>18. CASE p.tf = Len(Timeframes)
  <2>1. q = [do |-> "seal", shard |-> "rest"]
    BY <1>18 DEF AfterLock
  <2>2. q.do = "seal" /\ q.shard = "rest" /\ StepOK(q)
    <3>1. StepOK([do |-> "seal", shard |-> "rest"])
      BY <1>5, StepForms
    <3> QED
      BY <2>1, <3>1
  <2>3. \A u \in TFs : e["rest"].files[u] # Nothing
    <3>1. ASSUME NEW u \in TFs
          PROVE  e["rest"].files[u] # Nothing
      <4>1. PICK i \in DOMAIN Timeframes : u = Timeframes[i]
        BY DEF TFs, Range
      <4>2. i \in 1 .. p.tf
        BY <1>18, <4>1, NameAssumption
      <4> QED
        BY <1>16, <4>1, <4>2
    <3> QED
      BY <3>1
  <2>4. RestGoing(cp, q, e) /\ WriteGoing(q, e) /\ \A put : PublicationOK(put, q, e)
    BY <2>2, <2>3 DEF RestGoing, WriteGoing, PublicationOK
  <2> QED
    BY <1>14, <1>17, <2>2, <2>4 DEF GoingOK
<1>19. CASE p.tf # Len(Timeframes)
  <2>1. p.tf \in Nat /\ p.tf + 1 \in DOMAIN Timeframes
    BY <1>1, <1>19, NameAssumption
  <2>2. q = [do |-> "rest", tf |-> p.tf + 1, cursor |-> Joins]
    BY <1>1, <1>19 DEF RestSteps, AfterLock
  <2>3. q.do = "rest" /\ q.tf = p.tf + 1 /\ q.cursor = Joins /\ StepOK(q)
    <3>1. PICK i \in DOMAIN Timeframes : i = p.tf + 1
      BY <2>1
    <3>2. q = [do |-> "rest", tf |-> i, cursor |-> Joins]
      BY <2>2, <3>1
    <3>3. StepOK([do |-> "rest", tf |-> i, cursor |-> Joins])
      BY <1>3, StepForms
    <3> QED
      BY <3>1, <3>2, <3>3
  <2>4. 1 .. q.tf - 1 = 1 .. p.tf
    BY <2>1, <2>3
  <2>5. RestGoing(cp, q, e)
    BY <1>16, <2>3, <2>4 DEF RestGoing, OnChain
  <2>6. WriteGoing(q, e) /\ \A put : PublicationOK(put, q, e)
    BY <2>3 DEF WriteGoing, PublicationOK
  <2> QED
    BY <1>14, <1>17, <2>3, <2>5, <2>6 DEF GoingOK
<1> QED
  BY <1>18, <1>19

(* A shard without a manifest is written file by file, then sealed.        *)
AfterWrite(p) == IF p.tf = Len(Timeframes) THEN [do |-> "seal", shard |-> p.shard]
                 ELSE [p EXCEPT !.tf = @ + 1]

LEMMA WriteGoes ==
    ASSUME NEW cp, NEW d, CollectedOK(cp, d), NEW p, GoingOK(cp, p, d), p.do = "write",
           NEW s, s = p.shard, NEW tf, tf = Timeframes[p.tf], NEW rows, rows = ContentIn(d, s, tf),
           Valid(tf, rows), Covers(tf, rows, Span[s][1], Span[s][2]),
           NEW e, e = FileIn(d, s, tf, rows), NEW q, q = AfterWrite(p)
    PROVE  /\ CollectedOK(cp, e) /\ GoingOK(cp, q, e) /\ \A put : PublicationOK(put, q, e)
           /\ SealedKept(d, e)
<1>1. p \in WriteSteps /\ p.tf \in DOMAIN Timeframes /\ s \in {"deals", "lock"} /\ s \in Shards
  <2>1. p \in WriteSteps
    BY StepKinds DEF GoingOK
  <2> QED
    BY <2>1 DEF WriteSteps, Shards
<1>2. tf \in TFs
  BY <1>1 DEF TFs, Range
<1>3. ~Sealed(d, s) /\ (s = "lock" => Mergeable(d))
  BY <1>1 DEF GoingOK, WriteGoing
<1>4. OneFileDiffers(d, e, s, tf, rows)
  <2>1. DirectoryOK(d)
    BY DEF CollectedOK
  <2> QED
    BY <1>1, <1>2, <2>1, FileWritten
<1>5. /\ DirectoryOK(e) /\ e[s].manifest = d[s].manifest /\ e[s].files[tf] = rows
      /\ \A u \in TFs \ {tf} : e[s].files[u] = d[s].files[u]
      /\ \A o \in Shards \ {s} : e[o] = d[o]
  BY <1>4 DEF OneFileDiffers
<1>6. e["rest"] = d["rest"] /\ (s = "lock" => e["deals"] = d["deals"]) /\ (s = "deals" => e["lock"] = d["lock"])
  BY <1>1, <1>5 DEF Shards
<1>7. \A u : ContentIn(e, s, u) = ContentIn(d, s, u)
  BY <1>1, <1>6 DEF ContentIn
<1>8. ~Sealed(e, s)
  BY <1>3, <1>5 DEF Sealed
<1>9. SealOK(d, "deals") /\ SealOK(d, "lock") /\ RestSealOK(d)
  BY DEF CollectedOK
<1>10. s = "deals" => ~Sealed(e, "lock")
  BY <1>3, <1>6, <1>9 DEF SealOK, Sealed, Mergeable
<1>11. SealOK(e, "deals") /\ SealOK(e, "lock")
  BY <1>1, <1>6, <1>8, <1>9, <1>10 DEF SealOK, Sealed, Written, ContentIn
<1>12. RestSealOK(e) /\ \A u \in TFs : RestFileOK(cp, e, u)
  BY <1>6 DEF CollectedOK, RestSealOK, RestFileOK
<1>13. CollectedOK(cp, e)
  BY <1>5, <1>11, <1>12 DEF CollectedOK
<1>14. SealedKept(d, e)
  <2>1. ASSUME NEW o \in Shards, Sealed(d, o)
        PROVE  e[o] = d[o]
    BY <1>3, <1>5, <2>1
  <2> QED
    BY <2>1 DEF SealedKept, Sealed
<1>15. Written(e, s, tf)
  BY <1>5, <1>7 DEF Written
<1>16. \A i \in 1 .. p.tf : Written(e, s, Timeframes[i])
  <2>1. ASSUME NEW i \in 1 .. p.tf
        PROVE  Written(e, s, Timeframes[i])
    <3>1. CASE Timeframes[i] = tf
      BY <1>15, <3>1
    <3>2. CASE Timeframes[i] # tf
      <4>1. p.tf \in 1 .. Len(Timeframes)
        BY <1>1, NameAssumption
      <4>2. i \in 1 .. p.tf - 1 /\ i \in DOMAIN Timeframes
        BY <3>2, <4>1, NameAssumption
      <4>3. Written(d, s, Timeframes[i])
        BY <4>2 DEF GoingOK, WriteGoing
      <4>4. Timeframes[i] \in TFs \ {tf}
        BY <3>2, <4>2 DEF TFs, Range
      <4> QED
        BY <1>5, <1>7, <4>3, <4>4 DEF Written
    <3> QED
      BY <3>1, <3>2
  <2> QED
    BY <2>1
<1>17. CASE p.tf = Len(Timeframes)
  <2>1. q = [do |-> "seal", shard |-> s]
    BY <1>17 DEF AfterWrite
  <2>2. q.do = "seal" /\ q.shard = s /\ StepOK(q)
    <3>1. StepOK([do |-> "seal", shard |-> s])
      BY <1>1, StepForms
    <3> QED
      BY <2>1, <3>1
  <2>3. \A u \in TFs : Written(e, s, u)
    <3>1. ASSUME NEW u \in TFs
          PROVE  Written(e, s, u)
      <4>1. PICK i \in DOMAIN Timeframes : u = Timeframes[i]
        BY DEF TFs, Range
      <4>2. i \in 1 .. p.tf
        BY <1>17, <4>1, NameAssumption
      <4> QED
        BY <1>16, <4>1, <4>2
    <3> QED
      BY <3>1
  <2>4. s = "lock" => Mergeable(e)
    BY <1>3, <1>6 DEF Mergeable, Sealed
  <2>5. RestGoing(cp, q, e) /\ WriteGoing(q, e) /\ \A put : PublicationOK(put, q, e)
    BY <1>1, <1>8, <2>2, <2>3, <2>4 DEF RestGoing, WriteGoing, PublicationOK
  <2> QED
    BY <1>13, <1>14, <2>2, <2>5 DEF GoingOK
<1>18. CASE p.tf # Len(Timeframes)
  <2>1. p.tf \in Nat /\ p.tf + 1 \in DOMAIN Timeframes
    BY <1>1, <1>18, NameAssumption
  <2>2. q = [do |-> "write", shard |-> s, tf |-> p.tf + 1]
    BY <1>1, <1>18 DEF WriteSteps, AfterWrite
  <2>3. q.do = "write" /\ q.tf = p.tf + 1 /\ q.shard = s /\ StepOK(q)
    <3>1. PICK i \in DOMAIN Timeframes : i = p.tf + 1
      BY <2>1
    <3>2. StepOK([do |-> "write", shard |-> s, tf |-> i])
      BY <1>1, StepForms
    <3> QED
      BY <2>2, <3>1, <3>2
  <2>4. 1 .. q.tf - 1 = 1 .. p.tf
    BY <2>1, <2>3
  <2>5. s = "lock" => Mergeable(e)
    BY <1>3, <1>6 DEF Mergeable, Sealed
  <2>6. RestGoing(cp, q, e) /\ WriteGoing(q, e) /\ \A put : PublicationOK(put, q, e)
    BY <1>1, <1>8, <1>16, <2>3, <2>4, <2>5 DEF RestGoing, WriteGoing, PublicationOK
  <2> QED
    BY <1>13, <1>14, <2>3, <2>6 DEF GoingOK
<1> QED
  BY <1>17, <1>18

LEMMA SealGoes ==
    ASSUME NEW cp, NEW d, CollectedOK(cp, d), NEW p, GoingOK(cp, p, d), p.do = "seal",
           NEW s, s = p.shard, NEW by, NEW e, e = ManifestIn(d, s, by)
    PROVE  CollectedOK(cp, e) /\ SealedKept(d, e)
<1>1. p \in SealSteps /\ s \in Shards
  <2>1. p \in SealSteps
    BY StepKinds DEF GoingOK
  <2> QED
    BY <2>1 DEF SealSteps
<1>2. /\ DirectoryOK(e) /\ e[s].files = d[s].files /\ Sealed(e, s) /\ e[s].manifest.content = d[s].files
      /\ \A o \in Shards \ {s} : e[o] = d[o]
  <2>1. DirectoryOK(d)
    BY DEF CollectedOK
  <2> QED
    BY <1>1, <2>1, ManifestWritten
<1>3. SealOK(d, "deals") /\ SealOK(d, "lock") /\ RestSealOK(d)
  BY DEF CollectedOK
<1>4. \A o \in Shards : e[o].files = d[o].files
  BY <1>1, <1>2
<1>5. ASSUME NEW o \in Shards, NEW u
      PROVE  Written(e, o, u) <=> Written(d, o, u)
  <2>1. e["deals"].files = d["deals"].files /\ e["rest"].files = d["rest"].files
    BY <1>4 DEF Shards
  <2>2. e[o].files = d[o].files
    BY <1>4
  <2> QED
    BY <2>1, <2>2 DEF Written, ContentIn
<1>6. \A o \in Shards : Sealed(d, o) => Sealed(e, o)
  BY <1>2 DEF Sealed
<1>7. \A o \in Shards : o # s /\ Sealed(e, o) => Sealed(d, o)
  BY <1>2 DEF Sealed
<1>8. "deals" \in Shards /\ "rest" \in Shards /\ "lock" \in Shards /\ \A o \in Shards : o \in {"deals", "rest", "lock"}
  BY DEF Shards
<1>9. Mergeable(d) => Mergeable(e)
  BY <1>6, <1>8 DEF Mergeable
<1>10. /\ s = "rest" => \A u \in TFs : d["rest"].files[u] # Nothing
       /\ s # "rest" => /\ ~Sealed(d, s) /\ (s = "lock" => Mergeable(d))
                        /\ \A u \in TFs : Written(d, s, u)
  BY DEF GoingOK, WriteGoing, RestGoing
<1>11. RestSealOK(e)
  <2>1. CASE s = "rest"
    BY <1>2, <1>10, <2>1 DEF RestSealOK
  <2>2. CASE s # "rest"
    BY <1>2, <1>3, <1>8, <2>2 DEF RestSealOK
  <2> QED
    BY <2>1, <2>2
<1>12. ASSUME NEW o \in {"deals", "lock"}
       PROVE  SealOK(e, o)
  <2>0. o \in Shards /\ o # "rest" /\ SealOK(d, o)
    BY <1>3, <1>8, <1>12
  <2>1. CASE s = o
    <3>1. \A u \in TFs : Written(e, o, u)
      BY <1>5, <1>10, <2>0, <2>1
    <3>2. e[o].manifest.content = e[o].files
      BY <1>2, <2>1
    <3>3. o = "lock" => Mergeable(e)
      BY <1>9, <1>10, <2>0, <2>1
    <3> QED
      BY <3>1, <3>2, <3>3 DEF SealOK
  <2>2. CASE s # o
    <3>1. e[o] = d[o] /\ (Sealed(e, o) => Sealed(d, o))
      BY <1>2, <1>7, <2>0, <2>2
    <3>2. Sealed(d, o) => /\ \A u \in TFs : Written(e, o, u)
                          /\ e[o].manifest.content = e[o].files
                          /\ o = "lock" => Mergeable(e)
      BY <1>5, <1>9, <2>0, <3>1 DEF SealOK
    <3> QED
      BY <3>1, <3>2 DEF SealOK
  <2> QED
    BY <2>1, <2>2
<1>13. \A u \in TFs : RestFileOK(cp, e, u)
  BY <1>4, <1>8 DEF CollectedOK, RestFileOK
<1>14. CollectedOK(cp, e)
  BY <1>2, <1>11, <1>12, <1>13 DEF CollectedOK
<1>15. SealedKept(d, e)
  <2>1. ASSUME NEW o \in Shards, Sealed(d, o)
        PROVE  Sealed(e, o) /\ e[o].files = d[o].files /\ e[o].manifest.content = d[o].manifest.content
    <3>1. CASE o # s
      BY <1>2, <1>6, <2>1, <3>1
    <3>2. CASE o = s
      <4>1. s = "rest" /\ d["rest"].manifest.content = d["rest"].files
        BY <1>3, <1>10, <2>1, <3>2 DEF RestSealOK, Sealed
      <4> QED
        BY <1>2, <3>2, <4>1
    <3> QED
      BY <3>1, <3>2
  <2> QED
    BY <2>1 DEF SealedKept
<1> QED
  BY <1>14, <1>15

-----------------------------------------------------------------------------
(* Publishing.                                                             *)
LEMMA Concatenated ==
    ASSUME NEW S, NEW a \in Seq(S), NEW b \in Seq(S), NEW c, c = a \o b
    PROVE  /\ c \in Seq(S) /\ Len(c) = Len(a) + Len(b)
           /\ \A i \in 1 .. Len(a) : c[i] = a[i]
           /\ \A i \in 1 .. Len(b) : c[Len(a) + i] = b[i]
  OBVIOUS

LEMMA PlanFacts ==
    ASSUME NEW kind, NEW plan, plan = Plan(kind)
    PROVE  /\ Len(plan) \in Nat \ {0} /\ DOMAIN plan = 1 .. Len(plan)
           /\ \A at \in DOMAIN plan : plan[at] = "manifest" =>
                 \A name \in Named(kind) : \E i \in 1 .. at - 1 : plan[i] = name
<1>1. PICK mid : mid = IF kind = "source" THEN <<>> ELSE <<"checksums">>
  OBVIOUS
<1>2. PICK S : S = TFs \cup {"checksums", "manifest"}
  OBVIOUS
<1>3. Timeframes \in Seq(TFs) /\ "manifest" \notin TFs
  BY NameAssumption DEF TFs
<1>0. PICK last : last = <<"manifest">>
  OBVIOUS
<1>4. Timeframes \in Seq(S) /\ mid \in Seq(S) /\ last \in Seq(S) /\ Len(last) = 1 /\ last[1] = "manifest"
  <2>1. Timeframes \in Seq(S)
    <3>1. TFs \subseteq S
      BY <1>2
    <3> QED
      BY <1>3, <3>1
  <2>2. "checksums" \in S /\ "manifest" \in S
    BY <1>2
  <2>3. <<>> \in Seq(S) /\ <<"checksums">> \in Seq(S) /\ <<"manifest">> \in Seq(S)
    BY <2>2
  <2>4. mid \in Seq(S)
    BY <1>1, <2>3
  <2>5. last \in Seq(S) /\ Len(last) = 1 /\ last[1] = "manifest"
    BY <1>0, <2>3
  <2> QED
    BY <2>1, <2>4, <2>5
<1>5. PICK n \in Nat : n = Len(Timeframes)
  BY <1>3
<1>6. PICK first : first = Timeframes \o mid
  OBVIOUS
<1>7. /\ first \in Seq(S) /\ Len(first) = n + Len(mid) /\ Len(mid) \in {0, 1}
      /\ \A i \in 1 .. n : first[i] = Timeframes[i]
  BY <1>1, <1>4, <1>5, <1>6
<1>8. \A i \in 1 .. Len(first) : i > n => first[i] = "checksums"
  BY <1>1, <1>4, <1>5, <1>6
<1>9. plan = first \o <<"manifest">>
  BY <1>1, <1>6 DEF Plan
<1>10. /\ plan \in Seq(S) /\ Len(plan) = Len(first) + 1
       /\ \A i \in 1 .. Len(first) : plan[i] = first[i]
       /\ plan[Len(plan)] = "manifest"
  <2>1. plan = first \o last
    BY <1>0, <1>9
  <2>2. PICK l \in Nat : l = Len(first)
    BY <1>7
  <2>3. /\ plan \in Seq(S) /\ Len(plan) = Len(first) + Len(last)
        /\ \A i \in 1 .. Len(first) : plan[i] = first[i]
        /\ \A i \in 1 .. Len(last) : plan[Len(first) + i] = last[i]
    <3>1. first \in Seq(S) /\ last \in Seq(S)
      BY <1>4, <1>7
    <3> QED
      BY ONLY <2>1, <3>1, Concatenated
  <2>4. plan[l + 1] = last[1]
    BY <1>4, <2>2, <2>3
  <2> QED
    BY <1>4, <2>2, <2>3, <2>4
<1>11. Len(plan) \in Nat \ {0} /\ DOMAIN plan = 1 .. Len(plan)
  BY <1>7, <1>10
<1>12. ASSUME NEW at \in DOMAIN plan, plan[at] = "manifest", NEW name \in Named(kind)
       PROVE  \E i \in 1 .. at - 1 : plan[i] = name
  <2>1. \A i \in 1 .. n : Timeframes[i] # "manifest"
    BY <1>3, <1>5
  <2>2. at \in Nat /\ at = Len(first) + 1
    <3>1. \A i \in 1 .. Len(first) : plan[i] # "manifest"
      BY <1>7, <1>8, <1>10, <2>1
    <3> QED
      BY <1>7, <1>10, <1>11, <1>12, <3>1
  <2>3. CASE name \in TFs
    <3>1. PICK i \in 1 .. n : Timeframes[i] = name
      BY <1>3, <1>5, <2>3 DEF TFs, Range
    <3>2. i \in 1 .. at - 1 /\ plan[i] = name
      BY <1>7, <1>10, <2>2, <3>1
    <3> QED
      BY <3>2
  <2>4. CASE name \notin TFs
    <3>1. name = "checksums" /\ kind # "source"
      BY <1>12, <2>4 DEF Named
    <3>2. Len(mid) = 1
      BY <1>1, <3>1
    <3>3. n + 1 \in 1 .. Len(first)
      BY <1>7, <3>2
    <3>4. n + 1 \in 1 .. at - 1 /\ plan[n + 1] = name
      BY <1>7, <1>8, <1>10, <2>2, <3>1, <3>3
    <3> QED
      BY <3>4
  <2> QED
    BY <2>3, <2>4
<1> QED
  BY <1>11, <1>12

(* What a restore downloads is what a publication puts before the manifest. *)
LEMMA DownloadsAreNamed ==
    ASSUME NEW kind, NEW name \in Range(Downloads(kind))
    PROVE  name \in Named(kind)
<1>1. PICK sums, S : sums = (IF kind = "source" THEN <<>> ELSE <<"checksums">>) /\ S = Named(kind)
  OBVIOUS
<1>2. Timeframes \in Seq(S)
  <2>1. Timeframes \in Seq(TFs) /\ TFs \subseteq S
    BY <1>1, NameAssumption DEF TFs, Named
  <2> QED
    BY <2>1
<1>3. sums \in Seq(S)
  <2>1. CASE kind = "source"
    BY <1>1, <2>1
  <2>2. CASE kind # "source"
    <3>1. "checksums" \in S
      BY <1>1, <2>2 DEF Named
    <3>2. <<"checksums">> \in Seq(S)
      BY <3>1
    <3> QED
      BY <1>1, <2>2, <3>2
  <2> QED
    BY <2>1, <2>2
<1>4. PICK list : list = sums \o Timeframes
  OBVIOUS
<1>5. list \in Seq(S)
  BY <1>2, <1>3, <1>4
<1>6. name \in Range(list)
  BY <1>1, <1>4 DEF Downloads
<1> QED
  BY <1>1, <1>5, <1>6 DEF Range

(* The objects after a put, and what a job that publishes puts.            *)
WithObject(put, key, bytes) == Over([k \in {key} |-> bytes], put)
Now(d, p) ==
    LET m == d["lock"].manifest
    IN  [key |-> ObjectKey(Prefix(p.kind, m), Plan(p.kind)[p.at]), bytes |-> Bytes(m, Plan(p.kind)[p.at])]

LEMMA ObjectPut ==
    ASSUME NEW put, NEW key, NEW bytes, NEW all, all = WithObject(put, key, bytes)
    PROVE  /\ DOMAIN put \subseteq DOMAIN all /\ key \in DOMAIN all /\ all[key] = bytes
           /\ \A k \in DOMAIN all : k # key => k \in DOMAIN put /\ all[k] = put[k]
  BY DEF WithObject, Over

LEMMA MorePublished ==
    ASSUME NEW put, NEW all, DOMAIN put \subseteq DOMAIN all, NEW p, NEW d, PublicationOK(put, p, d)
    PROVE  PublicationOK(all, p, d)
  BY DEF PublicationOK

LEMMA ContentOfPrefix ==
    ASSUME NEW kind, NEW m
    PROVE  Prefix(kind, m).kind = kind /\ ContentUnder(Prefix(kind, m)) = m.content
<1>1. CASE kind = "source"
  <2>1. Prefix(kind, m) = [kind |-> kind, of |-> m.content]
    BY <1>1 DEF Prefix
  <2> QED
    BY <1>1, <2>1 DEF ContentUnder
<1>2. CASE kind # "source"
  <2>1. Prefix(kind, m) = [kind |-> kind, of |-> m]
    BY <1>2 DEF Prefix
  <2> QED
    BY <1>2, <2>1 DEF ContentUnder
<1> QED
  BY <1>1, <1>2

LEMMA PutKeepsObjects ==
    ASSUME NEW put, NEW p, NEW d, PublicationOK(put, p, d), p.do = "put",
           \A k \in DOMAIN put : ObjectOK(put, k),
           NEW object, object = Now(d, p), NEW all, all = WithObject(put, object.key, object.bytes)
    PROVE  \A k \in DOMAIN all : ObjectOK(all, k)
<1>1. PICK m, plan, name, prefix, at :
          /\ m = d["lock"].manifest /\ plan = Plan(p.kind) /\ at = p.at /\ name = plan[at]
          /\ prefix = Prefix(p.kind, m)
  OBVIOUS
<1>2. object = [key |-> <<prefix, name>>, bytes |-> Bytes(m, name)]
  BY <1>1 DEF Now, ObjectKey
<1>3. PICK key, bytes : key = <<prefix, name>> /\ bytes = Bytes(m, name)
  OBVIOUS
<1>4. object.key = key /\ object.bytes = bytes /\ key[1] = prefix /\ key[2] = name
  BY <1>2, <1>3
<1>5. /\ DOMAIN put \subseteq DOMAIN all /\ key \in DOMAIN all /\ all[key] = bytes
      /\ \A k \in DOMAIN all : k # key => k \in DOMAIN put /\ all[k] = put[k]
  BY <1>4, ObjectPut
<1>6. /\ at \in DOMAIN plan
      /\ \A i \in 1 .. at - 1 : ObjectKey(prefix, plan[i]) \in DOMAIN put
  BY <1>1 DEF PublicationOK
<1>7. prefix.kind = p.kind /\ ContentUnder(prefix) = m.content
  BY <1>1, ContentOfPrefix
<1>8. ASSUME NEW k \in DOMAIN all
      PROVE  ObjectOK(all, k)
  <2>1. CASE k # key
    <3>1. ObjectOK(put, k) /\ all[k] = put[k]
      BY <1>5, <2>1
    <3> QED
      BY <1>5, <3>1 DEF ObjectOK
  <2>2. CASE k = key
    <3>1. ASSUME name \in TFs
          PROVE  bytes = m.content[name]
      <4>1. name # "manifest" /\ name # "checksums"
        BY <3>1, NameAssumption DEF TFs
      <4> QED
        BY <1>3, <4>1 DEF Bytes
    <3>2. ASSUME name = "manifest"
          PROVE  bytes = m /\ \A file \in Named(p.kind) : ObjectKey(prefix, file) \in DOMAIN all
      <4>1. bytes = m
        BY <1>3, <3>2 DEF Bytes
      <4>2. ASSUME NEW file \in Named(p.kind)
            PROVE  ObjectKey(prefix, file) \in DOMAIN all
        <5>1. PICK i \in 1 .. at - 1 : plan[i] = file
          <6>1. PICK kind : kind = p.kind
            OBVIOUS
          <6>2. plan = Plan(kind) /\ at \in DOMAIN plan /\ plan[at] = "manifest" /\ file \in Named(kind)
            BY <1>1, <1>6, <3>2, <6>1
          <6> QED
            BY ONLY <6>2, PlanFacts
        <5> QED
          BY <1>5, <1>6, <5>1
      <4> QED
        BY <4>1, <4>2
    <3>3. ASSUME name = "checksums"
          PROVE  bytes = m.content /\ name \notin TFs
      BY <1>3, <3>3, NameAssumption DEF Bytes, TFs
    <3> QED
      BY <1>4, <1>5, <1>7, <2>2, <3>1, <3>2, <3>3 DEF ObjectOK
  <2> QED
    BY <2>1, <2>2
<1> QED
  BY <1>8

LEMMA PublishStarts ==
    ASSUME NEW d, Sealed(d, "lock"), NEW put, NEW kind \in {"source", "research"},
           NEW q, q = [do |-> "head", kind |-> kind, at |-> 1]
    PROVE  StepOK(q) /\ PublicationOK(put, q, d) /\ q.do = "head"
<1>1. StepOK([do |-> "head", kind |-> kind, at |-> 1])
  BY StepForms
<1>2. q.do = "head" /\ q.kind = kind /\ q.at = 1
  OBVIOUS
<1>3. 1 \in DOMAIN Plan(kind)
  <2>1. PICK plan : plan = Plan(kind)
    OBVIOUS
  <2>2. Len(plan) \in Nat \ {0} /\ DOMAIN plan = 1 .. Len(plan)
    BY <2>1, PlanFacts
  <2> QED
    BY <2>1, <2>2
<1>4. 1 .. (IF q.do = "readback" THEN q.at ELSE q.at - 1) = {}
  BY <1>2
<1> QED
  BY <1>1, <1>2, <1>3, <1>4 DEF PublicationOK

(* The head of an object, its put, and its readback, that of the next.     *)
Advanced(p, q, object, all) ==
    \/ p.do = "head" /\ q = [p EXCEPT !.do = "put"]
    \/ p.do \in {"head", "put"} /\ object.key \in DOMAIN all /\ q = [p EXCEPT !.do = "readback"]
    \/ p.do = "readback" /\ p.at # Len(Plan(p.kind)) /\ q = [p EXCEPT !.do = "head", !.at = @ + 1]

LEMMA PublishGoes ==
    ASSUME NEW put, NEW all, NEW p, StepOK(p), p.do \in {"head", "put", "readback"},
           NEW d, PublicationOK(put, p, d), DOMAIN put \subseteq DOMAIN all,
           NEW object, object = Now(d, p), NEW q, Advanced(p, q, object, all)
    PROVE  StepOK(q) /\ PublicationOK(all, q, d) /\ q.do \in {"head", "put", "readback"}
<1>1. p \in PublishSteps
  BY StepKinds
<1>2. PICK kind, at, plan, m :
          /\ kind = p.kind /\ at = p.at /\ plan = Plan(p.kind) /\ m = d["lock"].manifest
  OBVIOUS
<1>3. kind \in {"source", "research"} /\ at \in Nat \ {0}
  BY <1>1, <1>2 DEF PublishSteps
<1>4. /\ at \in DOMAIN plan /\ Sealed(d, "lock")
      /\ \A i \in 1 .. (IF p.do = "readback" THEN at ELSE at - 1) : ObjectKey(Prefix(kind, m), plan[i]) \in DOMAIN all
  BY <1>2 DEF PublicationOK
<1>5. \A i \in 1 .. at - 1 : i \in 1 .. (IF p.do = "readback" THEN at ELSE at - 1)
  BY <1>3
<1>6. CASE p.do = "head" /\ q = [p EXCEPT !.do = "put"]
  <2>1. q \in PublishSteps /\ q.do = "put" /\ q.kind = kind /\ q.at = at
    BY <1>1, <1>2, <1>6 DEF PublishSteps
  <2> QED
    BY <1>2, <1>4, <1>5, <2>1 DEF PublicationOK, StepOK
<1>7. CASE p.do \in {"head", "put"} /\ object.key \in DOMAIN all /\ q = [p EXCEPT !.do = "readback"]
  <2>1. q \in PublishSteps /\ q.do = "readback" /\ q.kind = kind /\ q.at = at
    BY <1>1, <1>2, <1>7 DEF PublishSteps
  <2>2. ObjectKey(Prefix(kind, m), plan[at]) \in DOMAIN all
    BY <1>2, <1>7 DEF Now
  <2>3. \A i \in 1 .. at : i \in 1 .. at - 1 \/ i = at
    BY <1>3
  <2>4. \A i \in 1 .. at : ObjectKey(Prefix(kind, m), plan[i]) \in DOMAIN all
    BY <1>4, <1>5, <2>2, <2>3
  <2> QED
    BY <1>2, <1>4, <2>1, <2>4 DEF PublicationOK, StepOK
<1>8. CASE p.do = "readback" /\ p.at # Len(Plan(p.kind)) /\ q = [p EXCEPT !.do = "head", !.at = @ + 1]
  <2>1. q = [p EXCEPT !.do = "head", !.at = at + 1]
    BY <1>2, <1>8
  <2>2. q \in PublishSteps /\ q.do = "head" /\ q.kind = kind /\ q.at = at + 1
    <3>1. PICK next : next = at + 1
      OBVIOUS
    <3>2. next \in Nat \ {0} /\ q = [p EXCEPT !.do = "head", !.at = next]
      BY <1>3, <2>1, <3>1
    <3>3. q = [do |-> "head", kind |-> kind, at |-> next]
      BY <1>1, <1>2, <3>2 DEF PublishSteps
    <3>4. q \in PublishSteps
      BY <1>3, <3>2, <3>3 DEF PublishSteps
    <3> QED
      BY <3>1, <3>3, <3>4
  <2>3. at + 1 \in DOMAIN plan
    <3>1. Len(plan) \in Nat \ {0} /\ DOMAIN plan = 1 .. Len(plan)
      BY <1>2, PlanFacts
    <3> QED
      BY <1>2, <1>3, <1>4, <1>8, <3>1
  <2>4. \A i \in 1 .. (at + 1) - 1 : ObjectKey(Prefix(kind, m), plan[i]) \in DOMAIN all
    BY <1>3, <1>4, <1>8
  <2> QED
    BY <1>2, <1>4, <2>2, <2>3, <2>4 DEF PublicationOK, StepOK
<1> QED
  BY <1>6, <1>7, <1>8 DEF Advanced

-----------------------------------------------------------------------------
(* A step of one job.                                                      *)
Moved(f, g, j) == IsOn(g, Jobs) /\ \A k \in Jobs \ {j} : g[k] = f[k]

LEMMA NotMoved ==
    ASSUME NEW f, IsOn(f, Jobs), NEW j \in Jobs
    PROVE  Moved(f, f, j)
  BY DEF Moved

LEMMA JobStep ==
    ASSUME ArchiveInv, NEW j \in Jobs, now' = now,
           Moved(checkpoint, checkpoint', j), Moved(pc, pc', j), Moved(dir, dir', j),
           CollectedOK(checkpoint'[j], dir'[j]), GoingOK(checkpoint'[j], pc'[j], dir'[j]),
           PublicationOK(objects', pc'[j], dir'[j]),
           DOMAIN objects \subseteq DOMAIN objects', \A key \in DOMAIN objects' : ObjectOK(objects', key)
    PROVE  ArchiveInv'
<1>1. ASSUME NEW k \in Jobs
      PROVE  /\ CollectedOK(checkpoint'[k], dir'[k])
             /\ GoingOK(checkpoint'[k], pc'[k], dir'[k])
             /\ PublicationOK(objects', pc'[k], dir'[k])
  <2>1. CASE k = j
    BY <2>1
  <2>2. CASE k # j
    <3>1. checkpoint'[k] = checkpoint[k] /\ pc'[k] = pc[k] /\ dir'[k] = dir[k]
      BY <2>2 DEF Moved
    <3>2. /\ CollectedOK(checkpoint[k], dir[k]) /\ GoingOK(checkpoint[k], pc[k], dir[k])
          /\ PublicationOK(objects, pc[k], dir[k])
      BY DEF ArchiveInv
    <3> QED
      BY <3>1, <3>2, MorePublished
  <2> QED
    BY <2>1, <2>2
<1>2. now' \in Nat /\ IsOn(pc', Jobs) /\ IsOn(checkpoint', Jobs) /\ IsOn(dir', Jobs)
  BY DEF ArchiveInv, Moved
<1> QED
  BY <1>1, <1>2 DEF ArchiveInv

(* A step that leaves the checkpoints, directories and objects alone.      *)
LEMMA PlainStep ==
    ASSUME ArchiveInv, NEW j \in Jobs, UNCHANGED <<now, checkpoint, dir, objects>>,
           NEW q, Goto(j, q), GoingOK(checkpoint[j], q, dir[j]), PublicationOK(objects, q, dir[j])
    PROVE  ArchiveInv'
<1>1. IsOn(pc, Jobs) /\ IsOn(checkpoint, Jobs) /\ IsOn(dir, Jobs)
  BY DEF ArchiveInv
<1>2. Moved(pc, pc', j) /\ pc'[j] = q
  BY <1>1 DEF Goto, Moved, IsOn
<1>3. Moved(checkpoint, checkpoint', j) /\ Moved(dir, dir', j)
  BY <1>1, NotMoved
<1>4. CollectedOK(checkpoint[j], dir[j]) /\ \A key \in DOMAIN objects : ObjectOK(objects, key)
  BY DEF ArchiveInv
<1>5. /\ CollectedOK(checkpoint'[j], dir'[j]) /\ GoingOK(checkpoint'[j], pc'[j], dir'[j])
      /\ PublicationOK(objects', pc'[j], dir'[j])
      /\ DOMAIN objects \subseteq DOMAIN objects' /\ \A key \in DOMAIN objects' : ObjectOK(objects', key)
  BY <1>2, <1>4
<1> QED
  BY <1>2, <1>3, <1>5, JobStep

LEMMA ArchiveStarts == ArchiveInit => ArchiveInv
<1> SUFFICES ASSUME ArchiveInit
             PROVE  ArchiveInv
  OBVIOUS
<1> USE DEF ArchiveInit
<1>1. now \in Nat
  BY TimeAssumption
<1>2. IsOn(pc, Jobs) /\ IsOn(checkpoint, Jobs) /\ IsOn(dir, Jobs)
  BY DEF IsOn
<1>3. DOMAIN objects = {}
  BY DEF Nothing
<1>4. ASSUME NEW j \in Jobs
      PROVE  /\ CollectedOK(checkpoint[j], dir[j]) /\ GoingOK(checkpoint[j], pc[j], dir[j])
             /\ PublicationOK(objects, pc[j], dir[j])
  <2>1. PICK cp, d : cp = checkpoint[j] /\ d = dir[j]
    OBVIOUS
  <2>2. cp = [r \in Requests |-> Nothing] /\ d = [s \in Shards |-> EmptyDir]
    BY <2>1
  <2>3. \A s \in Shards : d[s] = [files |-> [tf \in TFs |-> Nothing], manifest |-> Nothing]
    BY <2>2 DEF EmptyDir
  <2>4. DirectoryOK(d)
    BY <2>2, <2>3 DEF DirectoryOK, IsOn
  <2>5. \A r : r \in Requests => cp[r] = Nothing
    BY <2>2
  <2>6. \A tf \in TFs : \A c \in Slots(tf, Joins, LastCandle(tf)) : cp[Request(tf, c)] = Nothing
    BY <2>5 DEF Requests
  <2>7. CheckpointOK(cp)
    BY <2>2, <2>6 DEF CheckpointOK, IsOn
  <2>8. \A tf \in TFs : Answered(cp, tf) = {}
    BY <2>6 DEF Answered, AskedIn
  <2>9. \A tf \in TFs : ChainOK(cp, tf)
    BY <2>8 DEF ChainOK
  <2>10. \A s \in Shards : ~Sealed(d, s) /\ \A tf \in TFs : d[s].files[tf] = Nothing
    BY <2>3 DEF Sealed
  <2>11. /\ RestSealOK(d) /\ SealOK(d, "deals") /\ SealOK(d, "lock")
         /\ \A tf \in TFs : RestFileOK(cp, d, tf)
    BY <2>10 DEF RestSealOK, SealOK, Shards, RestFileOK, Sealed
  <2>12. CollectedOK(cp, d)
    BY <2>4, <2>7, <2>9, <2>11 DEF CollectedOK
  <2>13. pc[j] = AtRest
    BY DEF AtRest
  <2> QED
    BY <2>1, <2>12, <2>13, RestStep
<1> QED
  BY <1>1, <1>2, <1>3, <1>4 DEF ArchiveInv

(* The steps of the collection.                                            *)
LEMMA WindowStep ==
    ASSUME ArchiveInv, NEW j \in Jobs, Window(j)
    PROVE  ArchiveInv'
<1>1. PICK p, tf, c, cp, d :
          p = pc[j] /\ tf = Timeframes[p.tf] /\ c = p.cursor /\ cp = checkpoint[j] /\ d = dir[j]
  OBVIOUS
<1>2. /\ p.do = "rest" /\ c < Ends /\ now' = now /\ dir' = dir /\ objects' = objects
      /\ \E lost : LET got == SavedOr(j, Request(tf, c), Saved(Request(tf, c), lost))
                   IN  /\ checkpoint' = [checkpoint EXCEPT ![j][Request(tf, c)] = got]
                       /\ Goto(j, IF Conflicts(Merged(j, tf, c), got.rows) THEN AtRest
                                  ELSE [p EXCEPT !.cursor = Following(tf, @)])
  BY <1>1 DEF Window
<1>3. PICK lost, got, q :
          /\ got = SavedOr(j, Request(tf, c), Saved(Request(tf, c), lost))
          /\ checkpoint' = [checkpoint EXCEPT ![j][Request(tf, c)] = got]
          /\ (q = AtRest \/ q = AfterWindow(p)) /\ Goto(j, q)
  <2>1. PICK lost, got :
            /\ got = SavedOr(j, Request(tf, c), Saved(Request(tf, c), lost))
            /\ checkpoint' = [checkpoint EXCEPT ![j][Request(tf, c)] = got]
            /\ Goto(j, IF Conflicts(Merged(j, tf, c), got.rows) THEN AtRest
                       ELSE [p EXCEPT !.cursor = Following(tf, @)])
    BY <1>2
  <2>2. [p EXCEPT !.cursor = Following(tf, @)] = AfterWindow(p)
    BY <1>1 DEF AfterWindow
  <2>3. Goto(j, AtRest) \/ Goto(j, AfterWindow(p))
    BY <2>1, <2>2
  <2> QED
    BY <2>1, <2>3
<1>4. /\ CollectedOK(cp, d) /\ GoingOK(cp, p, d)
      /\ IsOn(pc, Jobs) /\ IsOn(checkpoint, Jobs) /\ IsOn(dir, Jobs) /\ now \in Nat
      /\ \A key \in DOMAIN objects : ObjectOK(objects, key)
  BY <1>1 DEF ArchiveInv
<1>5. PICK cq : cq = SavedIn(cp, Request(tf, c), got)
  OBVIOUS
<1>6. Moved(checkpoint, checkpoint', j) /\ checkpoint'[j] = cq
  BY <1>1, <1>3, <1>4, <1>5 DEF Moved, IsOn, SavedIn
<1>7. Moved(pc, pc', j) /\ pc'[j] = q
  BY <1>3, <1>4 DEF Goto, Moved, IsOn
<1>8. AnswerTaken(cp, tf, c, got)
  <2>1. p \in RestSteps
    BY <1>2, <1>4, StepKinds DEF GoingOK
  <2>2. tf \in TFs
    BY <1>1, <2>1 DEF RestSteps, TFs, Range
  <2>3. ChainOK(cp, tf) /\ OnChain(cp, tf, c)
    BY <1>1, <1>2, <1>4, <2>2 DEF CollectedOK, GoingOK, RestGoing
  <2>4. c \in Slots(tf, Joins, LastCandle(tf))
    BY <1>2, <2>2, <2>3, NextOnChain
  <2>5. CASE cp[Request(tf, c)] # Nothing
    BY <1>1, <1>3, <2>5 DEF SavedOr, AnswerTaken
  <2>6. CASE cp[Request(tf, c)] = Nothing
    <3>1. got = Saved(Request(tf, c), lost)
      BY <1>1, <1>3, <2>6 DEF SavedOr
    <3> QED
      BY <1>4, <2>2, <2>4, <2>6, <3>1, AnswerFacts DEF AnswerTaken
  <2> QED
    BY <2>5, <2>6
<1>9. CollectedOK(cq, d) /\ GoingOK(cq, q, d) /\ \A put : PublicationOK(put, q, d)
  BY <1>1, <1>2, <1>3, <1>4, <1>5, <1>8, WindowGoes
<1>10. /\ Moved(dir, dir', j) /\ dir'[j] = d /\ DOMAIN objects \subseteq DOMAIN objects'
       /\ \A key \in DOMAIN objects' : ObjectOK(objects', key)
  BY <1>1, <1>2, <1>4, NotMoved
<1>11. /\ CollectedOK(checkpoint'[j], dir'[j]) /\ GoingOK(checkpoint'[j], pc'[j], dir'[j])
       /\ PublicationOK(objects', pc'[j], dir'[j])
  BY <1>6, <1>7, <1>9, <1>10
<1> QED
  BY <1>2, <1>6, <1>7, <1>10, <1>11, JobStep

(* A step that writes in a directory of its job.                           *)
LEMMA DirectoryStep ==
    ASSUME ArchiveInv, NEW j \in Jobs, UNCHANGED <<now, checkpoint, objects>>,
           NEW q, Goto(j, q), NEW e, Moved(dir, dir', j), dir'[j] = e,
           CollectedOK(checkpoint[j], e), GoingOK(checkpoint[j], q, e), PublicationOK(objects, q, e),
           SealedKept(dir[j], e)
    PROVE  ArchiveInv' /\ \A k \in Jobs : SealedKept(dir[k], dir'[k])
<1>1. IsOn(pc, Jobs) /\ IsOn(checkpoint, Jobs) /\ \A key \in DOMAIN objects : ObjectOK(objects, key)
  BY DEF ArchiveInv
<1>2. Moved(pc, pc', j) /\ pc'[j] = q
  BY <1>1 DEF Goto, Moved, IsOn
<1>3. Moved(checkpoint, checkpoint', j)
  BY <1>1, NotMoved
<1>4. /\ CollectedOK(checkpoint'[j], dir'[j]) /\ GoingOK(checkpoint'[j], pc'[j], dir'[j])
      /\ PublicationOK(objects', pc'[j], dir'[j])
      /\ DOMAIN objects \subseteq DOMAIN objects' /\ \A key \in DOMAIN objects' : ObjectOK(objects', key)
  BY <1>1, <1>2
<1>5. ArchiveInv'
  BY <1>2, <1>3, <1>4, JobStep
<1>6. ASSUME NEW k \in Jobs
      PROVE  SealedKept(dir[k], dir'[k])
  <2>1. CASE k = j
    BY <2>1
  <2>2. CASE k # j
    <3>1. dir'[k] = dir[k]
      BY <2>2 DEF Moved
    <3> QED
      BY <3>1 DEF SealedKept
  <2> QED
    BY <2>1, <2>2
<1> QED
  BY <1>5, <1>6

LEMMA LockStep ==
    ASSUME ArchiveInv, NEW j \in Jobs, LockTimeframe(j)
    PROVE  ArchiveInv' /\ \A k \in Jobs : SealedKept(dir[k], dir'[k])
<1>1. PICK p, tf, rows, cp, d :
          /\ p = pc[j] /\ tf = Timeframes[p.tf] /\ cp = checkpoint[j] /\ d = dir[j]
          /\ rows = MergedIn(cp, tf, Ends)
  OBVIOUS
<1>2. /\ CollectedOK(cp, d) /\ GoingOK(cp, p, d)
      /\ IsOn(pc, Jobs) /\ IsOn(checkpoint, Jobs) /\ IsOn(dir, Jobs)
  BY <1>1 DEF ArchiveInv
<1>3. Merged(j, tf, Ends) = rows
  BY <1>1, MergedIsMergedIn
<1>4. /\ p.do = "rest" /\ p.cursor = Ends /\ UNCHANGED <<now, checkpoint, objects>>
      /\ \/ /\ Covers(tf, rows, Joins, Ends)
            /\ dir' = [dir EXCEPT ![j]["rest"] = WithFile(@, tf, rows)]
            /\ Goto(j, AfterLock(p))
         \/ Goto(j, AtRest) /\ UNCHANGED dir
  BY <1>1, <1>3 DEF LockTimeframe, AfterLock
<1>5. CASE Goto(j, AtRest) /\ UNCHANGED dir
  <2>1. ArchiveInv'
    BY <1>4, <1>5, RestStep, PlainStep
  <2> QED
    BY <1>5, <2>1 DEF SealedKept
<1>6. CASE /\ Covers(tf, rows, Joins, Ends)
           /\ dir' = [dir EXCEPT ![j]["rest"] = WithFile(@, tf, rows)]
           /\ Goto(j, AfterLock(p))
  <2>1. PICK e, q : e = FileIn(d, "rest", tf, rows) /\ q = AfterLock(p)
    OBVIOUS
  <2>2. Moved(dir, dir', j) /\ dir'[j] = e
    BY <1>1, <1>2, <1>6, <2>1 DEF Moved, IsOn, FileIn
  <2>3. rows # Nothing
    BY <1>6 DEF Covers
  <2>4. /\ CollectedOK(cp, e) /\ GoingOK(cp, q, e) /\ \A put : PublicationOK(put, q, e)
        /\ SealedKept(d, e)
    BY <1>1, <1>2, <1>4, <2>1, <2>3, LockGoes
  <2>5. Goto(j, q)
    BY <1>6, <2>1
  <2> QED
    BY <1>1, <1>4, <2>2, <2>4, <2>5, DirectoryStep
<1> QED
  BY <1>4, <1>5, <1>6

LEMMA WriteStep ==
    ASSUME ArchiveInv, NEW j \in Jobs, WriteFile(j)
    PROVE  ArchiveInv' /\ \A k \in Jobs : SealedKept(dir[k], dir'[k])
<1>1. PICK p, s, tf, rows, cp, d :
          /\ p = pc[j] /\ s = p.shard /\ tf = Timeframes[p.tf] /\ cp = checkpoint[j] /\ d = dir[j]
          /\ rows = ContentIn(d, s, tf)
  OBVIOUS
<1>2. /\ CollectedOK(cp, d) /\ GoingOK(cp, p, d)
      /\ IsOn(pc, Jobs) /\ IsOn(checkpoint, Jobs) /\ IsOn(dir, Jobs)
  BY <1>1 DEF ArchiveInv
<1>3. p.do = "write" /\ UNCHANGED <<now, checkpoint, objects>>
  BY <1>1 DEF WriteFile
<1>4. p \in WriteSteps
  BY <1>2, <1>3, StepKinds DEF GoingOK
<1>5. tf \in TFs /\ s \in {"deals", "lock"}
  BY <1>1, <1>4 DEF WriteSteps, TFs, Range
<1>6. rows = IF p.shard = "lock" THEN MergedContent(j)[tf] ELSE DealsContent[tf]
  BY <1>1, <1>5 DEF ContentIn, MergedContent
<1>7. \/ /\ Valid(tf, rows) /\ Covers(tf, rows, Span[s][1], Span[s][2])
         /\ dir' = [dir EXCEPT ![j][s] = WithFile(@, tf, rows)]
         /\ Goto(j, AfterWrite(p))
      \/ Goto(j, AtRest) /\ UNCHANGED dir
  BY <1>1, <1>6 DEF WriteFile, AfterWrite
<1>8. CASE Goto(j, AtRest) /\ UNCHANGED dir
  <2>1. ArchiveInv'
    BY <1>3, <1>8, RestStep, PlainStep
  <2> QED
    BY <1>8, <2>1 DEF SealedKept
<1>9. CASE /\ Valid(tf, rows) /\ Covers(tf, rows, Span[s][1], Span[s][2])
           /\ dir' = [dir EXCEPT ![j][s] = WithFile(@, tf, rows)]
           /\ Goto(j, AfterWrite(p))
  <2>1. PICK e, q : e = FileIn(d, s, tf, rows) /\ q = AfterWrite(p)
    OBVIOUS
  <2>2. Moved(dir, dir', j) /\ dir'[j] = e
    BY <1>1, <1>2, <1>9, <2>1 DEF Moved, IsOn, FileIn
  <2>3. /\ CollectedOK(cp, e) /\ GoingOK(cp, q, e) /\ \A put : PublicationOK(put, q, e)
        /\ SealedKept(d, e)
    BY <1>1, <1>2, <1>3, <1>9, <2>1, WriteGoes
  <2>4. Goto(j, q)
    BY <1>9, <2>1
  <2> QED
    BY <1>1, <1>3, <2>2, <2>3, <2>4, DirectoryStep
<1> QED
  BY <1>7, <1>8, <1>9

LEMMA SealStep ==
    ASSUME ArchiveInv, NEW j \in Jobs, Seal(j)
    PROVE  ArchiveInv' /\ \A k \in Jobs : SealedKept(dir[k], dir'[k])
<1>1. PICK p, s, cp, d : p = pc[j] /\ s = p.shard /\ cp = checkpoint[j] /\ d = dir[j]
  OBVIOUS
<1>2. /\ CollectedOK(cp, d) /\ GoingOK(cp, p, d)
      /\ IsOn(pc, Jobs) /\ IsOn(checkpoint, Jobs) /\ IsOn(dir, Jobs)
  BY <1>1 DEF ArchiveInv
<1>3. /\ p.do = "seal" /\ UNCHANGED <<now, checkpoint, objects>> /\ Goto(j, AtRest)
      /\ dir' = [dir EXCEPT ![j][s].manifest = Manifest(d[s].files, j)]
  BY <1>1 DEF Seal
<1>4. PICK e : e = ManifestIn(d, s, j)
  OBVIOUS
<1>5. Moved(dir, dir', j) /\ dir'[j] = e
  BY <1>1, <1>2, <1>3, <1>4 DEF Moved, IsOn, ManifestIn
<1>6. CollectedOK(cp, e) /\ SealedKept(d, e)
  BY <1>1, <1>2, <1>3, <1>4, SealGoes
<1>7. GoingOK(cp, AtRest, e) /\ PublicationOK(objects, AtRest, e)
  BY RestStep
<1> QED
  BY <1>1, <1>3, <1>5, <1>6, <1>7, DirectoryStep

(* The steps that read.                                                    *)
LEMMA StartStep ==
    ASSUME ArchiveInv, NEW j \in Jobs, StartRest(j) \/ StartDeals(j) \/ StartMerge(j)
    PROVE  ArchiveInv' /\ dir' = dir
<1>1. PICK cp, d : cp = checkpoint[j] /\ d = dir[j]
  OBVIOUS
<1>2. CollectedOK(cp, d)
  BY <1>1 DEF ArchiveInv
<1>3. UNCHANGED <<now, checkpoint, dir, objects>>
  BY DEF StartRest, StartDeals, StartMerge
<1>4. 1 \in DOMAIN Timeframes
  BY NameAssumption
<1>5. CASE StartRest(j)
  <2>1. PICK q : q = [do |-> "rest", tf |-> 1, cursor |-> Joins]
    OBVIOUS
  <2>2. StepOK(q) /\ q.do = "rest" /\ q.tf = 1 /\ q.cursor = Joins
    <3>1. Joins \in Nat
      BY TimeAssumption
    <3>2. StepOK([do |-> "rest", tf |-> 1, cursor |-> Joins])
      BY <1>4, <3>1, StepForms
    <3> QED
      BY <2>1, <3>2
  <2>3. OnChain(cp, Timeframes[q.tf], q.cursor)
    BY <2>2 DEF OnChain
  <2>4. GoingOK(cp, q, d) /\ PublicationOK(objects, q, d)
    BY <2>2, <2>3 DEF GoingOK, RestGoing, WriteGoing, PublicationOK
  <2>5. Goto(j, q)
    BY <1>5, <2>1 DEF StartRest
  <2> QED
    BY <1>1, <1>3, <2>4, <2>5, PlainStep
<1>6. ASSUME NEW s \in {"deals", "lock"}, ~Sealed(d, s), s = "lock" => Mergeable(d),
             Goto(j, [do |-> "write", shard |-> s, tf |-> 1])
      PROVE  ArchiveInv'
  <2>1. PICK q : q = [do |-> "write", shard |-> s, tf |-> 1]
    OBVIOUS
  <2>2. StepOK(q) /\ q.do = "write" /\ q.shard = s /\ q.tf = 1
    <3>1. StepOK([do |-> "write", shard |-> s, tf |-> 1])
      BY <1>4, StepForms
    <3> QED
      BY <2>1, <3>1
  <2>3. GoingOK(cp, q, d) /\ PublicationOK(objects, q, d)
    BY <1>6, <2>2 DEF GoingOK, RestGoing, WriteGoing, PublicationOK
  <2>4. Goto(j, q)
    BY <1>6, <2>1
  <2> QED
    BY <1>1, <1>3, <2>3, <2>4, PlainStep
<1>7. CASE StartDeals(j)
  <2>1. ~Sealed(d, "deals") /\ Goto(j, [do |-> "write", shard |-> "deals", tf |-> 1])
    BY <1>1, <1>7 DEF StartDeals, Sealed
  <2> QED
    BY <1>3, <1>6, <2>1
<1>8. CASE StartMerge(j)
  <2>1. /\ ~Sealed(d, "lock") /\ Goto(j, [do |-> "write", shard |-> "lock", tf |-> 1])
        /\ Loads(d["deals"], "deals") /\ Loads(d["rest"], "rest")
    BY <1>1, <1>8 DEF StartMerge, Sealed
  <2>2. Mergeable(d)
    BY <2>1 DEF Loads, Mergeable, Sealed
  <2> QED
    BY <1>3, <1>6, <2>1, <2>2
<1> QED
  BY <1>3, <1>5, <1>7, <1>8

LEMMA PublishStep ==
    ASSUME ArchiveInv, NEW j \in Jobs,
           \/ \E kind \in {"source", "research"} : StartPublish(j, kind)
           \/ HeadObject(j) \/ PutObject(j) \/ Readback(j)
    PROVE  ArchiveInv' /\ dir' = dir
<1>1. PICK p, cp, d, object : p = pc[j] /\ cp = checkpoint[j] /\ d = dir[j] /\ object = Publishing(j)
  OBVIOUS
<1>2. /\ CollectedOK(cp, d) /\ GoingOK(cp, p, d) /\ PublicationOK(objects, p, d) /\ StepOK(p)
      /\ \A key \in DOMAIN objects : ObjectOK(objects, key)
      /\ IsOn(pc, Jobs) /\ IsOn(checkpoint, Jobs) /\ IsOn(dir, Jobs)
  BY <1>1 DEF ArchiveInv, GoingOK
<1>3. object = Now(d, p)
  BY <1>1 DEF Publishing, Now
<1>4. UNCHANGED <<now, checkpoint, dir>>
  BY DEF StartPublish, HeadObject, PutObject, Readback
<1>5. ASSUME NEW kind \in {"source", "research"}, StartPublish(j, kind)
      PROVE  ArchiveInv'
  <2>1. PICK q : q = [do |-> "head", kind |-> kind, at |-> 1]
    OBVIOUS
  <2>2. Sealed(d, "lock") /\ Goto(j, q) /\ UNCHANGED objects
    BY <1>1, <1>5, <2>1 DEF StartPublish, Loads, Sealed
  <2>3. StepOK(q) /\ PublicationOK(objects, q, d) /\ q.do = "head"
    BY <2>1, <2>2, PublishStarts
  <2>4. GoingOK(cp, q, d)
    BY <2>3, QuietStep
  <2> QED
    BY <1>1, <1>4, <2>2, <2>3, <2>4, PlainStep
<1>6. ASSUME UNCHANGED objects, p.do \in {"head", "put", "readback"}, NEW q, Goto(j, q),
             Advanced(p, q, object, objects)
      PROVE  ArchiveInv'
  <2>1. StepOK(q) /\ PublicationOK(objects, q, d) /\ q.do \in {"head", "put", "readback"}
    BY <1>2, <1>3, <1>6, PublishGoes
  <2>2. GoingOK(cp, q, d)
    BY <2>1, QuietStep
  <2> QED
    BY <1>1, <1>4, <1>6, <2>1, <2>2, PlainStep
<1>7. CASE HeadObject(j)
  <2>1. p.do = "head" /\ UNCHANGED objects
    BY <1>1, <1>7 DEF HeadObject
  <2>2. PICK q : Goto(j, q) /\ Advanced(p, q, object, objects)
    BY <1>1, <1>7, <2>1 DEF HeadObject, Advanced
  <2> QED
    BY <1>4, <1>6, <2>1, <2>2
<1>8. CASE PutObject(j)
  <2>1. /\ p.do = "put" /\ Goto(j, [p EXCEPT !.do = "readback"])
        /\ objects' = WithObject(objects, object.key, object.bytes)
    BY <1>1, <1>8 DEF PutObject, WithObject
  <2>2. PICK all, q : all = objects' /\ q = [p EXCEPT !.do = "readback"]
    OBVIOUS
  <2>3. all = WithObject(objects, object.key, object.bytes)
    BY <2>1, <2>2
  <2>4. DOMAIN objects \subseteq DOMAIN all /\ object.key \in DOMAIN all
    BY <2>3, ObjectPut
  <2>5. \A key \in DOMAIN all : ObjectOK(all, key)
    BY <1>2, <1>3, <2>1, <2>3, PutKeepsObjects
  <2>6. StepOK(q) /\ PublicationOK(all, q, d) /\ q.do \in {"head", "put", "readback"}
    <3>1. Advanced(p, q, object, all) /\ p.do \in {"head", "put", "readback"}
      BY <2>1, <2>2, <2>4 DEF Advanced
    <3> QED
      BY <1>2, <1>3, <2>4, <3>1, PublishGoes
  <2>7. GoingOK(cp, q, d)
    BY <2>6, QuietStep
  <2>8. Moved(pc, pc', j) /\ pc'[j] = q
    BY <1>2, <2>1, <2>2 DEF Goto, Moved, IsOn
  <2>9. Moved(checkpoint, checkpoint', j) /\ Moved(dir, dir', j)
    BY <1>2, <1>4, NotMoved
  <2>10. /\ CollectedOK(checkpoint'[j], dir'[j]) /\ GoingOK(checkpoint'[j], pc'[j], dir'[j])
         /\ PublicationOK(objects', pc'[j], dir'[j])
         /\ DOMAIN objects \subseteq DOMAIN objects' /\ \A key \in DOMAIN objects' : ObjectOK(objects', key)
    BY <1>1, <1>2, <1>4, <2>2, <2>4, <2>5, <2>6, <2>7, <2>8
  <2> QED
    BY <1>4, <2>8, <2>9, <2>10, JobStep
<1>9. CASE Readback(j)
  <2>1. p.do = "readback" /\ UNCHANGED objects
    BY <1>1, <1>9 DEF Readback
  <2>2. CASE Goto(j, AtRest)
    BY <1>4, <2>1, <2>2, RestStep, PlainStep
  <2>3. CASE ~Goto(j, AtRest)
    <3>1. p.at # Len(Plan(p.kind)) /\ Goto(j, [p EXCEPT !.do = "head", !.at = @ + 1])
      BY <1>1, <1>9, <2>3 DEF Readback
    <3>2. PICK q : Goto(j, q) /\ Advanced(p, q, object, objects)
      BY <2>1, <3>1 DEF Advanced
    <3> QED
      BY <1>4, <1>6, <2>1, <3>2
  <2> QED
    BY <1>4, <2>2, <2>3
<1> QED
  BY <1>4, <1>5, <1>7, <1>8, <1>9

LEMMA RestoreStep ==
    ASSUME ArchiveInv, NEW j \in Jobs,
           \/ \E kind, prefix : StartRestore(j, kind, prefix)
           \/ Download(j) \/ Install(j) \/ Abort(j)
    PROVE  ArchiveInv' /\ dir' = dir
<1>1. UNCHANGED <<now, checkpoint, dir, objects>>
  BY DEF StartRestore, Download, Install, Abort
<1>2. ASSUME NEW q, Goto(j, q), q = AtRest \/ Downloading(q)
      PROVE  ArchiveInv'
  <2>1. CASE q = AtRest
    BY <1>1, <1>2, <2>1, RestStep, PlainStep
  <2>2. CASE Downloading(q)
    <3>1. StepOK(q) /\ q.do = "download"
      BY <2>2 DEF StepOK, Downloading
    <3>2. GoingOK(checkpoint[j], q, dir[j]) /\ PublicationOK(objects, q, dir[j])
      BY <3>1, QuietStep DEF PublicationOK
    <3> QED
      BY <1>1, <1>2, <3>2, PlainStep
  <2> QED
    BY <1>2, <2>1, <2>2
<1>3. ASSUME NEW kind, NEW prefix, StartRestore(j, kind, prefix)
      PROVE  ArchiveInv'
  <2>1. PICK q, m : /\ m = objects[ObjectKey(prefix, "manifest")]
                    /\ q = [do |-> "download", prefix |-> prefix, m |-> m, at |-> 1, files |-> Nothing]
    OBVIOUS
  <2>2. Downloading(q)
    BY <2>1 DEF Downloading
  <2>3. Goto(j, q)
    BY <1>3, <2>1 DEF StartRestore
  <2> QED
    BY <1>2, <2>2, <2>3
<1>4. CASE Download(j)
  <2>1. PICK p : p = pc[j]
    OBVIOUS
  <2>2. StepOK(p) /\ p.do = "download"
    BY <1>4, <2>1 DEF ArchiveInv, GoingOK, Download
  <2>3. Downloading(p)
    BY <2>2, StepKinds
  <2>4. PICK name, at, files :
            /\ name = Downloads(p.prefix.kind)[p.at] /\ at = p.at + 1
            /\ files = Over([u \in {name} |-> objects[ObjectKey(p.prefix, name)]], p.files)
    OBVIOUS
  <2>5. PICK q : q = [p EXCEPT !.at = at, !.files = files]
    OBVIOUS
  <2>6. q = [[p EXCEPT !["at"] = at] EXCEPT !["files"] = files]
    BY <2>5
  <2>7. Downloading(q)
    BY <2>3, <2>6 DEF Downloading
  <2>8. Goto(j, q) \/ Goto(j, AtRest)
    BY <1>4, <2>1, <2>4, <2>5 DEF Download
  <2> QED
    BY <1>1, <1>2, <2>7, <2>8
<1>5. CASE Install(j) \/ Abort(j)
  <2>1. Goto(j, AtRest)
    BY <1>5 DEF Install, Abort
  <2> QED
    BY <1>1, <1>2, <2>1
<1> QED
  BY <1>1, <1>3, <1>4, <1>5

LEMMA TickStep ==
    ASSUME ArchiveInv, Tick
    PROVE  ArchiveInv' /\ dir' = dir
<1>1. now' \in Nat
  BY TimeAssumption DEF Tick
<1> QED
  BY <1>1 DEF Tick, ArchiveInv

LEMMA ArchiveStep ==
    ASSUME ArchiveInv, ArchiveNext
    PROVE  ArchiveInv' /\ \A k \in Jobs : SealedKept(dir[k], dir'[k])
<1>1. ASSUME dir' = dir
      PROVE  \A k \in Jobs : SealedKept(dir[k], dir'[k])
  BY <1>1 DEF SealedKept
<1>2. CASE Tick
  BY <1>1, <1>2, TickStep
<1>3. ASSUME NEW j \in Jobs, Window(j)
      PROVE  ArchiveInv' /\ dir' = dir
  BY <1>3, WindowStep DEF Window
<1>4. ASSUME NEW j \in Jobs, StartRest(j) \/ StartDeals(j) \/ StartMerge(j)
      PROVE  ArchiveInv' /\ dir' = dir
  BY <1>4, StartStep
<1>5. ASSUME NEW j \in Jobs,
             \/ \E kind \in {"source", "research"} : StartPublish(j, kind)
             \/ HeadObject(j) \/ PutObject(j) \/ Readback(j)
      PROVE  ArchiveInv' /\ dir' = dir
  BY <1>5, PublishStep
<1>6. ASSUME NEW j \in Jobs,
             \/ \E kind, prefix : StartRestore(j, kind, prefix)
             \/ Download(j) \/ Install(j) \/ Abort(j)
      PROVE  ArchiveInv' /\ dir' = dir
  BY <1>6, RestoreStep
<1>7. ASSUME NEW j \in Jobs, LockTimeframe(j) \/ WriteFile(j) \/ Seal(j)
      PROVE  ArchiveInv' /\ \A k \in Jobs : SealedKept(dir[k], dir'[k])
  BY <1>7, LockStep, WriteStep, SealStep
<1> QED
  BY <1>1, <1>2, <1>3, <1>4, <1>5, <1>6, <1>7 DEF ArchiveNext

(* The inductive invariant holds of every state of the specification.      *)
THEOREM ArchiveInvariance == ArchiveSpec => []ArchiveInv
<1>1. ArchiveInv /\ UNCHANGED archiveVars => ArchiveInv'
  BY DEF ArchiveInv, archiveVars
<1>2. ArchiveInv /\ [ArchiveNext]_archiveVars => ArchiveInv'
  BY <1>1, ArchiveStep
<1> QED
  BY <1>2, ArchiveStarts, PTL DEF ArchiveSpec

(* A manifest is put after every object it names, under a prefix that      *)
(* binds their content, so no interleaving of jobs, and no crash between   *)
(* two puts, shows a manifest without its files or with others             *)
(* (research_object_store.py:468-498).                                     *)
THEOREM CommitIsLast == ArchiveSpec => []CommittedIsComplete
<1>1. ArchiveInv => CommittedIsComplete
  <2> SUFFICES ASSUME ArchiveInv, NEW key \in DOMAIN objects, key[2] = "manifest",
                      NEW name \in Range(Downloads(key[1].kind))
               PROVE  /\ ObjectKey(key[1], name) \in DOMAIN objects
                      /\ objects[ObjectKey(key[1], name)] = Bytes(objects[key], name)
    BY DEF CommittedIsComplete
  <2>1. name \in Named(key[1].kind)
    BY DownloadsAreNamed
  <2>2. PICK object : object = ObjectKey(key[1], name)
    OBVIOUS
  <2>3. object[1] = key[1] /\ object[2] = name
    BY <2>2 DEF ObjectKey
  <2>4. object \in DOMAIN objects /\ objects[key].content = ContentUnder(key[1])
    BY <2>1, <2>2 DEF ArchiveInv, ObjectOK
  <2>5. ObjectOK(objects, object)
    BY <2>4 DEF ArchiveInv
  <2>6. CASE name \in TFs
    <3>1. Bytes(objects[key], name) = objects[key].content[name]
      <4>1. name # "manifest" /\ name # "checksums"
        BY <2>6, NameAssumption DEF TFs
      <4> QED
        BY <4>1 DEF Bytes
    <3>2. objects[object] = ContentUnder(key[1])[name]
      BY <2>3, <2>5, <2>6 DEF ObjectOK
    <3> QED
      BY <2>2, <2>4, <3>1, <3>2
  <2>7. CASE name = "checksums"
    <3>1. Bytes(objects[key], name) = objects[key].content
      BY <2>7 DEF Bytes
    <3>2. objects[object] = ContentUnder(key[1])
      BY <2>3, <2>5, <2>7 DEF ObjectOK
    <3> QED
      BY <2>2, <2>4, <3>1, <3>2
  <2> QED
    BY <2>1, <2>6, <2>7 DEF Named
<1> QED
  BY <1>1, ArchiveInvariance, PTL

(* A repeated collection follows the chain of requests its checkpoints     *)
(* already answer, so what it writes over a sealed file is what the        *)
(* manifest names; the deals and the merge never touch a sealed directory  *)
(* (historical_backfill.py:451-513).                                       *)
THEOREM SealsAreKept == ArchiveSpec => SealedStays
<1> DEFINE Kept == \A j \in Jobs, s \in Shards : dir'[j][s] # dir[j][s] /\ Loads(dir[j][s], s) =>
                      Loads(dir'[j][s], s) /\ dir'[j][s].manifest.content = dir[j][s].manifest.content
<1>1. ArchiveInv /\ [ArchiveNext]_archiveVars => [Kept]_dir
  <2> SUFFICES ASSUME ArchiveInv, ArchiveNext
               PROVE  Kept
    BY DEF archiveVars
  <2>1. ASSUME NEW j \in Jobs, NEW s \in Shards, Loads(dir[j][s], s)
        PROVE  Loads(dir'[j][s], s) /\ dir'[j][s].manifest.content = dir[j][s].manifest.content
    <3>1. SealedKept(dir[j], dir'[j]) /\ Sealed(dir[j], s)
      BY <2>1, ArchiveStep DEF Loads, Sealed
    <3>2. /\ dir'[j][s].manifest # Nothing /\ dir'[j][s].files = dir[j][s].files
          /\ dir'[j][s].manifest.content = dir[j][s].manifest.content
      BY <3>1 DEF SealedKept, Sealed
    <3> QED
      BY <2>1, <3>2 DEF Loads
  <2> QED
    BY <2>1
<1> QED
  BY <1>1, ArchiveInvariance, PTL DEF ArchiveSpec, SealedStays

-----------------------------------------------------------------------------
(* Content.                                                                *)
LEMMA MultipleOfMultiple ==
    ASSUME NEW n, NEW m, NEW a, Multiple(m, n), Multiple(n, a)
    PROVE  Multiple(m, a)
<1>1. n \in Nat \ {0} /\ m \in Nat \ {0} /\ a \in Int
  BY DEF Multiple
<1>2. PICK k \in Int : n = m * k
  BY MultipleIsProduct
<1>3. PICK l \in Int : a = n * l
  BY MultipleIsProduct
<1>4. PICK q : q = k * l
  OBVIOUS
<1>5. q \in Int /\ a = m * q
  BY <1>1, <1>2, <1>3, <1>4
<1> QED
  BY <1>1, <1>5, ProductIsMultiple

LEMMA GreatestIs ==
    ASSUME NEW S \in SUBSET Int, NEW m \in S, \A x \in S : x <= m
    PROVE  Max(S) = m
<1>1. \A z \in S : (\A y \in S : z >= y) => z = m
  OBVIOUS
<1>2. \A y \in S : m >= y
  OBVIOUS
<1> QED
  BY <1>1, <1>2 DEF Max

(* A candle of the deals holds all the buckets of its interval.            *)
LEMMA BucketsFill ==
    ASSUME NEW tf \in TFs
    PROVE  /\ DOMAIN DealsContent[tf] = Slots(tf, Opens, Joins - 1)
           /\ \A t \in Slots(tf, Opens, Joins - 1) : DealsContent[tf][t] = t + Step[tf]
<1>1. PICK n, b, base : /\ n = Step[tf] /\ b = Bucket
                        /\ base = [t \in {s \in Opens .. Joins - 1 : s % Bucket = 0} |-> t + Bucket]
  OBVIOUS
<1>2. /\ n \in Nat \ {0} /\ b \in Nat \ {0} /\ Opens \in Nat /\ Joins \in Nat
      /\ Multiple(n, Opens) /\ Multiple(n, Joins) /\ Multiple(n, n) /\ Multiple(b, n)
  <2>1. Bucket \in Nat \ {0} /\ Step[tf] % Bucket = 0
    BY TimeAssumption, AlignmentAssumption DEF TFs
  <2>2. Step[tf] \in Nat \ {0} /\ Multiple(Bucket, Step[tf])
    BY <2>1, TimeframeFacts DEF Multiple
  <2> QED
    BY <1>1, <2>1, <2>2, TimeframeFacts
<1>3. DealsContent[tf] = Aggregate(base, tf, Opens, Joins)
  BY <1>1 DEF DealsContent
<1>4. ASSUME NEW t \in Slots(tf, Opens, Joins - 1)
      PROVE  Max({base[s] : s \in {u \in DOMAIN base : u \in t .. t + Step[tf] - 1}}) = t + Step[tf]
  <2>1. t \in Nat /\ Opens <= t /\ t < Joins /\ Multiple(n, t)
    <3>1. Joins - 1 \in Int
      BY <1>2
    <3>2. t \in Nat /\ Opens <= t /\ t <= Joins - 1 /\ Multiple(Step[tf], t)
      BY <1>2, <3>1, SlotFacts
    <3> QED
      BY <1>1, <1>2, <3>2
  <2>2. t + n <= Joins /\ Multiple(n, t + n)
    BY <1>2, <2>1, MultipleFacts
  <2>3. PICK e : e = t + n
    OBVIOUS
  <2>4. Multiple(b, t) /\ Multiple(b, e) /\ e \in Nat /\ t < e /\ e <= Joins
    <3>1. Multiple(n, e)
      BY <2>2, <2>3
    <3> QED
      BY <1>2, <2>1, <2>2, <2>3, <3>1, MultipleOfMultiple
  <2>5. t + b <= e /\ Multiple(b, b)
    <3>1. 1 \in Int /\ b = b * 1 /\ b \in Nat \ {0}
      BY <1>2
    <3>2. Multiple(b, b)
      BY <3>1, ProductIsMultiple
    <3> QED
      BY <2>4, <3>2, MultipleFacts
  <2>6. PICK S : S = {base[s] : s \in {u \in DOMAIN base : u \in t .. t + Step[tf] - 1}}
    OBVIOUS
  <2>7. \A u : u \in DOMAIN base <=> u \in Nat /\ Opens <= u /\ u < Joins /\ u % b = 0
    BY <1>1, <1>2
  <2>8. \A u \in DOMAIN base : u \in Nat /\ Multiple(b, u) /\ base[u] = u + b
    BY <1>1, <1>2, <2>7 DEF Multiple
  <2>9. \A x \in S : x \in Int /\ x <= e
    <3>1. ASSUME NEW u \in DOMAIN base, u \in t .. t + Step[tf] - 1
          PROVE  base[u] \in Int /\ base[u] <= e
      <4>0. u \in Nat /\ Multiple(b, u) /\ base[u] = u + b
        BY <2>8
      <4>3. u \in t .. t + n - 1
        BY <1>1, <3>1
      <4>1. u \in Nat /\ Multiple(b, u) /\ base[u] = u + b /\ u < e
        BY <1>2, <2>1, <2>3, <4>0, <4>3
      <4>2. u + b <= e
        BY <2>4, <4>1, MultipleFacts
      <4> QED
        BY <1>2, <4>1, <4>2
    <3> QED
      BY <2>6, <3>1
  <2>10. e \in S
    <3>1. PICK u : u = e - b
      OBVIOUS
    <3>2. u \in Nat /\ t <= u /\ u < e /\ u < Joins /\ Opens <= u
      BY <1>2, <2>1, <2>4, <2>5, <3>1
    <3>3. Multiple(b, e - b)
      BY <2>4, <2>5, MultipleFacts
    <3>4. u % b = 0
      BY <3>1, <3>3 DEF Multiple
    <3>5. u \in DOMAIN base /\ base[u] = e
      BY <1>2, <2>4, <2>7, <2>8, <3>1, <3>2, <3>4
    <3>6. u \in t .. t + Step[tf] - 1
      BY <1>1, <1>2, <2>1, <2>3, <3>2
    <3> QED
      BY <2>6, <3>5, <3>6
  <2>11. Max(S) = e
    BY <2>9, <2>10, GreatestIs
  <2> QED
    BY <1>1, <2>3, <2>6, <2>11
<1>5. /\ DOMAIN DealsContent[tf] = Slots(tf, Opens, Joins - 1)
      /\ \A t \in Slots(tf, Opens, Joins - 1) :
            DealsContent[tf][t] = Max({base[s] : s \in {u \in DOMAIN base : u \in t .. t + Step[tf] - 1}})
  BY <1>3 DEF Aggregate
<1> QED
  BY <1>4, <1>5

(* A candle answered after the range has ended holds all its trades.       *)
LEMMA MergedFills ==
    ASSUME NEW cp, CheckpointOK(cp), NEW tf \in TFs,
           \A c \in Slots(tf, Joins, LastCandle(tf)) :
               cp[Request(tf, c)] # Nothing => cp[Request(tf, c)].retrieved_at >= Ends
    PROVE  /\ DOMAIN MergedIn(cp, tf, Ends) \subseteq Slots(tf, Joins, LastCandle(tf))
           /\ \A t \in DOMAIN MergedIn(cp, tf, Ends) : MergedIn(cp, tf, Ends)[t] = t + Step[tf]
<1> DEFINE A == Answered(cp, tf)
           P(c) == cp[Request(tf, c)].rows
<1>1. /\ DOMAIN MergedIn(cp, tf, Ends) = UNION {DOMAIN P(c) : c \in A}
      /\ \A t \in UNION {DOMAIN P(c) : c \in A} :
            MergedIn(cp, tf, Ends)[t] = P(Max({c \in A : t \in DOMAIN P(c)}))[t]
  BY DEF MergedIn, Answered
<1>2. /\ Step[tf] \in Nat \ {0} /\ LastCandle(tf) \in Nat /\ LastCandle(tf) + Step[tf] = Ends
      /\ Ends \in Nat /\ Joins \in Nat
  BY TimeframeFacts
<1>3. ASSUME NEW c \in A, NEW t \in DOMAIN P(c)
      PROVE  t \in Slots(tf, Joins, LastCandle(tf)) /\ P(c)[t] = t + Step[tf]
  <2>1. c \in Slots(tf, Joins, LastCandle(tf)) /\ cp[Request(tf, c)] # Nothing
    BY AnsweredFacts
  <2>2. PICK got, rows : got = cp[Request(tf, c)] /\ rows = P(c)
    OBVIOUS
  <2>3. AnswerOK(tf, c, got) /\ got.retrieved_at >= Ends /\ got.rows = rows
    BY <2>1, <2>2 DEF CheckpointOK
  <2>4. /\ got.retrieved_at \in Nat /\ t \in Slots(tf, c, WindowEnd(tf, c))
        /\ rows[t] = Min({got.retrieved_at, t + Step[tf]})
    BY <2>2, <2>3 DEF AnswerOK
  <2>5. /\ c \in Nat /\ Joins <= c /\ WindowEnd(tf, c) \in Nat /\ WindowEnd(tf, c) <= LastCandle(tf)
    BY <2>1, WindowFacts
  <2>6. t \in Nat /\ c <= t /\ t <= WindowEnd(tf, c) /\ Multiple(Step[tf], t)
    <3>1. WindowEnd(tf, c) \in Int
      BY <2>5
    <3> QED
      BY <2>4, <2>5, <3>1, SlotFacts
  <2>7. Joins <= t /\ t <= LastCandle(tf) /\ t + Step[tf] \in Nat /\ t + Step[tf] <= Ends
    BY <1>2, <2>5, <2>6
  <2>8. t \in Slots(tf, Joins, LastCandle(tf))
    <3>1. LastCandle(tf) \in Int
      BY <1>2
    <3> QED
      BY <1>2, <2>6, <2>7, <3>1, SlotFacts
  <2>9. PICK x, y : x = got.retrieved_at /\ y = t + Step[tf]
    OBVIOUS
  <2>10. x \in Int /\ y \in Int /\ y <= x
    BY <1>2, <2>3, <2>4, <2>7, <2>9
  <2>11. Min({x, y}) = y
    BY <2>10, LeastOfTwo
  <2> QED
    BY <2>2, <2>4, <2>8, <2>9, <2>11
<1>4. ASSUME NEW t \in UNION {DOMAIN P(c) : c \in A}
      PROVE  P(Max({c \in A : t \in DOMAIN P(c)}))[t] = t + Step[tf]
  <2>1. PICK M : M = {c \in A : t \in DOMAIN P(c)}
    OBVIOUS
  <2>2. M # {} /\ M \in SUBSET Nat /\ \A x \in M : x <= LastCandle(tf)
    BY <2>1, AnsweredFacts, WindowFacts
  <2>3. Max(M) \in M
    BY <1>2, <2>2, GreatestOfBounded
  <2> QED
    BY <1>3, <2>1, <2>3
<1> QED
  BY <1>1, <1>3, <1>4

(* Rows that cover a range without a gap have every candle of it.          *)
LEMMA CoveredIsFull ==
    ASSUME NEW tf \in TFs, NEW rows, Valid(tf, rows), Covers(tf, rows, Opens, Ends),
           DOMAIN rows \subseteq Slots(tf, Opens, LastCandle(tf)), DOMAIN rows # {}
    PROVE  DOMAIN rows = Slots(tf, Opens, LastCandle(tf))
<1>1. PICK n, last, D : n = Step[tf] /\ last = LastCandle(tf) /\ D = DOMAIN rows
  OBVIOUS
<1>2. /\ n \in Nat \ {0} /\ last \in Nat /\ last + n = Ends /\ Opens \in Nat
      /\ Multiple(n, Opens) /\ Multiple(n, n)
  BY <1>1, TimeframeFacts
<1>3. \A t : t \in Slots(tf, Opens, LastCandle(tf))
                <=> t \in Nat /\ Opens <= t /\ t <= last /\ Multiple(n, t)
  <2>1. last \in Int
    BY <1>2
  <2> QED
    BY <1>1, <1>2, <2>1, SlotFacts
<1>4. /\ Max(D) \in D /\ Min(D) \in D
  <2>1. D \in SUBSET Nat /\ D # {} /\ last \in Nat /\ \A x \in D : x <= last
    BY <1>1, <1>2, <1>3
  <2> QED
    BY <2>1, GreatestOfBounded
<1>5. Opens \in D /\ Max(D) = last
  <2>1. Min(D) = Opens /\ Max(D) = Ends - n
    BY <1>1 DEF Covers
  <2>2. Ends - n = last
    BY <1>2
  <2> QED
    BY <1>4, <2>1, <2>2
<1>6. ASSUME NEW s \in Slots(tf, Opens, LastCandle(tf)) \ D
      PROVE  FALSE
  <2>1. PICK T : T = Slots(tf, Opens, LastCandle(tf)) \ D
    OBVIOUS
  <2>2. T \in SUBSET Nat /\ T # {}
    BY <1>3, <2>1
  <2>3. PICK f \in T : \A y \in T : f <= y
    BY <2>2, LeastMember
  <2>4. f \in Nat /\ Opens < f /\ f <= last /\ Multiple(n, f) /\ f \notin D
    <3>1. f \in Nat /\ Opens <= f /\ f <= last /\ Multiple(n, f) /\ f \notin D
      BY <1>3, <2>1, <2>3
    <3> QED
      BY <1>2, <1>5, <3>1
  <2>5. Opens + n <= f /\ Multiple(n, f - n)
    BY <1>2, <2>4, MultipleFacts
  <2>6. PICK e : e = f - n
    OBVIOUS
  <2>7. e \in Nat /\ Opens <= e /\ e < f /\ e < last /\ e + n = f /\ Multiple(n, e)
    BY <1>2, <2>4, <2>5, <2>6
  <2>8. e \in D
    <3>1. e \in Slots(tf, Opens, LastCandle(tf))
      BY <1>2, <1>3, <2>7
    <3>2. e \notin T
      BY <2>3, <2>4, <2>7
    <3> QED
      BY <2>1, <3>1, <3>2
  <2>9. e = Max(D) \/ e + n \in D
    BY <1>1, <2>8 DEF Valid
  <2> QED
    BY <1>2, <1>5, <2>4, <2>7, <2>9
<1> QED
  BY <1>1, <1>6

(* The merge of a deals shard and of a REST shard asked for after the      *)
(* range: what the two wrote is the history, and the check of the merged   *)
(* rows leaves no gap (locked_dataset_merge.py:180-205).                   *)
THEOREM MergeIsHistory == ArchiveSpec => []SealedAfterEndIsHistory
<1>1. ArchiveInv => SealedAfterEndIsHistory
  <2> SUFFICES ASSUME ArchiveInv, NEW j \in Jobs, dir[j]["lock"].manifest # Nothing,
                      \A r \in Requests : checkpoint[j][r] # Nothing => checkpoint[j][r].retrieved_at >= Ends
               PROVE  dir[j]["lock"].manifest.content = History
    BY DEF SealedAfterEndIsHistory
  <2>1. PICK cp, d : cp = checkpoint[j] /\ d = dir[j]
    OBVIOUS
  <2>2. CollectedOK(cp, d) /\ Sealed(d, "lock")
    BY <2>1 DEF ArchiveInv, Sealed
  <2>3. /\ \A tf \in TFs : Written(d, "lock", tf)
        /\ d["lock"].manifest.content = d["lock"].files
        /\ Sealed(d, "deals") /\ Sealed(d, "rest")
    BY <2>2 DEF CollectedOK, SealOK, Mergeable
  <2>4. \A tf \in TFs : Written(d, "deals", tf)
    BY <2>2, <2>3 DEF CollectedOK, SealOK
  <2>5. \A tf \in TFs : d["rest"].files[tf] = MergedIn(cp, tf, Ends)
    BY <2>2, <2>3 DEF CollectedOK, RestSealOK, RestFileOK, Sealed
  <2>6. IsOn(d["lock"].files, TFs)
    BY <2>2 DEF CollectedOK, DirectoryOK, Shards
  <2>7. ASSUME NEW tf \in TFs
        PROVE  d["lock"].files[tf] = [t \in Slots(tf, Opens, Ends - 1) |-> t + Step[tf]]
    <3>1. PICK rows, old, new :
              /\ rows = d["lock"].files[tf] /\ old = DealsContent[tf] /\ new = MergedIn(cp, tf, Ends)
      OBVIOUS
    <3>2. rows = Over(old, new)
      BY <2>3, <2>4, <2>5, <3>1 DEF Written, ContentIn
    <3>3. Valid(tf, rows) /\ Covers(tf, rows, Opens, Ends)
      BY <2>3, <3>1 DEF Written, Span
    <3>4. DOMAIN old = Slots(tf, Opens, Joins - 1) /\ \A t \in DOMAIN old : old[t] = t + Step[tf]
      BY <3>1, BucketsFill
    <3>5. /\ DOMAIN new \subseteq Slots(tf, Joins, LastCandle(tf))
          /\ \A t \in DOMAIN new : new[t] = t + Step[tf]
      <4>1. \A c \in Slots(tf, Joins, LastCandle(tf)) :
                cp[Request(tf, c)] # Nothing => cp[Request(tf, c)].retrieved_at >= Ends
        BY <2>1 DEF Requests
      <4> QED
        BY <2>2, <3>1, <4>1, MergedFills DEF CollectedOK
    <3>6. /\ DOMAIN rows = DOMAIN old \cup DOMAIN new
          /\ \A t \in DOMAIN rows : rows[t] = t + Step[tf]
          /\ rows = [t \in DOMAIN rows |-> rows[t]]
      BY <3>2, <3>4, <3>5 DEF Over
    <3>7. /\ LastCandle(tf) \in Nat /\ Joins \in Nat /\ Opens \in Nat /\ Opens < Joins /\ Joins <= LastCandle(tf)
          /\ LastCandle(tf) + Step[tf] = Ends /\ Step[tf] \in Nat \ {0} /\ Multiple(Step[tf], LastCandle(tf))
          /\ Multiple(Step[tf], Opens) /\ Ends \in Nat
      BY TimeframeFacts
    <3>8. ASSUME NEW from \in Nat, NEW to \in Int, Opens <= from, to <= LastCandle(tf)
          PROVE  Slots(tf, from, to) \subseteq Slots(tf, Opens, LastCandle(tf))
      <4>1. LastCandle(tf) \in Int
        BY <3>7
      <4>2. ASSUME NEW t \in Slots(tf, from, to)
            PROVE  t \in Slots(tf, Opens, LastCandle(tf))
        <5>1. t \in Nat /\ from <= t /\ t <= to /\ Multiple(Step[tf], t)
          BY SlotFacts
        <5>2. Opens <= t /\ t <= LastCandle(tf)
          BY <3>7, <3>8, <5>1
        <5> QED
          BY <3>7, <4>1, <5>1, <5>2, SlotFacts
      <4> QED
        BY <4>2
    <3>9. DOMAIN rows \subseteq Slots(tf, Opens, LastCandle(tf))
      <4>1. Slots(tf, Opens, Joins - 1) \subseteq Slots(tf, Opens, LastCandle(tf))
        <5>1. PICK to : to = Joins - 1
          OBVIOUS
        <5>2. to \in Int /\ to <= LastCandle(tf) /\ Opens \in Nat /\ Opens <= Opens
          BY <3>7, <5>1
        <5>3. Slots(tf, Opens, to) \subseteq Slots(tf, Opens, LastCandle(tf))
          BY <3>8, <5>2
        <5> QED
          BY <5>1, <5>3
      <4>2. Slots(tf, Joins, LastCandle(tf)) \subseteq Slots(tf, Opens, LastCandle(tf))
        <5>1. LastCandle(tf) \in Int /\ LastCandle(tf) <= LastCandle(tf) /\ Opens <= Joins
          BY <3>7
        <5> QED
          BY <3>7, <3>8, <5>1
      <4> QED
        BY <3>4, <3>5, <3>6, <4>1, <4>2
    <3>10. DOMAIN rows # {}
      <4>1. Opens <= Joins - 1 /\ Joins - 1 \in Int
        BY <3>7
      <4>2. Opens \in Slots(tf, Opens, Joins - 1)
        BY <3>7, <4>1, SlotFacts
      <4> QED
        BY <3>4, <3>6, <4>2
    <3>11. DOMAIN rows = Slots(tf, Opens, LastCandle(tf))
      BY <3>3, <3>9, <3>10, CoveredIsFull
    <3>12. Slots(tf, Opens, LastCandle(tf)) = Slots(tf, Opens, Ends - 1)
      <4>1. ASSUME NEW t, t \in Nat, Multiple(Step[tf], t)
            PROVE  t <= LastCandle(tf) <=> t <= Ends - 1
        <5>1. PICK last : last = LastCandle(tf)
          OBVIOUS
        <5>2. last < t => last + Step[tf] <= t
          BY <3>7, <4>1, <5>1, MultipleFacts
        <5> QED
          BY <3>7, <4>1, <5>1, <5>2
      <4>2. LastCandle(tf) \in Int /\ Ends - 1 \in Int
        BY <3>7
      <4>3. ASSUME NEW t
            PROVE  t \in Slots(tf, Opens, LastCandle(tf)) <=> t \in Slots(tf, Opens, Ends - 1)
        <5>1. t \in Slots(tf, Opens, LastCandle(tf))
                 <=> t \in Nat /\ Opens <= t /\ t <= LastCandle(tf) /\ Multiple(Step[tf], t)
          BY <3>7, <4>2, SlotFacts
        <5>2. t \in Slots(tf, Opens, Ends - 1)
                 <=> t \in Nat /\ Opens <= t /\ t <= Ends - 1 /\ Multiple(Step[tf], t)
          BY <3>7, <4>2, SlotFacts
        <5> QED
          BY <4>1, <5>1, <5>2
      <4> QED
        BY <4>3
    <3> QED
      BY <3>1, <3>6, <3>11, <3>12
  <2>8. d["lock"].files = History
    BY <2>6, <2>7 DEF History, IsOn
  <2> QED
    BY <2>1, <2>3, <2>8
<1> QED
  BY <1>1, ArchiveInvariance, PTL
=============================================================================
