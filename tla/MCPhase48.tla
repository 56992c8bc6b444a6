------------------------------ MODULE MCPhase48 ------------------------------
(* Two assets that trade and one that waits, a matrix of six experiments on   *)
(* two shards; the rows of an asset change with its data.                     *)
EXTENDS Phase48

CONSTANTS a1, a2, p1

MCAssets == <<a1, a2>>
MCRows == [v \in 0..3 |-> 15 + 6 * v]
MCIdle == {<<a2, 0, 0>>, <<a2, 0, 1>>, <<a1, 2, 1>>, <<a2, 1, 0>>}

(* Bound: summaries kept.  Two matrices of one locked evaluation and a whole  *)
(* chain of phases behind one of them fit.                                    *)
FewSummaries == Cardinality(evidence) <= 7

Paths == UNION {[1..n -> -2..2] : n \in 1..4}
Modes == {"REVERSE", "WORST_FIRST", "LOSS_CLUSTER", "WIN_CLUSTER"}
Count(p, x) == Cardinality({k \in DOMAIN p : p[k] = x})

(* Every sealed split is chronological and leaves windows that end where the  *)
(* locked split starts; an adverse order is a permutation; and the worst      *)
(* first order has the deepest drawdown of them all.                          *)
ASSUME \A n \in 3..60, count \in 1..4 :
    LET split == SealSplit(n)
        w == WalkForward(split[2], count)
    IN ~SplitRefused(n) /\ ~WindowsRefused(split[2], count) =>
          /\ w[count][2] = split[2]
          /\ \A k \in 1..count : 0 < w[k][1] /\ w[k][1] < w[k][2]
          /\ \A k \in 1..(count - 1) : w[k][2] = w[k + 1][1]
ASSUME \A p \in Paths, mode \in Modes :
    /\ \A x \in -2..2 : Count(SamplePath(p, mode), x) = Count(p, x)
    /\ DrawdownAtMost(SamplePath(p, mode), SamplePath(p, "WORST_FIRST"), 5)
ASSUME \A p \in Paths :
    SamplePath(p, "LOSS_CLUSTER") = SamplePath(p, "WORST_FIRST")

(* The verdict on a sweep does not depend on the direction of its axis, nor   *)
(* the verdict on regimes on the unit its trades are counted in.              *)
Changes == {-16, -10, -6, -5, 0, 5, 11}
ASSUME \A score \in [{-2, -1, 1, 2} -> Changes] :
    ParameterStable(score) = ParameterStable([k \in DOMAIN score |-> score[-k]])

Slices(score, unit) ==
    {[series |-> <<k % 2, k \div 4>>, regime |-> k % 2, start |-> 2 * k, end |-> 2 * k + 2,
      score |-> score[k], count |-> unit * (k + 1)] : k \in DOMAIN score}
ASSUME \A score \in [0..7 -> {55, 105}] :
    RegimeRobust(Slices(score, 1)) = RegimeRobust(Slices(score, 3))

(* The gates behind the phases. Two runs in sample and three out of it, with  *)
(* few results each.                                                          *)
Gates == INSTANCE Qualification

MCPolicy == [runs |-> 5, inSample |-> 2, outOfSample |-> 3, trades |-> 4,
             factor |-> 110, degradation |-> 35, drawdown |-> 25]
RunOutcomes == {<<0, 0>>, <<2, -1>>, <<2, 6>>, <<2, 9>>}
RunOf(k, split, outcome, drawdown) ==
    [id |-> k, experiment |-> k, split |-> split, trades |-> outcome[1], expectancy |-> outcome[2],
     profit |-> outcome[1] * (outcome[2] + 1), loss |-> outcome[1], drawdown |-> drawdown]
BatchesOf(first, second) ==
    {{RunOf(1, first, o[1], 0), RunOf(2, second, o[2], 0), RunOf(3, "OOS", o[3], 10),
      RunOf(4, "WALK_FORWARD", o[4], drawdown), RunOf(5, "WALK_FORWARD", o[5], 10)} :
        o \in [1..5 -> RunOutcomes], drawdown \in {10, 30}}

(* What the batch qualifies passes the statistical gate of 48.9 as well, none *)
(* of its few runs falls deeper than the policy allows, and every decision    *)
(* happens; runs out of sample alone, all that the matrix has, never qualify. *)
ASSUME
    /\ \A runs \in BatchesOf("IS", "IS") :
          LET reasons == Gates!StatisticalReasons(Gates!BatchDecision(runs, MCPolicy), Gates!Report(runs), MCPolicy)
          IN /\ (Gates!BatchDecision(runs, MCPolicy) = "QUALIFIED") <=> (reasons = {})
             /\ reasons = {} => \A r \in Gates!OutOfSample(runs) : r.drawdown <= MCPolicy.drawdown
    /\ {Gates!BatchDecision(runs, MCPolicy) : runs \in BatchesOf("IS", "IS")} =
          {"QUALIFIED", "INSUFFICIENT_SAMPLE", "OVERFIT_SUSPECTED", "FAILED_STATISTICAL_QUALIFICATION"}
    /\ \A runs \in BatchesOf("OOS", "WALK_FORWARD") :
          Gates!BatchDecision(runs, MCPolicy) = "INSUFFICIENT_SAMPLE"

(* Stressed costs: dearer ones never turn a failure into a pass; no scenario  *)
(* of a pass loses money or most of the edge; a better one is no stress.      *)
CostOf(id, fee, impact) == [id |-> id, fee |-> fee, funding |-> -1, slippage |-> 1, impact |-> impact]
Tolerance(most) == [fewest |-> 2, most |-> 3, fraction |-> 100, degradation |-> most, edge |-> 0]
ASSUME \A gross \in 1..12, f, g \in 1..6, i, j \in 0..2, most \in {60, 150} :
    LET base == CostOf("BASELINE", 2, 0)
        decision(x) == Gates!CostDecision(gross, base, {CostOf("a", f, i), CostOf("b", x, j)}, Tolerance(most))
    IN /\ decision(g) = "failed" => decision(g + 1) = "failed"
       /\ decision(g) = "passed" =>
             /\ gross >= f + i /\ gross >= g + j
             /\ \A dearer \in {f + i, g + j} : 100 * (dearer - 2) <= most * (gross - 2)
       /\ (f < 2 \/ g < 2 \/ gross <= 2) => decision(g) = "invalid"

(* Of missing phases, failed phases and failed statistics the first decides.  *)
PhaseResults == [phase : {"48.1", "48.2", "48.9"}, passed : BOOLEAN]
ASSUME \A given \in SUBSET PhaseResults, decision \in {"QUALIFIED", "INSUFFICIENT_SAMPLE"} :
    LET rest == {[phase |-> p, passed |-> TRUE] : p \in Gates!RequiredPhases \ {"48.1", "48.2"}}
        good == CHOOSE runs \in BatchesOf("IS", "IS") : Gates!BatchDecision(runs, MCPolicy) = "QUALIFIED"
        final == Gates!FinalDecision(given \cup rest, decision, Gates!Report(good), MCPolicy)
    IN final = "QUALIFIED" <=>
          /\ given = {[phase |-> p, passed |-> TRUE] : p \in {"48.1", "48.2"}}
          /\ decision = "QUALIFIED"
=============================================================================
