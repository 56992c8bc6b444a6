---------------------------- MODULE Qualification ----------------------------
(***************************************************************************)
(* The last gates of a strategy's qualification, as functions of the       *)
(* evidence of the phases: the batch of independent runs, the stress of    *)
(* the costs, and the decision of phase 48.9 (app/backtest/                *)
(* qualification_batch, cost_robustness and final_qualification).          *)
(*                                                                         *)
(* A run's profit is its number of trades times its expectancy, a number;  *)
(* percentages are integers.                                               *)
(***************************************************************************)
EXTENDS Integers, FiniteSets, FiniteSetsExt

RequiredPhases == {"48.1", "48.2", "48.3", "48.4", "48.5", "48.6", "48.7", "48.8"}
Invalid == "invalid"
-----------------------------------------------------------------------------
(* The batch: runs are records with the fields id, experiment, split,      *)
(* trades, expectancy, profit, loss and drawdown.                          *)

SumOf(Field(_), runs) == MapThenSumSet(Field, runs)
OfSplits(runs, splits) == {r \in runs : r.split \in splits}
InSample(runs) == OfSplits(runs, {"IS"})
OutOfSample(runs) == OfSplits(runs, {"OOS", "WALK_FORWARD"})
Traded(runs) == {r \in runs : r.trades > 0}

Trades(runs) == SumOf(LAMBDA r : r.trades, runs)
Profit(runs) == SumOf(LAMBDA r : r.profit, runs)
Loss(runs) == SumOf(LAMBDA r : r.loss, runs)
Net(runs) == SumOf(LAMBDA r : r.trades * r.expectancy, runs)

(* The k-th smallest of the values of the runs.                            *)
Ranked(value, k) ==
    CHOOSE x \in Range(value) :
        /\ Cardinality({r \in DOMAIN value : value[r] < x}) < k
        /\ Cardinality({r \in DOMAIN value : value[r] <= x}) >= k

TwiceMedian(runs) ==
    LET n == Cardinality(runs)
        at(k) == Ranked([r \in runs |-> r.expectancy], k)
    IN IF n % 2 = 1 THEN 2 * at(n \div 2 + 1) ELSE at(n \div 2) + at(n \div 2 + 1)

HighDrawdown(runs) ==
    IF runs = {} THEN 0
    ELSE Ranked([r \in runs |-> r.drawdown], (95 * Cardinality(runs) + 99) \div 100)

(* The lower bound of the 95% interval of the mean expectancy is positive: *)
(* mean > 1.96 * sqrt(variance / n), both sides squared.                   *)
SurelyPositive(runs) ==
    LET n == Cardinality(runs)
        total == SumOf(LAMBDA r : r.expectancy, runs)
        spread == SumOf(LAMBDA r : (n * r.expectancy - total) * (n * r.expectancy - total), runs)
    IN /\ n >= 2
       /\ total > 0
       /\ 10000 * total * total * n * (n - 1) > 38416 * spread

Report(runs) ==
    LET oos == OutOfSample(runs)
    IN [runs |-> Cardinality(runs), inSample |-> Cardinality(InSample(runs)),
        outOfSample |-> Cardinality(oos), trades |-> Trades(oos),
        profit |-> Profit(oos), loss |-> Loss(oos), net |-> Net(oos),
        bounded |-> Cardinality(Traded(oos)) >= 2, surely |-> SurelyPositive(Traded(oos)),
        drawdown |-> HighDrawdown(oos)]

TooFewRuns(report, policy) ==
    \/ report.runs < policy.runs
    \/ report.inSample < policy.inSample
    \/ report.outOfSample < policy.outOfSample

PoorFactor(report, policy) ==
    report.loss <= 0 \/ 100 * report.profit < policy.factor * report.loss

Overfit(runs, policy) ==
    LET before == TwiceMedian(Traded(InSample(runs)))
        after == TwiceMedian(Traded(OutOfSample(runs)))
    IN before > 0 /\ 100 * (before - after) > policy.degradation * before

Repeats(runs) ==
    \E r, q \in runs : r # q /\ (r.id = q.id \/ r.experiment = q.experiment)

BatchDecision(runs, policy) ==
    LET report == Report(runs)
    IN IF Repeats(runs) THEN Invalid
       ELSE IF \/ TooFewRuns(report, policy)
               \/ report.trades < policy.trades
               \/ ~report.bounded
               \/ Traded(InSample(runs)) = {}  THEN "INSUFFICIENT_SAMPLE"
       ELSE IF Overfit(runs, policy) THEN "OVERFIT_SUSPECTED"
       ELSE IF \/ PoorFactor(report, policy)
               \/ report.net <= 0
               \/ ~report.surely
               \/ report.drawdown > policy.drawdown THEN "FAILED_STATISTICAL_QUALIFICATION"
       ELSE "QUALIFIED"
-----------------------------------------------------------------------------
(* 48.8: a strategy's edge under every stressed cost.                      *)

TotalCost(a) == a.fee + a.funding + a.slippage + a.impact
Improves(scenario, baseline) ==
    \/ scenario.fee < baseline.fee
    \/ scenario.funding < baseline.funding
    \/ scenario.slippage < baseline.slippage
    \/ scenario.impact < baseline.impact

(* Both ways of a trade pay, and funding is paid long and received short.  *)
Assumption(model, direction, minutes, impact) ==
    [id |-> "BASELINE", fee |-> 2 * model.commission,
     funding |-> (IF direction = "SHORT" THEN -1 ELSE 1) * model.perMinute * minutes,
     slippage |-> 2 * model.slippage, impact |-> impact]

CostRefused(gross, baseline, scenarios, limits) ==
    \/ gross <= 0 \/ gross <= TotalCost(baseline)
    \/ Cardinality(scenarios) \notin limits.fewest .. limits.most
    \/ \E s, q \in scenarios : s # q /\ s.id = q.id
    \/ \E s \in scenarios : s.id = baseline.id \/ Improves(s, baseline)

Survives(scenario, gross, baseline, limits) ==
    LET edge == gross - TotalCost(baseline)
        left == gross - TotalCost(scenario)
    IN left >= limits.edge /\ 100 * (edge - left) <= limits.degradation * edge

CostDecision(gross, baseline, scenarios, limits) ==
    LET surviving == {s \in scenarios : Survives(s, gross, baseline, limits)}
    IN IF CostRefused(gross, baseline, scenarios, limits) THEN Invalid
       ELSE IF 100 * Cardinality(surviving) >= limits.fraction * Cardinality(scenarios)
            THEN "passed" ELSE "failed"
-----------------------------------------------------------------------------
(* 48.9: the phases' evidence, a record with phase and passed each, and    *)
(* the batch.                                                              *)

StatisticalReasons(decision, report, policy) ==
    {reason \in {"decision", "runs", "trades", "factor", "expectancy", "interval", "drawdown"} :
        \/ reason = "decision" /\ decision # "QUALIFIED"
        \/ reason = "runs" /\ TooFewRuns(report, policy)
        \/ reason = "trades" /\ report.trades < policy.trades
        \/ reason = "factor" /\ PoorFactor(report, policy)
        \/ reason = "expectancy" /\ report.net <= 0
        \/ reason = "interval" /\ ~report.surely
        \/ reason = "drawdown" /\ report.drawdown > policy.drawdown}

FinalDecision(evidence, decision, report, policy) ==
    LET phases == {e.phase : e \in evidence}
    IN IF \/ \E e, f \in evidence : e # f /\ e.phase = f.phase
          \/ ~(phases \subseteq RequiredPhases) THEN Invalid
       ELSE IF phases # RequiredPhases THEN "INCOMPLETE_EVIDENCE"
       ELSE IF \E e \in evidence : ~e.passed THEN "FAILED_PHASE_EVIDENCE"
       ELSE IF StatisticalReasons(decision, report, policy) # {}
            THEN "FAILED_STATISTICAL_QUALIFICATION"
       ELSE "QUALIFIED"
=============================================================================
