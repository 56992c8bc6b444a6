--------------------------- MODULE Phase48Statistics ---------------------------
(***************************************************************************)
(* The pure functions of phases 48.2 to 48.7: the chronological split and  *)
(* the walk-forward windows, the adverse orders of a path of trades and    *)
(* its drawdown, and the stability verdicts on parameters and regimes.     *)
(***************************************************************************)
EXTENDS Integers, FiniteSets, SequencesExt, FiniteSetsExt

(* The chronological split of n observations: the training part ends at    *)
(* the first index, validation at the second.                              *)
SealSplit(n) ==
    LET train == (6 * n) \div 10
    IN <<train, train + (2 * n) \div 10, n>>

SplitRefused(n) ==
    \/ n < 3
    \/ SealSplit(n)[1] < 1
    \/ SealSplit(n)[2] <= SealSplit(n)[1]
    \/ SealSplit(n)[2] >= n

(* The test parts of the walk-forward windows: adjacent, of one size, the  *)
(* last one ending where the locked split begins.                          *)
TestSize(end, count) ==
    IF end \div (count + 4) > 1 THEN end \div (count + 4) ELSE 1
FirstTrainEnd(end, count) == end - count * TestSize(end, count)
WalkForward(end, count) ==
    LET cut(k) == FirstTrainEnd(end, count) + k * TestSize(end, count)
    IN [k \in 1..count |-> <<cut(k - 1), cut(k)>>]
WindowsRefused(end, count) == end < 10 \/ FirstTrainEnd(end, count) <= 0
-----------------------------------------------------------------------------
(* The adverse orders of a path of trade results.                          *)
Ascending(p) == SortSeq(p, <)
Descending(p) == SortSeq(p, >)
Losses(p) == SelectSeq(p, LAMBDA x : x < 0)
Wins(p) == SelectSeq(p, LAMBDA x : x >= 0)

SamplePath(p, mode) ==
    CASE mode = "REVERSE"      -> Reverse(p)
      [] mode = "WORST_FIRST"  -> Ascending(p)
      [] mode = "LOSS_CLUSTER" -> Ascending(Losses(p)) \o Ascending(Wins(p))
      [] mode = "WIN_CLUSTER"  -> Descending(Wins(p)) \o Descending(Losses(p))

Equity(p, initial, k) == initial + FoldLeft(+, 0, SubSeq(p, 1, k))
Peak(p, initial, k) == Max({Equity(p, initial, j) : j \in 0..k})

(* Is the maximum drawdown of p, relative to its peak, at most that of q?  *)
Drawdowns(p, initial) ==
    {<<Peak(p, initial, k) - Max({Equity(p, initial, k), 0}),
       Peak(p, initial, k)>> : k \in 0..Len(p)}
DrawdownAtMost(p, q, initial) ==
    \A d \in Drawdowns(p, initial) : \E e \in Drawdowns(q, initial) :
        d[1] * e[2] <= e[1] * d[2]
-----------------------------------------------------------------------------
(* One parameter's sweep.  score[k] is the change of the score, in tenths  *)
(* of a percent of the baseline's, at the k-th value above or below it:    *)
(* three quarters of the points lie within half a percent, none is more    *)
(* than 1.5 percent worse, and no two neighbours are one percent apart.    *)
ParameterStable(score) ==
    LET points == DOMAIN score
        all == points \cup {0}
        at(k) == IF k = 0 THEN 0 ELSE score[k]
        next(k) == Min({j \in all : j > k})
    IN /\ 4 * Cardinality({k \in points : score[k] \in -5..5})
              >= 3 * Cardinality(points)
       /\ \A k \in points : score[k] >= -15
       /\ \A k \in all \ {Max(all)} : at(next(k)) - at(k) \in -10..10

(* The slices of the ledgers: of one asset in one market regime, over a    *)
(* span, with a score and the trades it rests on.                          *)
Weight(S) == MapThenSumSet(LAMBDA x : x.count, S)
Total(S) == MapThenSumSet(LAMBDA x : x.score * x.count, S)
Weak(x, S) == 100 * x.score * Weight(S) < 60 * Total(S)
Regimes(S) == {x.regime : x \in S}
InRegime(S, r) == {x \in S : x.regime = r}
Between(S, x, z) == {y \in S : y.series = x.series
                               /\ x.start <= y.start /\ y.start <= z.start}

RegimeRefused(S) ==
    \/ Cardinality(S) < 4 \/ Cardinality(Regimes(S)) < 2 \/ Total(S) <= 0
    \/ \E x, y \in S : x # y /\ x.series = y.series
                       /\ x.start <= y.start /\ y.start < x.end

RegimeRobust(S) ==
    /\ ~RegimeRefused(S)
    /\ \A r \in Regimes(S) :
          LET R == InRegime(S, r)
          IN /\ Cardinality(R) >= 2
             /\ 100 * Total(R) * Weight(S) >= 60 * Total(S) * Weight(R)
    /\ \A r, q \in Regimes(S) :
          LET R == InRegime(S, r)
              Q == InRegime(S, q)
          IN 100 * (Total(R) * Weight(Q) - Total(Q) * Weight(R)) * Weight(S)
                 <= 50 * Total(S) * Weight(R) * Weight(Q)
    /\ 4 * Cardinality({x \in S : ~Weak(x, S)}) >= 3 * Cardinality(S)
    /\ \A x \in S : 2 * x.score * Weight(S) >= Total(S)
    /\ \A x, z \in S : x.series = z.series /\ Cardinality(Between(S, x, z)) = 3
                         => \E y \in Between(S, x, z) : ~Weak(y, S)
=============================================================================
