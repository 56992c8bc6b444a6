---------------------------- MODULE Opportunities ----------------------------
(* From a strategy signal to a position: the gates of the opportunity pipeline,
   the selection a caller makes from its result, and the cycle that submits,
   fills and closes (src/app/application/opportunity_pipeline.py,
   src/app/risk/, src/app/portfolio/).  Every candidate is assessed alone,
   against the positions and pending orders of that moment; nothing is
   assessed again when an order is submitted.                                *)
EXTENDS Strategy

CONSTANTS Symbols,
          Markets,         \* what may be seen of a symbol: sets of four snapshots
          Held,            \* symbols the context gate may hold back
          Leverage, Crypto, Storm,
          Correlation,     \* percent, of two symbols
          Equity0, EquityBound,
          MaxTrade, MaxAggregate, MaxCorrelated, MaxFutures, MaxStormLoss,   \* RiskPolicy, in percent
          TopN

(* A leverage is a whole number here.  The code asks for a positive one: an
   order of one below 1 would risk more than it is assessed for.             *)
ASSUME NumberAssumption ==
    /\ None \notin Int
    /\ Leverage \in [Symbols -> Nat \ {0}]
    /\ {Equity0, MaxTrade, MaxAggregate, MaxStormLoss} \subseteq Nat
(* The levels a signal is made from are prices, or missing.                  *)
ASSUME MarketAssumption ==
    \A s \in Symbols : \A m \in Markets[s] :
        {m.m15.ind.ema20, m.h1.ind.ema20, m.h4.ind.atr14,
         m.h4.advanced.support, m.h4.advanced.resistance,
         m.h4.structure.support, m.h4.structure.resistance} \subseteq Nat \cup {None}

VARIABLES
    equity,      \* Account.equity
    positions,   \* open positions, records of orders
    pending,     \* accepted limit orders
    known,       \* ids of the orders table
    result,      \* the last OpportunityPipelineResult a caller can see, or None
    queue,       \* ExplicitPaperSelectionQueue
    drained,     \* selected orders the running cycle has yet to submit
    phase,       \* the step the running cycle is at, "idle" between cycles
    submissions, \* orders submitted since result was computed, as a Boolean
    careless,    \* a selection was made that later ones did not see
    basis        \* the equity the last selection was assessed at

vars == <<equity, positions, pending, known, result, queue, drained, phase, submissions, careless, basis>>

-----------------------------------------------------------------------------
(* The order id of a signal is a hash of its symbol, side and levels.        *)
Id(s, signal) == <<s, signal.entry, signal.stop>>

Risk(o) == o.quantity * Distance(o.entry, o.stop)      \* position_open_risk

Sum(S, f(_)) == SumFunction([o \in S |-> f(o)])

OpenRisk == Sum(positions, Risk)
ReservedRisk == Sum(pending, Risk)                     \* reserve_pending_order_risk

CommittedOpenOnly == OpenRisk
Committed == OpenRisk + ReservedRisk

Positive(n) == IF n > 0 THEN n ELSE 0

(* Risk of the open positions that move with s, in hundredths.               *)
CorrelatedRisk(s) ==
    LET share(o) == Risk(o) * Positive(IF o.symbol = s THEN 100 ELSE Correlation[s, o.symbol])
    IN Sum(positions, share)

(* Collateral of the leveraged positions; it is shared out over the leverage. *)
FuturesCapital ==
    LET collateral(o) == (o.quantity * o.entry) \div o.leverage
    IN Sum({o \in positions : o.leverage > 1}, collateral)

-----------------------------------------------------------------------------
(* Sizing: the smaller of the budget of a trade and what the aggregate budget
   has left, all in hundredths, over the risk the engine counts for one unit. *)
Available == Positive(MaxAggregate * equity - 100 * Committed)

Budget == IF MaxTrade * equity < Available THEN MaxTrade * equity ELSE Available

UnitRisk(s, signal) == Distance(signal.entry, signal.stop) * Leverage[s]

Quantity(s, signal) == Budget \div (100 * UnitRisk(s, signal))

NewRisk(s, signal) == Quantity(s, signal) * UnitRisk(s, signal)

TotalAmount(s, signal) == Quantity(s, signal) * signal.entry

ExceedsAggregate(new)     == 100 * (Committed + new) > MaxAggregate * equity
ExceedsCorrelated(s, new) == CorrelatedRisk(s) + 100 * new > MaxCorrelated * equity
ExceedsFutures(capital)   == 100 * (FuturesCapital + capital) > MaxFutures * equity
ExceedsStorm(s, signal)   ==
    100 * Distance(signal.entry, signal.stop) * Leverage[s] > MaxStormLoss * signal.entry

RiskReasons(s, signal) ==
    IF Available = 0 THEN {"aggregate exhausted"}
    ELSE {r \in {"quantity", "storm", "futures", "trade", "aggregate", "correlated"} :
             \/ r = "quantity" /\ Quantity(s, signal) = 0
             \/ r = "storm" /\ s \in Storm /\ ExceedsStorm(s, signal)
             \/ r = "futures" /\ s \in Crypto /\ Leverage[s] > 1 /\ ExceedsFutures(TotalAmount(s, signal))
             \/ r = "trade" /\ 100 * NewRisk(s, signal) > MaxTrade * equity
             \/ r = "aggregate" /\ ExceedsAggregate(NewRisk(s, signal))
             \/ r = "correlated" /\ ExceedsCorrelated(s, NewRisk(s, signal))}

PortfolioReasons(s, signal) ==
    {r \in {"aggregate", "correlated", "futures"} :
        \/ r = "aggregate" /\ ExceedsAggregate(NewRisk(s, signal))
        \/ r = "correlated" /\ ExceedsCorrelated(s, NewRisk(s, signal))
        \/ r = "futures" /\ ExceedsFutures(IF Leverage[s] > 1 THEN TotalAmount(s, signal) ELSE 0)}

-----------------------------------------------------------------------------
(* The gates in their order; hold is the verdict of the context gate.        *)
Refused(stage, reasons) == [stage |-> stage, reasons |-> reasons]

Gate(s, signal, hold) ==
    CASE signal.state # "READY" -> Refused("STRATEGY", signal.reasons)
      [] signal.state = "READY" /\ s \in hold -> Refused("CONTEXT", {})
      [] OTHER ->
           LET risk == RiskReasons(s, signal)
               portfolio == PortfolioReasons(s, signal)
           IN CASE risk # {}                     -> Refused("RISK", risk)
                [] risk = {} /\ portfolio # {}   -> Refused("PORTFOLIO", portfolio)
                [] OTHER                         -> Refused("COMPLETE", {})

Order(s, signal) ==
    [id |-> Id(s, signal), symbol |-> s, entry |-> signal.entry, stop |-> signal.stop,
     target |-> signal.target, quantity |-> Quantity(s, signal), leverage |-> Leverage[s]]

(* seen gives the signal of each symbol; the best TopN of the candidates that
   pass every gate are offered, by score, confidence and then ratio.         *)
Better(a, b) ==
    \/ a.score > b.score
    \/ a.score = b.score /\ a.confidence > b.confidence
    \/ a.score = b.score /\ a.confidence = b.confidence /\ a.rr > b.rr

Offered(seen, passed) ==
    {s \in passed : Cardinality({t \in passed : Better(seen[t], seen[s])}) < TopN}

Assess(seen, hold) ==
    LET gates  == [s \in Symbols |-> Gate(s, seen[s], hold)]
        passed == {s \in Symbols : gates[s].stage = "COMPLETE"}
    IN [orders   |-> {Order(s, seen[s]) : s \in Offered(seen, passed)},
        refused  |-> {gates[s] : s \in Symbols \ passed},
        equity   |-> equity]

-----------------------------------------------------------------------------
Init ==
    /\ equity = Equity0
    /\ positions = {} /\ pending = {} /\ known = {}
    /\ result = None /\ queue = <<>> /\ drained = <<>>
    /\ phase = "idle"
    /\ submissions = FALSE /\ careless = FALSE /\ basis = Equity0

(* A market whose candles cannot be loaded gives no signal: the snapshot
   loader's error is caught and the symbol refused.                          *)
Signals == [s \in Symbols |-> {Signal(m) : m \in Markets[s]} \cup {NoTrade("data")}]

Views == {seen \in [Symbols -> UNION {Signals[s] : s \in Symbols}] : \A s \in Symbols : seen[s] \in Signals[s]}

Evaluate ==
    /\ \E seen \in Views, hold \in SUBSET Held : result' = Assess(seen, hold)
    /\ submissions' = FALSE

(* The API evaluates for a client while no cycle runs.                       *)
EvaluateForClient ==
    /\ phase = "idle"
    /\ Evaluate
    /\ UNCHANGED <<equity, positions, pending, known, queue, drained, phase, careless, basis>>

(* A caller prepares orders of the result it sees and replaces the queue.    *)
Select ==
    /\ result # None
    /\ \E chosen \in {<<a>> : a \in result.orders} \cup {<<a, b>> : a, b \in result.orders} :
          /\ Len(chosen) = 2 => chosen[1] # chosen[2]
          /\ queue' = chosen
          /\ careless' = (careless \/ Len(chosen) > 1 \/ submissions \/ drained # <<>>)
    /\ basis' = result.equity
    /\ UNCHANGED <<equity, positions, pending, known, result, drained, phase, submissions>>

-----------------------------------------------------------------------------
(* A cycle: exits, pending orders, the pipeline, the selected orders.        *)
ProfitAt(o, price) ==
    o.quantity * (IF o.stop < o.entry THEN price - o.entry ELSE o.entry - price)

ManageExits ==
    /\ phase = "idle"
    /\ \E closed \in SUBSET positions :
          \E exit \in [closed -> {"stop", "target"}] :
             LET profit(o) == ProfitAt(o, IF exit[o] = "stop" THEN o.stop ELSE o.target)
             IN /\ equity' = equity + Sum(closed, profit)
                /\ equity' \in 1..EquityBound
                /\ positions' = positions \ closed
    /\ phase' = "pending"
    /\ UNCHANGED <<pending, known, result, queue, drained, submissions, careless, basis>>

(* A limit order is filled at its own price, whatever the market's.          *)
FillAtMarket(o, market) == IF market = "limit" THEN o ELSE [o EXCEPT !.entry = 2 * o.stop - o.entry]
Fill(o, market) == o

CheckPending ==
    /\ phase = "pending"
    /\ \E filled \in SUBSET pending : \E rejected \in SUBSET pending :
          /\ filled \cap rejected = {}
          /\ \E market \in {"limit", "stop"} :
                positions' = positions \cup {Fill(o, market) : o \in filled}
          /\ pending' = pending \ (filled \cup rejected)
    /\ phase' = "evaluate"
    /\ UNCHANGED <<equity, known, result, queue, drained, submissions, careless, basis>>

EvaluateInCycle ==
    /\ phase = "evaluate"
    /\ Evaluate
    /\ phase' = "submit"
    /\ UNCHANGED <<equity, positions, pending, known, queue, drained, careless, basis>>

Drain ==
    /\ phase = "submit"
    /\ queue # <<>> /\ drained = <<>>
    /\ drained' = queue /\ queue' = <<>>
    /\ phase' = "submitting"
    /\ UNCHANGED <<equity, positions, pending, known, result, submissions, careless, basis>>

(* A limit order is filled, rests or, without a price, is rejected.          *)
Submit ==
    /\ phase = "submitting"
    /\ drained # <<>> /\ Head(drained).id \notin known
    /\ \E outcome \in {"filled", "rests", "rejected"} :
          /\ \E market \in {"limit", "stop"} :
                positions' = IF outcome = "filled" THEN positions \cup {Fill(Head(drained), market)} ELSE positions
          /\ pending' = IF outcome = "rests" THEN pending \cup {Head(drained)} ELSE pending
    /\ known' = known \cup {Head(drained).id}
    /\ drained' = Tail(drained)
    /\ submissions' = TRUE
    /\ UNCHANGED <<equity, result, queue, phase, careless, basis>>

(* The id of the order is that of an earlier one, prepared at another moment:
   the submission raises, and the orders behind it in the drained list are
   lost with the cycle.                                                      *)
Conflict ==
    /\ phase = "submitting"
    /\ drained # <<>> /\ Head(drained).id \in known
    /\ drained' = <<>>
    /\ phase' = "idle"
    /\ UNCHANGED <<equity, positions, pending, known, result, queue, submissions, careless, basis>>

EndCycle ==
    /\ \/ phase = "submit" /\ queue = <<>>
       \/ phase = "submitting" /\ drained = <<>>
    /\ phase' = "idle"
    /\ UNCHANGED <<equity, positions, pending, known, result, queue, drained, submissions, careless, basis>>

(* The queue and the result live in memory.                                  *)
Restart ==
    /\ phase' = "idle"
    /\ queue' = <<>> /\ drained' = <<>> /\ result' = None
    /\ submissions' = FALSE
    /\ UNCHANGED <<equity, positions, pending, known, careless, basis>>

Next ==
    \/ EvaluateForClient \/ Select
    \/ ManageExits \/ CheckPending \/ EvaluateInCycle \/ Drain \/ Submit \/ Conflict \/ EndCycle
    \/ Restart

Spec == Init /\ [][Next]_vars

-----------------------------------------------------------------------------
(* The pipeline's aggregate limit (README.md:253) holds of the positions and
   resting orders together, against the equity the last order was assessed at,
   as long as a caller selects one candidate at a time, from a result computed
   after everything selected before was submitted.  Two candidates of one
   result, or a result that a cycle computed before it submitted the last
   selection, break it: nothing assesses an order again when it is submitted. *)
WithinAggregate == careless \/ 100 * Committed <= MaxAggregate * basis

(* The loss at the stop of a position on the Storm venue stays within its share
   of the position's amount (README.md:254), though the price may be beyond
   the stop at the moment the limit order is filled.                         *)
StormLossBounded ==
    \A o \in positions :
        o.symbol \in Storm => 100 * Distance(o.entry, o.stop) * o.leverage <= MaxStormLoss * o.entry
=============================================================================
