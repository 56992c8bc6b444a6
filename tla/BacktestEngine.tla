----------------------------- MODULE BacktestEngine -----------------------------
(***************************************************************************)
(* The bar loop of the backtests: the engine of one symbol, which may hold *)
(* several trades, and the portfolio of several, which holds one of each.  *)
(* A bar opens the trade its symbol decided on, settles what is open,      *)
(* moves the snapshot cursor over the candles that are complete and asks   *)
(* the strategy.  Money is in whole units: a trade's size is a quantity,   *)
(* its risk the quantity times the distance to its stop.  Costs are fixed  *)
(* steps of price and a fraction of the amount.                            *)
(***************************************************************************)
EXTENDS Integers, FiniteSets, SequencesExt, FiniteSetsExt

CONSTANTS
    Symbols,      \* the symbols of the portfolio, in order; the engine has the first
    Configs,      \* the runs: which loop, whether it may go short, its first test
                  \* bar, and the symbols that have each bar
    Shapes,       \* the bars that may come
    Signals,      \* what the strategy may decide
    HourRows,     \* the starts of the longer candles, of two bars, in order
    Initial,      \* initial equity
    Correlation,  \* of two symbols, in percent
    MaxSignals    \* signals of a run (bound)

ASSUME SymbolsAssumption ==
    /\ Symbols \in Seq(ToSet(Symbols)) /\ Symbols # << >>
    /\ \A i, j \in DOMAIN Symbols : Symbols[i] = Symbols[j] => i = j
ASSUME ConfigsAssumption ==
    Configs \subseteq [loop : {"engine", "portfolio"}, short : BOOLEAN, start : Nat,
                       calendar : Seq(SUBSET ToSet(Symbols))]
ASSUME ShapesAssumption ==
    /\ Shapes # {}
    /\ Shapes \subseteq [open : Nat \ {0}, low : Nat, high : Nat, close : Nat]
ASSUME SignalsAssumption ==
    Signals \subseteq [direction : {"LONG", "SHORT"}, stop : Int, target : Int]
(* Candles are sorted by their start.                                      *)
ASSUME HourRowsAssumption ==
    \A rows \in HourRows : /\ rows \in Seq(Int)
                           /\ \A i, j \in DOMAIN rows : i <= j => rows[i] <= rows[j]
(* What is configured is limited to 1; nothing negative is used.           *)
ASSUME CorrelationAssumption ==
    \A a, b \in ToSet(Symbols) : Correlation[{a, b}] \in 0..100
ASSUME NumbersAssumption == Initial \in Int /\ MaxSignals \in Nat

VARIABLES
    config,       \* the run
    hours,        \* the starts of the longer candles there are
    now,          \* bars processed
    feed,         \* the bars each symbol had
    equity,
    peak,         \* the highest point of the equity curve
    open,         \* the trades that are open
    trades,       \* the trades that are closed
    pending,      \* the signal each symbol enters on at its next bar
    cursor,       \* candles the cursor has pushed, by symbol and timeframe
    deciding,     \* symbols whose strategy is still to be asked at this bar
    signalled,    \* signals so far
    done

market == <<config, hours>>
vars == <<market, now, feed, equity, peak, open, trades, pending, cursor, deciding,
          signalled, done>>

NoSignal == [direction |-> "NONE"]
Portfolio == config.loop = "portfolio"
Length == Len(config.calendar)
Traded == IF Portfolio THEN Symbols ELSE <<Head(Symbols)>>
InTest == now + 1 >= config.start
Bar(s) == Last(feed'[s])
Distance(x, y) == IF x > y THEN x - y ELSE y - x
Percent(amount, percent) == (amount * percent) \div 100
-----------------------------------------------------------------------------
(* Costs and sizes.                                                        *)
EntryPrice(direction, price) == IF direction = "LONG" THEN price + 1 ELSE price - 1
ExitPrice(direction, price) == IF direction = "LONG" THEN price - 1 ELSE price + 1
Commission(amount) == amount \div 1000
Funding(t) == LET cost == (t.quantity * t.entry) \div 10000
              IN IF t.direction = "LONG" THEN cost ELSE -cost

Amount(t) == t.quantity * t.entry
RiskCash(t) == t.quantity * Distance(t.entry, t.stop)
OpenRisk(T) == SumFunction([t \in T |-> RiskCash(t)])
OpenAmount(T) == SumFunction([t \in T |-> Amount(t)])

(* A slip: only the new trade's own risk is compared.                      *)
CorrelatedRiskOwn(s, risk, T) == risk

(* What the open trades of other symbols add to a new risk.                *)
CorrelatedRisk(s, risk, T) ==
    risk + SumFunction([t \in {o \in T : o.symbol # s} |->
                           Percent(RiskCash(t), Correlation[{s, t.symbol}])])

(* The trade a signal becomes at the open of a bar, and why it may not.    *)
Candidate(s, signal, book) ==
    LET entry == EntryPrice(signal.direction, Bar(s).open)
        distance == Distance(entry, signal.stop)
        quantity == IF distance = 0 THEN 0
                    ELSE Percent(book.equity, 1) \div distance
    IN [symbol |-> s, direction |-> signal.direction, stop |-> signal.stop,
        target |-> signal.target, entered |-> now',
        entry |-> entry, quantity |-> quantity, sized |-> book.equity,
        commission |-> Commission(quantity * entry), funding |-> 0]

Refused(t, book) ==
    \/ t.direction = "SHORT" /\ ~config.short
    \/ Portfolio /\ (book.equity <= 0 \/ \E o \in book.open : o.symbol = t.symbol)
    \/ t.entry = t.stop \/ t.stop <= 0
    \/ OpenRisk(book.open) + RiskCash(t) > Percent(book.equity, 3)
    \/ Portfolio
       /\ CorrelatedRisk(t.symbol, RiskCash(t), book.open) > Percent(book.equity, 2)
    \/ OpenAmount(book.open) + Amount(t) > Percent(book.equity, 50)

Enter(book, s) ==
    LET t == Candidate(s, pending[s], book)
    IN IF pending[s] = NoSignal \/ Refused(t, book) THEN book
       ELSE [equity |-> book.equity - t.commission, open |-> book.open \cup {t}]

(* The symbols enter one after the other, each with the equity and the     *)
(* trades the one before left.                                             *)
Due(s, present) == s \in present /\ InTest
EnterAll(present) ==
    LET book[k \in 0..Len(Traded)] ==
            IF k = 0 THEN [equity |-> equity, open |-> open]
            ELSE IF Due(Traded[k], present) THEN Enter(book[k - 1], Traded[k])
                 ELSE book[k - 1]
    IN book[Len(Traded)]

(* The engine of one symbol asks for the risk budget of an equity that is  *)
(* gone; the run ends in its exception.                                    *)
BudgetRaises(present) ==
    LET s == Head(Symbols)
        t == Candidate(s, pending[s], [equity |-> equity, open |-> open])
    IN /\ ~Portfolio /\ equity <= 0
       /\ Due(s, present) /\ pending[s] # NoSignal
       /\ t.direction = "SHORT" => config.short
       /\ t.entry # t.stop /\ t.stop > 0
-----------------------------------------------------------------------------
(* A bar that reaches the stop closes a trade there, whatever else it      *)
(* reaches; a bar that reaches the target closes it at the target.         *)
Stopped(t, bar) == IF t.direction = "LONG" THEN bar.low <= t.stop
                                           ELSE bar.high >= t.stop
Reached(t, bar) == /\ t.target > 0
                   /\ IF t.direction = "LONG" THEN bar.high >= t.target
                                              ELSE bar.low <= t.target
(* A slip: the target is looked at first.                                  *)
IntrabarExitTargetFirst(t, bar) ==
    IF Reached(t, bar) THEN "TAKE_PROFIT"
    ELSE IF Stopped(t, bar) THEN "STOP_LOSS" ELSE "NONE"

IntrabarExit(t, bar) ==
    IF Stopped(t, bar) THEN "STOP_LOSS"
    ELSE IF Reached(t, bar) THEN "TAKE_PROFIT" ELSE "NONE"

Gross(t, exit) ==
    t.quantity * (IF t.direction = "LONG" THEN exit - t.entry ELSE t.entry - exit)

(* A slip: the commission of the entry is left out of the result.          *)
ClosedWithoutEntryCost(t, reason, price, at) ==
    LET exit == ExitPrice(t.direction, price)
        fee == Commission(Amount(t))
    IN [trade |-> t, reason |-> reason, exited |-> at,
        credit |-> Gross(t, exit) - fee,
        realized |-> Gross(t, exit) - fee - t.funding]

Closed(t, reason, price, at) ==
    LET exit == ExitPrice(t.direction, price)
        fee == Commission(Amount(t))
    IN [trade |-> t, reason |-> reason, exited |-> at,
        credit |-> Gross(t, exit) - fee,
        realized |-> Gross(t, exit) - t.commission - fee - t.funding]

Credit(C) == SumFunction([c \in C |-> c.credit])

(* Funding is charged on every open trade whose symbol has a bar, and the  *)
(* trades that bar closes are credited.                                    *)
Charged(book, present) ==
    {t \in book.open : t.symbol \notin present}
    \cup {[t EXCEPT !.funding = @ + Funding(t)] :
          t \in {o \in book.open : o.symbol \in present}}
Exits(T, present) ==
    {t \in T : t.symbol \in present /\ IntrabarExit(t, Bar(t.symbol)) # "NONE"}
ClosedAtBar(t) ==
    LET reason == IntrabarExit(t, Bar(t.symbol))
    IN Closed(t, reason, IF reason = "STOP_LOSS" THEN t.stop ELSE t.target, now')
FundingPaid(book, present) ==
    SumFunction([t \in {o \in book.open : o.symbol \in present} |-> Funding(t)])
-----------------------------------------------------------------------------
(* The snapshot cursor.  It pushes the candles of a timeframe, the longer  *)
(* one first, until the next is not complete, and stops at a timeframe     *)
(* that has fewer than two.                                                *)
Starts(bars) == [k \in DOMAIN bars |-> bars[k].at]

(* A slip: a candle counts from its start.                                 *)
AdvanceByStart(rows, index, duration, decision) ==
    CHOOSE i \in index..Len(rows) :
        /\ \A k \in (index + 1)..i : rows[k] <= decision
        /\ i < Len(rows) => rows[i + 1] > decision

Advance(rows, index, duration, decision) ==
    CHOOSE i \in index..Len(rows) :
        /\ \A k \in (index + 1)..i : rows[k] + duration <= decision
        /\ i < Len(rows) => rows[i + 1] + duration > decision

MovedCursor(s) ==
    LET hour == Advance(hours, cursor[s].hour, 2, now' + 1)
        bar == Advance(Starts(feed'[s]), cursor[s].bar, 1, now' + 1)
    IN [hour |-> hour, bar |-> IF hour < 2 THEN cursor[s].bar ELSE bar,
        ready |-> hour >= 2 /\ bar >= 2]
-----------------------------------------------------------------------------
Init ==
    /\ config \in Configs
    /\ hours \in HourRows
    /\ now = 0
    /\ feed = [s \in ToSet(Symbols) |-> << >>]
    /\ equity = Initial /\ peak = Initial
    /\ open = {} /\ trades = {}
    /\ pending = [s \in ToSet(Symbols) |-> NoSignal]
    /\ cursor = [s \in ToSet(Symbols) |-> [hour |-> 0, bar |-> 0, ready |-> FALSE]]
    /\ deciding = {}
    /\ signalled = 0
    /\ done = FALSE

At(t, shape) == [at |-> t, open |-> shape.open, low |-> shape.low,
                 high |-> shape.high, close |-> shape.close]

(* Nobody looks at the prices of a bar while nothing is open or pending.   *)
AnyShape == CHOOSE shape \in Shapes : TRUE
Looked == open # {} \/ \E s \in DOMAIN pending : pending[s] # NoSignal

(* A slip: the curve has the lowest point instead.                         *)
Highest(before, after) == Max({before, after})

(* One timestamp: the symbols that have a bar enter, settle, and move      *)
(* their cursors.  The engine of one symbol keeps its signal for the test. *)
ProcessBar(present, shape) ==
    /\ ~done /\ deciding = {} /\ now < Length
    /\ present = config.calendar[now + 1]
    /\ Looked \/ shape = AnyShape
    /\ now' = now + 1
    /\ feed' = [s \in DOMAIN feed |->
                IF s \in present THEN Append(feed[s], At(now + 1, shape)) ELSE feed[s]]
    /\ ~BudgetRaises(present)
    /\ LET book == EnterAll(present)
           charged == Charged(book, present)
           exits == Exits(charged, present)
           closed == {ClosedAtBar(t) : t \in exits}
       IN /\ open' = charged \ exits
          /\ trades' = trades \cup closed
          /\ equity' = book.equity - FundingPaid(book, present) + Credit(closed)
    /\ peak' = Highest(peak, equity')
    /\ pending' = [s \in DOMAIN pending |->
                   IF Due(s, present) THEN NoSignal ELSE pending[s]]
    /\ cursor' = [s \in DOMAIN cursor |->
                  IF s \in present THEN MovedCursor(s) ELSE cursor[s]]
    /\ deciding' = {s \in ToSet(Traded) : Due(s, present) /\ cursor'[s].ready}
    /\ UNCHANGED <<market, signalled, done>>

(* The strategy of the next symbol rejects, or decides for its next bar.   *)
EvaluateStrategy(k, signal) ==
    /\ Traded[k] \in deciding /\ \A j \in 1..k - 1 : Traded[j] \notin deciding
    /\ deciding' = deciding \ {Traded[k]}
    /\ \/ signal = NoSignal /\ UNCHANGED <<pending, signalled>>
       \/ /\ signal # NoSignal /\ signalled < MaxSignals
          /\ signalled' = signalled + 1
          /\ pending' = [pending EXCEPT ![Traded[k]] =
                             [direction |-> signal.direction, stop |-> signal.stop,
                              target |-> signal.target]]
    /\ UNCHANGED <<market, now, feed, equity, peak, open, trades, cursor, done>>

(* What is still open is closed at the last close of its symbol.           *)
ClosedAtEnd(t) ==
    LET bar == Last(feed[t.symbol])
    IN Closed(t, "END_OF_TEST", bar.close, bar.at)

(* Symbol after symbol: the curve has a point after the trades of each.    *)
EndPoint(k) ==
    equity + Credit({ClosedAtEnd(t) : t \in {o \in open : \E i \in 1..k : o.symbol = Traded[i]}})

EndOfTest ==
    /\ ~done /\ deciding = {} /\ now = Length
    /\ LET closed == {ClosedAtEnd(t) : t \in open}
       IN /\ trades' = trades \cup closed
          /\ equity' = equity + Credit(closed)
    /\ peak' = Highest(peak, Max({EndPoint(k) : k \in DOMAIN Traded}))
    /\ open' = {}
    /\ done' = TRUE
    /\ UNCHANGED <<market, now, feed, pending, cursor, deciding, signalled>>

Next ==
    \/ \E present \in SUBSET ToSet(Symbols), shape \in Shapes :
          ProcessBar(present, shape)
    \/ \E k \in DOMAIN Traded, signal \in Signals \cup {NoSignal} :
          EvaluateStrategy(k, signal)
    \/ EndOfTest

Spec == Init /\ [][Next]_vars
-----------------------------------------------------------------------------
(* No money appears or disappears: equity is what was there at first, what *)
(* the closed trades realized, less what the open trades have cost so far. *)
(* Entry and exit change equity at different bars and the trade's own      *)
(* result is computed separately from both.                                *)
Conservation ==
    equity = Initial + SumFunction([c \in trades |-> c.realized])
                     - SumFunction([t \in open |-> t.commission + t.funding])

(* The candles a decision rests on are exactly those complete when it is   *)
(* made, in each timeframe, though the cursor stops early while a longer   *)
(* timeframe is short of candles and catches up later.                     *)
CompletedAt(rows, duration, decision) ==
    Cardinality({k \in DOMAIN rows : rows[k] + duration <= decision})

NoLookahead ==
    \A s \in deciding :
        /\ cursor[s].hour = CompletedAt(hours, 2, now + 1)
        /\ cursor[s].bar = CompletedAt(Starts(feed[s]), 1, now + 1)
        /\ cursor[s].hour >= 2 /\ cursor[s].bar >= 2

(* No trade outlives a bar that reached its stop or target, the bar it     *)
(* entered on included, and none takes a profit from a bar, or after one,  *)
(* that reached its stop.                                                  *)
BarsHeld(t, last) == {b \in ToSet(feed[t.symbol]) : t.entered <= b.at /\ b.at <= last}
StopsAreKept ==
    /\ \A t \in open : \A b \in BarsHeld(t, now) :
          IntrabarExit(t, b) = "NONE"
    /\ \A c \in trades :
          /\ \A b \in BarsHeld(c.trade, c.exited - 1) :
                IntrabarExit(c.trade, b) = "NONE"
          /\ c.reason = "TAKE_PROFIT" =>
                \A b \in BarsHeld(c.trade, c.exited) : ~Stopped(c.trade, b)

(* However the trades of the symbols interleave, an open trade and those   *)
(* opened before it that are still open are within the budgets of the      *)
(* equity it was sized from: open risk, open capital and, over correlated  *)
(* symbols, correlated risk.                                               *)
Before(o, t) == \/ o.entered < t.entered
                \/ /\ o.entered = t.entered
                   /\ \E i, j \in DOMAIN Symbols :
                         i < j /\ o.symbol = Symbols[i] /\ t.symbol = Symbols[j]
WithinBudgets ==
    \A t \in open : LET earlier == {o \in open : Before(o, t)} IN
        /\ OpenRisk(earlier \cup {t}) <= Percent(t.sized, 3)
        /\ OpenAmount(earlier \cup {t}) <= Percent(t.sized, 50)
        /\ Portfolio => \A o \in earlier :
              /\ o.symbol # t.symbol
              /\ RiskCash(t) + Percent(RiskCash(o), Correlation[{o.symbol, t.symbol}])
                     <= Percent(t.sized, 2)
=============================================================================
