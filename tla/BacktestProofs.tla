------------------------------ MODULE BacktestProofs ------------------------------
(***************************************************************************)
(* The books, the stops, the budgets and the snapshot cursor of the bar    *)
(* loops, for any symbols, calendars, bars and signals.                    *)
(***************************************************************************)
EXTENDS BacktestEngine, Sums

Names == ToSet(Symbols)
SignalType == [direction : {"LONG", "SHORT"}, stop : Int, target : Int]
BarType == [at : Nat, open : Nat \ {0}, low : Nat, high : Nat, close : Nat]
TradeType ==
    [symbol : Names, direction : {"LONG", "SHORT"}, stop : Int, target : Int,
     entered : Nat, entry : Nat, quantity : Nat, sized : Int, commission : Int,
     funding : Int]
ClosedType ==
    [trade : TradeType, reason : {"STOP_LOSS", "TAKE_PROFIT", "END_OF_TEST"},
     exited : Nat, credit : Int, realized : Int]

Typed ==
    /\ config \in Configs /\ hours \in HourRows
    /\ now \in Nat /\ feed \in [Names -> Seq(BarType)]
    /\ equity \in Int
    /\ open \in SUBSET TradeType /\ IsFiniteSet(open)
    /\ trades \in SUBSET ClosedType /\ IsFiniteSet(trades)
    /\ pending \in [Names -> SignalType \cup {NoSignal}]
    /\ cursor \in [Names -> [hour : Nat, bar : Nat, ready : BOOLEAN]]
    /\ deciding \in SUBSET Names /\ done \in BOOLEAN

(* Bars, entries and exits are of the past.                                *)
Dated ==
    /\ \A s \in Names : \A b \in ToSet(feed[s]) : b.at <= now
    /\ \A t \in open : t.entered <= now /\ feed[t.symbol] # << >>
    /\ \A c \in trades : c.exited <= now /\ (c.reason = "END_OF_TEST" => done)

(* The cursor has pushed complete candles only.                            *)
CursorBehind ==
    \A s \in Names :
        /\ cursor[s].hour \in 0..Len(hours)
        /\ \A k \in 1..cursor[s].hour : hours[k] + 2 <= now + 1
        /\ cursor[s].bar \in 0..Len(feed[s])
-----------------------------------------------------------------------------
LEMMA SymbolFacts ==
    /\ Symbols \in Seq(Names) /\ Len(Symbols) \in Nat \ {0}
    /\ DOMAIN Symbols = 1..Len(Symbols)
    /\ \A k \in 1..Len(Symbols) : Symbols[k] \in Names
    /\ Head(Symbols) = Symbols[1]
  BY SymbolsAssumption DEF Names, ToSet

LEMMA TradedFacts ==
    /\ Len(Traded) \in Nat /\ DOMAIN Traded = 1..Len(Traded)
    /\ Len(Traded) <= Len(Symbols)
    /\ \A k \in 1..Len(Traded) : Traded[k] = Symbols[k] /\ Traded[k] \in Names
    /\ ToSet(Traded) \subseteq Names
<1>1. CASE Portfolio
  BY <1>1, SymbolFacts DEF Traded, ToSet
<1>2. CASE ~Portfolio
  BY <1>2, SymbolFacts DEF Traded, ToSet
<1> QED
  BY <1>1, <1>2

LEMMA ConfigFacts ==
    ASSUME Typed
    PROVE  /\ config.loop \in {"engine", "portfolio"} /\ config.short \in BOOLEAN
           /\ config.start \in Nat /\ config.calendar \in Seq(SUBSET Names)
  BY ConfigsAssumption DEF Typed, Names

(* Amounts and risks of a trade are not negative.                          *)
LEMMA Product == \A a, b \in Nat : a * b \in Nat
  OBVIOUS

LEMMA TradeNumbers ==
    ASSUME NEW t \in TradeType
    PROVE  /\ RiskCash(t) \in Nat /\ Amount(t) \in Nat
           /\ Funding(t) \in Int /\ Commission(Amount(t)) \in Int
<1>1. Distance(t.entry, t.stop) \in Nat /\ t.quantity \in Nat /\ t.entry \in Nat
  BY DEF Distance, TradeType
<1>2. RiskCash(t) \in Nat /\ Amount(t) \in Nat
  BY <1>1, Product DEF RiskCash, Amount
<1>3. (t.quantity * t.entry) \div 10000 \in Int
  BY <1>2 DEF Amount
<1> QED
  BY <1>2, <1>3 DEF Funding, Commission
-----------------------------------------------------------------------------
(* The sums the loops and the properties speak of, over one function each. *)
Risks == [t \in TradeType |-> RiskCash(t)]
Amounts == [t \in TradeType |-> Amount(t)]
Fundings == [t \in TradeType |-> Funding(t)]
Costs == [t \in TradeType |-> t.commission + t.funding]
Credits == [c \in ClosedType |-> c.credit]
Results == [c \in ClosedType |-> c.realized]

LEMMA TradeSums ==
    ASSUME NEW T \in SUBSET TradeType, IsFiniteSet(T)
    PROVE  /\ IntegerOn(Risks, T) /\ IntegerOn(Amounts, T)
           /\ IntegerOn(Fundings, T) /\ IntegerOn(Costs, T)
           /\ OpenRisk(T) = SumFunctionOnSet(Risks, T)
           /\ OpenAmount(T) = SumFunctionOnSet(Amounts, T)
           /\ SumFunction([t \in T |-> Funding(t)]) = SumFunctionOnSet(Fundings, T)
           /\ SumFunction([t \in T |-> t.commission + t.funding])
                  = SumFunctionOnSet(Costs, T)
<1>1. \A t \in T : RiskCash(t) \in Int /\ Amount(t) \in Int /\ Funding(t) \in Int
                   /\ t.commission + t.funding \in Int
  <2>1. \A t \in T : t.commission \in Int /\ t.funding \in Int
    BY DEF TradeType
  <2> QED
    BY <2>1, TradeNumbers
<1>2. PICK f1, f2, f3, f4 : /\ f1 = [t \in T |-> RiskCash(t)]
                            /\ f2 = [t \in T |-> Amount(t)]
                            /\ f3 = [t \in T |-> Funding(t)]
                            /\ f4 = [t \in T |-> t.commission + t.funding]
  OBVIOUS
<1>3. /\ \A t \in T : Risks[t] = f1[t] /\ Amounts[t] = f2[t]
                      /\ Fundings[t] = f3[t] /\ Costs[t] = f4[t]
      /\ IntegerOn(f1, T) /\ IntegerOn(f2, T) /\ IntegerOn(f3, T) /\ IntegerOn(f4, T)
  BY <1>1, <1>2 DEF IntegerOn, Risks, Amounts, Fundings, Costs
<1>4. IntegerOn(Risks, T) /\ IntegerOn(Amounts, T) /\ IntegerOn(Fundings, T)
      /\ IntegerOn(Costs, T)
  BY <1>3 DEF IntegerOn
<1>5. DOMAIN f1 = T /\ DOMAIN f2 = T /\ DOMAIN f3 = T /\ DOMAIN f4 = T
  BY <1>2
<1>6. SumFunction(f1) = SumFunctionOnSet(Risks, T)
  BY <1>3, <1>4, <1>5, SumOfEqual DEF SumFunction
<1>7. SumFunction(f2) = SumFunctionOnSet(Amounts, T)
  BY <1>3, <1>4, <1>5, SumOfEqual DEF SumFunction
<1>8. SumFunction(f3) = SumFunctionOnSet(Fundings, T)
  BY <1>3, <1>4, <1>5, SumOfEqual DEF SumFunction
<1>9. SumFunction(f4) = SumFunctionOnSet(Costs, T)
  BY <1>3, <1>4, <1>5, SumOfEqual DEF SumFunction
<1> QED
  BY <1>2, <1>4, <1>6, <1>7, <1>8, <1>9 DEF OpenRisk, OpenAmount

LEMMA ClosedSums ==
    ASSUME NEW C \in SUBSET ClosedType, IsFiniteSet(C)
    PROVE  /\ IntegerOn(Credits, C) /\ IntegerOn(Results, C)
           /\ Credit(C) = SumFunctionOnSet(Credits, C)
           /\ SumFunction([c \in C |-> c.realized]) = SumFunctionOnSet(Results, C)
<1>1. \A c \in C : c.credit \in Int /\ c.realized \in Int
  BY DEF ClosedType
<1>2. PICK f1, f2 : f1 = [c \in C |-> c.credit] /\ f2 = [c \in C |-> c.realized]
  OBVIOUS
<1>3. /\ \A c \in C : Credits[c] = f1[c] /\ Results[c] = f2[c]
      /\ IntegerOn(Credits, C) /\ IntegerOn(Results, C)
      /\ DOMAIN f1 = C /\ DOMAIN f2 = C
  BY <1>1, <1>2 DEF IntegerOn, Credits, Results
<1>4. SumFunction(f1) = SumFunctionOnSet(Credits, C)
  BY <1>3, SumOfEqual DEF SumFunction
<1>5. SumFunction(f2) = SumFunctionOnSet(Results, C)
  BY <1>3, SumOfEqual DEF SumFunction
<1> QED
  BY <1>2, <1>3, <1>4, <1>5 DEF Credit
-----------------------------------------------------------------------------
(* A trade is within the budgets of the equity it was sized from, beside   *)
(* the trades of E; and all trades of T are, beside those opened before.   *)
Affords(t, E) ==
    /\ OpenRisk(E \cup {t}) <= Percent(t.sized, 3)
    /\ OpenAmount(E \cup {t}) <= Percent(t.sized, 50)
    /\ Portfolio => \A o \in E :
          /\ o.symbol # t.symbol
          /\ RiskCash(t) + Percent(RiskCash(o), Correlation[{o.symbol, t.symbol}])
                 <= Percent(t.sized, 2)
Budgeted(T) == \A t \in T : Affords(t, {o \in T : Before(o, t)})

LEMMA PercentIsNatural ==
    ASSUME NEW a \in Nat, NEW p \in 0..100
    PROVE  Percent(a, p) \in Nat
<1>1. a * p \in Nat
  BY Product
<1> QED
  BY <1>1 DEF Percent

(* A trade of other symbols adds what it is correlated by, or more are.    *)
LEMMA CorrelationOfOne ==
    ASSUME NEW T \in SUBSET TradeType, IsFiniteSet(T), NEW s \in Names, NEW risk \in Int,
           NEW o \in T, o.symbol # s
    PROVE  /\ CorrelatedRisk(s, risk, T) \in Int
           /\ Percent(RiskCash(o), Correlation[{o.symbol, s}]) \in Int
           /\ risk + Percent(RiskCash(o), Correlation[{o.symbol, s}])
                  <= CorrelatedRisk(s, risk, T)
<1>1. PICK U : U = {x \in T : x.symbol # s}
  OBVIOUS
<1>2. PICK f : f = [t \in U |-> Percent(RiskCash(t), Correlation[{s, t.symbol}])]
  OBVIOUS
<1>3. \A t \in U : f[t] \in Nat
  <2> SUFFICES ASSUME NEW t \in U
               PROVE  Percent(RiskCash(t), Correlation[{s, t.symbol}]) \in Nat
    BY <1>2
  <2>1. t \in TradeType /\ t.symbol \in Names
    BY <1>1 DEF TradeType
  <2>2. Correlation[{s, t.symbol}] \in 0..100
    BY <2>1, CorrelationAssumption DEF Names
  <2>3. RiskCash(t) \in Nat
    BY <2>1, TradeNumbers
  <2> QED
    BY <2>2, <2>3, PercentIsNatural
<1>4. IntegerOn(f, U)
  <2>1. IsFiniteSet(U)
    BY <1>1, FS_Subset
  <2> QED
    BY <1>3, <2>1 DEF IntegerOn
<1>5. o \in U /\ f[o] = Percent(RiskCash(o), Correlation[{o.symbol, s}])
  <2>1. {s, o.symbol} = {o.symbol, s}
    OBVIOUS
  <2> QED
    BY <1>1, <1>2, <2>1
<1>6. SumFunctionOnSet(f, {o}) = f[o]
  <2>1. OneMore({o}, {}, o)
    BY DEF OneMore
  <2>2. IsFiniteSet({o})
    BY FS_Singleton
  <2>3. IntegerOn(f, {o})
    BY <1>3, <1>5, <2>2 DEF IntegerOn
  <2>4. SumFunctionOnSet(f, {o}) = SumFunctionOnSet(f, {}) + f[o]
    BY <2>1, <2>3, SumWithElement
  <2> QED
    BY <1>3, <1>5, <2>4, SumOfNone
<1>7. SumFunctionOnSet(f, {o}) <= SumFunctionOnSet(f, U)
  <2>1. {o} \in SUBSET U /\ \A x \in U : f[x] >= 0
    BY <1>3, <1>5
  <2> QED
    BY <1>4, <2>1, SumOfPart
<1>8. SumFunctionOnSet(f, U) = SumFunction(f)
  <2>1. DOMAIN f = U
    BY <1>2
  <2> QED
    BY <2>1 DEF SumFunction
<1>9. CorrelatedRisk(s, risk, T) = risk + SumFunctionOnSet(f, U)
  BY <1>1, <1>2, <1>8 DEF CorrelatedRisk
<1>10. SumFunctionOnSet(f, U) \in Int /\ f[o] \in Int
  BY <1>3, <1>4, <1>5, SumIsInteger
<1> QED
  BY <1>5, <1>6, <1>7, <1>9, <1>10

(* What is not refused is within the budgets.                              *)
LEMMA AcceptedAffords ==
    ASSUME NEW book, book.open \in SUBSET TradeType, IsFiniteSet(book.open),
           NEW t \in TradeType, t \notin book.open, t.sized = book.equity,
           ~Refused(t, book)
    PROVE  Affords(t, book.open)
<1>1. PICK T : T = book.open
  OBVIOUS
<1>2. PICK U : U = T \cup {t} /\ OneMore(U, T, t)
  BY <1>1 DEF OneMore
<1>3. T \in SUBSET TradeType /\ IsFiniteSet(T) /\ U \in SUBSET TradeType /\ IsFiniteSet(U)
  BY <1>1, <1>2, FS_AddElement
<1>4. OpenRisk(U) = OpenRisk(T) + RiskCash(t)
  <2>1. IntegerOn(Risks, U) /\ OpenRisk(U) = SumFunctionOnSet(Risks, U)
        /\ OpenRisk(T) = SumFunctionOnSet(Risks, T)
    BY <1>3, TradeSums
  <2>2. SumFunctionOnSet(Risks, U) = SumFunctionOnSet(Risks, T) + Risks[t]
    BY <1>2, <2>1, SumWithElement
  <2> QED
    BY <2>1, <2>2 DEF Risks
<1>5. OpenAmount(U) = OpenAmount(T) + Amount(t)
  <2>1. IntegerOn(Amounts, U) /\ OpenAmount(U) = SumFunctionOnSet(Amounts, U)
        /\ OpenAmount(T) = SumFunctionOnSet(Amounts, T)
    BY <1>3, TradeSums
  <2>2. SumFunctionOnSet(Amounts, U) = SumFunctionOnSet(Amounts, T) + Amounts[t]
    BY <1>2, <2>1, SumWithElement
  <2> QED
    BY <2>1, <2>2 DEF Amounts
<1>6. OpenRisk(T) \in Int /\ OpenAmount(T) \in Int /\ RiskCash(t) \in Nat /\ Amount(t) \in Nat
  BY <1>3, TradeSums, SumIsInteger, TradeNumbers
<1>7. Percent(t.sized, 3) \in Int /\ Percent(t.sized, 50) \in Int /\ Percent(t.sized, 2) \in Int
  <2>1. t.sized \in Int
    BY DEF TradeType
  <2> QED
    BY <2>1 DEF Percent
<1>8. OpenRisk(U) <= Percent(t.sized, 3) /\ OpenAmount(U) <= Percent(t.sized, 50)
  <2>1. ~(OpenRisk(T) + RiskCash(t) > Percent(t.sized, 3))
        /\ ~(OpenAmount(T) + Amount(t) > Percent(t.sized, 50))
    BY <1>1 DEF Refused
  <2> QED
    BY <1>4, <1>5, <1>6, <1>7, <2>1
<1>9. ASSUME Portfolio, NEW o \in T
      PROVE  /\ o.symbol # t.symbol
             /\ RiskCash(t) + Percent(RiskCash(o), Correlation[{o.symbol, t.symbol}])
                    <= Percent(t.sized, 2)
  <2>1. o.symbol # t.symbol
        /\ ~(CorrelatedRisk(t.symbol, RiskCash(t), T) > Percent(t.sized, 2))
    BY <1>1, <1>9 DEF Refused
  <2>2. t.symbol \in Names /\ o.symbol \in Names /\ o \in TradeType
    BY <1>3 DEF TradeType
  <2>3. /\ CorrelatedRisk(t.symbol, RiskCash(t), T) \in Int
        /\ Percent(RiskCash(o), Correlation[{o.symbol, t.symbol}]) \in Int
        /\ RiskCash(t) + Percent(RiskCash(o), Correlation[{o.symbol, t.symbol}])
               <= CorrelatedRisk(t.symbol, RiskCash(t), T)
    <3>1. RiskCash(t) \in Int /\ T \in SUBSET TradeType /\ IsFiniteSet(T)
          /\ o.symbol # t.symbol
      BY <1>3, <1>6, <2>1
    <3> QED
      BY <2>2, <3>1, CorrelationOfOne
  <2> QED
    BY <1>6, <1>7, <2>1, <2>3
<1> QED
  BY <1>1, <1>2, <1>8, <1>9 DEF Affords
-----------------------------------------------------------------------------
(* A trade opened later is not opened before those there are.              *)
LEMMA BeforeIsStrict ==
    ASSUME NEW o \in TradeType, NEW t \in TradeType, Before(o, t)
    PROVE  ~Before(t, o)
<1>1. o.entered \in Nat /\ t.entered \in Nat
  BY DEF TradeType
<1>2. ASSUME NEW i \in DOMAIN Symbols, NEW j \in DOMAIN Symbols, i < j,
             o.symbol = Symbols[i], t.symbol = Symbols[j],
             NEW k \in DOMAIN Symbols, NEW l \in DOMAIN Symbols, k < l,
             t.symbol = Symbols[k], o.symbol = Symbols[l]
      PROVE  FALSE
  <2>1. i = l /\ j = k
    BY <1>2, SymbolsAssumption
  <2>2. i \in Nat /\ j \in Nat
    BY SymbolFacts
  <2> QED
    BY <1>2, <2>1, <2>2
<1> QED
  BY <1>1, <1>2 DEF Before

(* The next trade finds the budgets of the others as they were.            *)
LEMMA BudgetsWithNext ==
    ASSUME NEW T \in SUBSET TradeType, Budgeted(T), NEW t \in TradeType,
           \A o \in T : Before(o, t), Affords(t, T)
    PROVE  Budgeted(T \cup {t})
<1> SUFFICES ASSUME NEW x \in T \cup {t}
             PROVE  Affords(x, {o \in T \cup {t} : Before(o, x)})
  BY DEF Budgeted
<1>1. ~Before(t, t)
  BY BeforeIsStrict
<1>2. CASE x = t
  <2>1. {o \in T \cup {t} : Before(o, x)} = T
    BY <1>1, <1>2
  <2> QED
    BY <1>2, <2>1
<1>3. CASE x \in T
  <2>1. ~Before(t, x)
    BY <1>3, BeforeIsStrict
  <2>2. {o \in T \cup {t} : Before(o, x)} = {o \in T : Before(o, x)}
    BY <2>1
  <2> QED
    BY <1>3, <2>2 DEF Budgeted
<1> QED
  BY <1>2, <1>3
-----------------------------------------------------------------------------
(* What the symbols before the k-th have made of the book at a bar.        *)
Entered(book, k, present) ==
    /\ book.equity \in Int
    /\ book.open \in SUBSET TradeType /\ IsFiniteSet(book.open)
    /\ open \subseteq book.open
    /\ \A t \in book.open \ open :
          /\ t.entered = now + 1 /\ t.symbol \in present
          /\ \E j \in 1..k : t.symbol = Traded[j]
    /\ book.equity + SumFunctionOnSet(Costs, book.open)
           = equity + SumFunctionOnSet(Costs, open)
    /\ Budgeted(book.open)

LEMMA CandidateIsTrade ==
    ASSUME Typed, NEW s \in Names, pending[s] # NoSignal, now' = now + 1,
           Bar(s) \in BarType, NEW book, book.equity \in Int, book.equity > 0,
           NEW t, t = Candidate(s, pending[s], book)
    PROVE  /\ t \in TradeType /\ t.entered = now + 1 /\ t.symbol = s
           /\ t.sized = book.equity /\ t.funding = 0
<1>1. PICK signal : signal = pending[s] /\ signal \in SignalType
  BY DEF Typed
<1>2. signal.direction \in {"LONG", "SHORT"} /\ signal.stop \in Int /\ signal.target \in Int
  BY <1>1 DEF SignalType
<1>3. PICK entry : entry = EntryPrice(signal.direction, Bar(s).open)
  OBVIOUS
<1>4. entry \in Nat
  <2>1. Bar(s).open \in Nat \ {0}
    BY DEF BarType
  <2> QED
    BY <1>3, <2>1 DEF EntryPrice
<1>5. PICK distance : distance = Distance(entry, signal.stop)
  OBVIOUS
<1>6. distance \in Nat
  BY <1>2, <1>4, <1>5 DEF Distance
<1>7. PICK quantity : quantity = IF distance = 0 THEN 0
                                 ELSE Percent(book.equity, 1) \div distance
  OBVIOUS
<1>8. quantity \in Nat
  <2>1. Percent(book.equity, 1) \in Nat
    <3>1. book.equity \in Nat /\ 1 \in 0..100
      OBVIOUS
    <3> QED
      BY <3>1, PercentIsNatural
  <2> QED
    BY <1>6, <1>7, <2>1
<1>9. Commission(quantity * entry) \in Int
  <2>1. quantity * entry \in Nat
    BY <1>4, <1>8, Product
  <2> QED
    BY <2>1 DEF Commission
<1>10. t = [symbol |-> s, direction |-> signal.direction, stop |-> signal.stop,
            target |-> signal.target, entered |-> now', entry |-> entry,
            quantity |-> quantity, sized |-> book.equity,
            commission |-> Commission(quantity * entry), funding |-> 0]
  BY <1>1, <1>3, <1>5, <1>7 DEF Candidate
<1>11. now' \in Nat
  BY DEF Typed
<1> QED
  BY <1>2, <1>4, <1>8, <1>9, <1>10, <1>11 DEF TradeType

(* Nothing enters without equity: the portfolio refuses, the engine fails. *)
LEMMA EquityIsThere ==
    ASSUME Typed, NEW present, ~BudgetRaises(present), NEW k \in 1..Len(Traded),
           NEW book, Entered(book, k - 1, present), Due(Traded[k], present),
           pending[Traded[k]] # NoSignal,
           ~Refused(Candidate(Traded[k], pending[Traded[k]], book), book)
    PROVE  book.equity > 0
<1>1. CASE Portfolio
  BY <1>1 DEF Refused, Entered
<1>2. CASE ~Portfolio
  <2>1. k = 1 /\ Traded[k] = Head(Symbols)
    BY <1>2 DEF Traded
  <2>2. book.open = open
    <3>1. k - 1 = 0 /\ 1..0 = {}
      BY <2>1
    <3>2. open \subseteq book.open /\ \A t \in book.open \ open : \E j \in 1..0 : t.symbol = Traded[j]
      BY <3>1 DEF Entered
    <3>3. \A t \in book.open : t \in open
      BY <3>1, <3>2
    <3> QED
      BY <3>2, <3>3
  <2>3. book.equity = equity
    <3>1. SumFunctionOnSet(Costs, open) \in Int
      BY TradeSums, SumIsInteger DEF Typed
    <3> QED
      BY <2>2, <3>1 DEF Entered, Typed
  <2>4. PICK s : s = Head(Symbols)
    OBVIOUS
  <2>5. PICK t : t = Candidate(s, pending[s], book)
    OBVIOUS
  <2>6. t = Candidate(s, pending[s], [equity |-> equity, open |-> open])
    BY <2>3, <2>5 DEF Candidate
  <2>7. /\ t.direction = "SHORT" => config.short
        /\ t.entry # t.stop /\ ~(t.stop <= 0)
    BY <2>1, <2>4, <2>5 DEF Refused
  <2>8. t.stop \in Int
    <3>1. pending[s] \in SignalType
      BY <2>1, <2>4, SymbolFacts DEF Typed
    <3> QED
      BY <2>5, <3>1 DEF Candidate, SignalType
  <2>9. ~(equity <= 0)
    BY <1>2, <2>1, <2>4, <2>6, <2>7, <2>8 DEF BudgetRaises
  <2> QED
    BY <2>3, <2>9 DEF Typed
<1> QED
  BY <1>1, <1>2

LEMMA EnterStep ==
    ASSUME Typed, Dated, now' = now + 1, NEW present, ~BudgetRaises(present),
           NEW k \in 1..Len(Traded), Due(Traded[k], present),
           Bar(Traded[k]) \in BarType,
           NEW book, Entered(book, k - 1, present)
    PROVE  Entered(Enter(book, Traded[k]), k, present)
<1>1. PICK s : s = Traded[k]
  OBVIOUS
<1>2. PICK t : t = Candidate(s, pending[s], book)
  OBVIOUS
<1>3. PICK T : T = book.open
  OBVIOUS
<1>4. s \in Names /\ s \in present /\ now \in Nat
  BY <1>1, TradedFacts DEF Due, Typed
<1>5. CASE pending[s] = NoSignal \/ Refused(t, book)
  <2>1. Enter(book, s) = book
    BY <1>2, <1>5 DEF Enter
  <2>2. Entered(book, k, present)
    BY DEF Entered
  <2> QED
    BY <1>1, <2>1, <2>2
<1>6. CASE pending[s] # NoSignal /\ ~Refused(t, book)
  <2>1. PICK next : next = [equity |-> book.equity - t.commission, open |-> T \cup {t}]
    OBVIOUS
  <2>2. Enter(book, s) = next
    BY <1>2, <1>3, <1>6, <2>1 DEF Enter
  <2>3. book.equity \in Int /\ book.equity > 0
    BY <1>1, <1>2, <1>6, EquityIsThere DEF Entered
  <2>4. /\ t \in TradeType /\ t.entered = now + 1 /\ t.symbol = s
        /\ t.sized = book.equity /\ t.funding = 0
    BY <1>1, <1>2, <1>4, <1>6, <2>3, CandidateIsTrade
  <2>5. T \in SUBSET TradeType /\ IsFiniteSet(T) /\ open \subseteq T
    BY <1>3 DEF Entered
  <2>6. \A o \in T : Before(o, t)
    <3> SUFFICES ASSUME NEW o \in T
                 PROVE  Before(o, t)
      OBVIOUS
    <3>1. CASE o \in open
      <4>1. o.entered \in Nat /\ o.entered <= now
        BY <2>5, <3>1 DEF Dated, TradeType
      <4> QED
        BY <1>4, <2>4, <4>1 DEF Before
    <3>2. CASE o \notin open
      <4>1. o.entered = now + 1
        BY <1>3, <3>2 DEF Entered
      <4>2. PICK j \in 1..k - 1 : o.symbol = Traded[j]
        BY <1>3, <3>2 DEF Entered
      <4>3. j < k /\ j \in DOMAIN Symbols /\ k \in DOMAIN Symbols
            /\ Traded[j] = Symbols[j] /\ Traded[k] = Symbols[k]
        BY TradedFacts, SymbolFacts
      <4> QED
        BY <1>1, <2>4, <4>1, <4>2, <4>3 DEF Before
    <3> QED
      BY <3>1, <3>2
  <2>7. t \notin T
    BY <2>4, <2>6, BeforeIsStrict
  <2>8. Budgeted(T \cup {t})
    <3>1. Affords(t, T)
      BY <1>3, <1>6, <2>4, <2>5, <2>7, AcceptedAffords
    <3>2. Budgeted(T)
      BY <1>3 DEF Entered
    <3> QED
      BY <2>4, <2>5, <2>6, <3>1, <3>2, BudgetsWithNext
  <2>9. IsFiniteSet(T \cup {t}) /\ T \cup {t} \in SUBSET TradeType
    BY <2>4, <2>5, FS_AddElement
  <2>10. SumFunctionOnSet(Costs, T \cup {t}) = SumFunctionOnSet(Costs, T) + t.commission
    <3>1. IntegerOn(Costs, T \cup {t}) /\ OneMore(T \cup {t}, T, t)
      BY <2>7, <2>9, TradeSums DEF OneMore
    <3>2. SumFunctionOnSet(Costs, T \cup {t}) = SumFunctionOnSet(Costs, T) + Costs[t]
      BY <3>1, SumWithElement
    <3>3. Costs[t] = t.commission
      BY <2>4 DEF Costs, TradeType
    <3> QED
      BY <3>2, <3>3
  <2>11. SumFunctionOnSet(Costs, T) \in Int /\ SumFunctionOnSet(Costs, open) \in Int
         /\ t.commission \in Int
    <3>1. IntegerOn(Costs, T) /\ IntegerOn(Costs, open)
      BY <2>5, TradeSums DEF Typed
    <3> QED
      BY <2>4, <3>1, SumIsInteger DEF TradeType
  <2>12. next.equity = book.equity - t.commission /\ next.open = T \cup {t}
    BY <2>1
  <2>13. next.equity + SumFunctionOnSet(Costs, next.open)
             = equity + SumFunctionOnSet(Costs, open)
    <3>1. book.equity + SumFunctionOnSet(Costs, T) = equity + SumFunctionOnSet(Costs, open)
      BY <1>3 DEF Entered
    <3>2. SumFunctionOnSet(Costs, next.open) = SumFunctionOnSet(Costs, T) + t.commission
      BY <2>10, <2>12
    <3> QED
      BY <2>3, <2>11, <2>12, <3>1, <3>2 DEF Typed
  <2>14. \A x \in next.open \ open :
            /\ x.entered = now + 1 /\ x.symbol \in present
            /\ \E j \in 1..k : x.symbol = Traded[j]
    <3> SUFFICES ASSUME NEW x \in next.open, x \notin open
                 PROVE  /\ x.entered = now + 1 /\ x.symbol \in present
                        /\ \E j \in 1..k : x.symbol = Traded[j]
      OBVIOUS
    <3>1. CASE x = t
      BY <1>1, <1>4, <2>4, <3>1
    <3>2. CASE x \in T
      BY <1>3, <3>2 DEF Entered
    <3> QED
      BY <2>12, <3>1, <3>2
  <2>15. next.equity \in Int
    BY <2>3, <2>11, <2>12
  <2>16. Entered(next, k, present)
    BY <2>5, <2>8, <2>9, <2>12, <2>13, <2>14, <2>15 DEF Entered
  <2> QED
    BY <1>1, <2>2, <2>16
<1> QED
  BY <1>5, <1>6

LEMMA AllEntered ==
    ASSUME Typed, Dated, WithinBudgets, now' = now + 1, NEW present, ~BudgetRaises(present),
           \A s \in Names : s \in present => Bar(s) \in BarType
    PROVE  Entered(EnterAll(present), Len(Traded), present)
<1> DEFINE Start == [equity |-> equity, open |-> open]
           Turn(b, k) == IF Due(Traded[k], present) THEN Enter(b, Traded[k]) ELSE b
           Books(f, m) == f = [k \in 0..m |-> IF k = 0 THEN Start ELSE Turn(f[k - 1], k)]
           Good == {m \in Nat : \E f : Books(f, m)}
<1>1. 0 \in Good
  <2>1. Books([k \in 0..0 |-> Start], 0)
    OBVIOUS
  <2> QED
    BY <2>1
<1>2. ASSUME NEW m \in Nat, m \in Good
      PROVE  m + 1 \in Good
  <2>1. PICK f : Books(f, m)
    BY <1>2
  <2>2. PICK g : g = [k \in 0..m + 1 |-> IF k = m + 1 THEN Turn(f[m], m + 1) ELSE f[k]]
    OBVIOUS
  <2>3. ASSUME NEW k \in 0..m + 1
        PROVE  g[k] = IF k = 0 THEN Start ELSE Turn(g[k - 1], k)
    <3> HIDE DEF Turn, Start
    <3>1. CASE k = 0
      BY <2>1, <2>2, <3>1
    <3>2. CASE k \in 1..m
      <4>1. k - 1 \in 0..m /\ k \in 0..m /\ k # 0 /\ k # m + 1 /\ k - 1 # m + 1
            /\ k - 1 \in 0..m + 1
        BY <3>2
      <4>2. g[k] = f[k] /\ g[k - 1] = f[k - 1]
        BY <2>2, <4>1
      <4>3. f[k] = Turn(f[k - 1], k)
        BY <2>1, <4>1
      <4> QED
        BY <4>1, <4>2, <4>3
    <3>3. CASE k = m + 1
      <4>1. g[m + 1] = Turn(f[m], m + 1) /\ g[m] = f[m] /\ k # 0 /\ k - 1 = m
        BY <2>2, <3>3
      <4> QED
        BY <3>3, <4>1
    <3> QED
      BY <3>1, <3>2, <3>3
  <2>4. Books(g, m + 1)
    <3> HIDE DEF Turn, Start
    <3>1. DOMAIN g = 0..m + 1 /\ g = [k \in 0..m + 1 |-> g[k]]
      BY <2>2
    <3> QED
      BY <2>3, <3>1
  <2> HIDE DEF Books
  <2> QED
    BY <2>4
<1>3. PICK n \in Nat : n = Len(Traded)
  BY TradedFacts
<1>4. PICK some : Books(some, n)
  <2>1. n \in Good
    <3> HIDE DEF Good
    <3> QED
      BY <1>1, <1>2, <1>3, Counting
  <2> QED
    BY <2>1
<1>5. PICK book : book = CHOOSE f : Books(f, n)
  OBVIOUS
<1>6. Books(book, n)
  <2> HIDE DEF Books
  <2> QED
    BY <1>4, <1>5
<1>7. EnterAll(present) = book[n]
  BY <1>3, <1>5 DEF EnterAll
<1>8. Entered(book[0], 0, present)
  <2>1. book[0] = [equity |-> equity, open |-> open]
    BY <1>6
  <2>2. Budgeted(open)
    BY DEF WithinBudgets, Budgeted, Affords
  <2> QED
    BY <2>1, <2>2 DEF Entered, Typed
<1>9. ASSUME NEW k \in 1..n, Entered(book[k - 1], k - 1, present)
      PROVE  Entered(book[k], k, present)
  <2>1. book[k] = Turn(book[k - 1], k)
    <3> HIDE DEF Turn, Start
    <3> QED
      BY <1>6
  <2>2. CASE Due(Traded[k], present)
    <3>1. Bar(Traded[k]) \in BarType
      BY <1>3, <2>2, TradedFacts DEF Due
    <3> QED
      BY <1>3, <1>9, <2>1, <2>2, <3>1, EnterStep
  <2>3. CASE ~Due(Traded[k], present)
    <3>1. \A j \in 1..k - 1 : j \in 1..k
      OBVIOUS
    <3> QED
      BY <1>9, <2>1, <2>3, <3>1 DEF Entered
  <2> QED
    BY <2>2, <2>3
<1>10. Entered(book[n], n, present)
  <2> DEFINE Held == {k \in Nat : k <= n => Entered(book[k], k, present)}
  <2>1. 0 \in Held
    BY <1>8
  <2>2. ASSUME NEW k \in Nat, k \in Held
        PROVE  k + 1 \in Held
    <3>1. CASE k + 1 <= n
      <4>1. k + 1 \in 1..n /\ k + 1 - 1 = k
        BY <1>3, <3>1
      <4>2. Entered(book[k], k, present)
        BY <1>3, <2>2, <3>1
      <4> QED
        BY <1>9, <4>1, <4>2
    <3> QED
      BY <1>3, <3>1
  <2>3. n \in Held
    <3> HIDE DEF Held
    <3> QED
      BY <1>3, <2>1, <2>2, Counting
  <2> QED
    BY <1>3, <2>3
<1> QED
  BY <1>3, <1>7, <1>10
-----------------------------------------------------------------------------
(* Charging funding changes nothing a budget or an exit looks at, and it   *)
(* tells no two trades less apart.                                         *)
Charge(t) == [t EXCEPT !.funding = @ + Funding(t)]

LEMMA ChargeFacts ==
    ASSUME NEW t \in TradeType
    PROVE  /\ Charge(t) \in TradeType /\ Charge(t).funding = t.funding + Funding(t)
           /\ Charge(t).symbol = t.symbol /\ Charge(t).entered = t.entered
           /\ Charge(t).direction = t.direction /\ Charge(t).stop = t.stop
           /\ Charge(t).target = t.target /\ Charge(t).sized = t.sized
           /\ Charge(t).commission = t.commission
           /\ RiskCash(Charge(t)) = RiskCash(t) /\ Amount(Charge(t)) = Amount(t)
<1>1. Funding(t) \in Int /\ t.funding \in Int
  BY TradeNumbers DEF TradeType
<1>2. Charge(t) \in TradeType
  BY <1>1 DEF Charge, TradeType
<1> QED
  BY <1>1, <1>2 DEF Charge, TradeType, RiskCash, Amount

LEMMA ChargeIsInjective ==
    ASSUME NEW t \in TradeType, NEW u \in TradeType, Charge(t) = Charge(u)
    PROVE  t = u
<1>1. t.quantity = u.quantity /\ t.entry = u.entry /\ t.direction = u.direction
  BY DEF Charge, TradeType
<1>2. Funding(t) = Funding(u)
  BY <1>1 DEF Funding
<1>3. t.funding = u.funding
  <2>1. t.funding + Funding(t) = u.funding + Funding(u)
    BY ChargeFacts
  <2>2. t.funding \in Int /\ u.funding \in Int /\ Funding(t) \in Int
    BY TradeNumbers DEF TradeType
  <2> QED
    BY <1>2, <2>1, <2>2
<1> QED
  BY <1>3 DEF Charge, TradeType

LEMMA ChargedIs ==
    ASSUME NEW book, book.open \in SUBSET TradeType, NEW present
    PROVE  Charged(book, present) =
               {t \in book.open : t.symbol \notin present}
               \cup {Charge(t) : t \in {o \in book.open : o.symbol \in present}}
BY DEF Charged, Charge

(* The costs of the open trades grow by what is charged.                   *)
LEMMA ChargedCosts ==
    ASSUME NEW book, book.open \in SUBSET TradeType, IsFiniteSet(book.open), NEW present
    PROVE  /\ Charged(book, present) \in SUBSET TradeType
           /\ IsFiniteSet(Charged(book, present))
           /\ FundingPaid(book, present) \in Int
           /\ SumFunctionOnSet(Costs, Charged(book, present))
                  = SumFunctionOnSet(Costs, book.open) + FundingPaid(book, present)
<1>1. PICK P, Q, R, T : /\ P = {o \in book.open : o.symbol \in present}
                        /\ Q = {o \in book.open : o.symbol \notin present}
                        /\ R = {Charge(t) : t \in P}
                        /\ T = book.open
  OBVIOUS
<1>2. Charged(book, present) = Q \cup R
  BY <1>1, ChargedIs
<1>3. P \in SUBSET TradeType /\ Q \in SUBSET TradeType /\ R \in SUBSET TradeType
  BY <1>1, ChargeFacts
<1>4. IsFiniteSet(P) /\ IsFiniteSet(Q) /\ T = P \cup Q /\ P \cap Q = {}
  BY <1>1, FS_Subset
<1>5. Q \cap R = {}
  <2>1. \A t \in P : Charge(t).symbol \in present
    BY <1>1, <1>3, ChargeFacts
  <2> QED
    BY <1>1, <2>1
<1>6. PICK m : m = [t \in P |-> Charge(t)]
  OBVIOUS
<1>7. PICK f : f = [t \in P |-> Costs[t] + Fundings[t]]
  OBVIOUS
<1>8. \A t \in P : /\ Costs[t] \in Int /\ Fundings[t] = Funding(t) /\ Fundings[t] \in Int
                   /\ Costs[Charge(t)] = Costs[t] + Fundings[t]
  <2> SUFFICES ASSUME NEW t \in P
               PROVE  /\ Costs[t] \in Int /\ Fundings[t] = Funding(t) /\ Fundings[t] \in Int
                      /\ Costs[Charge(t)] = Costs[t] + Fundings[t]
    OBVIOUS
  <2>1. t \in TradeType /\ t.commission \in Int /\ t.funding \in Int /\ Funding(t) \in Int
    BY <1>3, TradeNumbers DEF TradeType
  <2>2. Costs[Charge(t)] = t.commission + (t.funding + Funding(t))
    BY <2>1, ChargeFacts DEF Costs
  <2> QED
    BY <2>1, <2>2 DEF Costs, Fundings
<1>9. /\ IntegerOn(f, P) /\ \A t \in P : Costs[m[t]] = f[t]
      /\ \A t, u \in P : m[t] = m[u] => t = u
      /\ R = {m[t] : t \in P}
  <2>1. IntegerOn(f, P)
    BY <1>4, <1>7, <1>8 DEF IntegerOn
  <2>2. \A t \in P : Costs[m[t]] = f[t]
    BY <1>6, <1>7, <1>8
  <2>3. \A t, u \in P : m[t] = m[u] => t = u
    BY <1>3, <1>6, ChargeIsInjective
  <2>4. R = {m[t] : t \in P}
    BY <1>1, <1>6
  <2> QED
    BY <2>1, <2>2, <2>3, <2>4
<1>10. IntegerOn(Costs, R) /\ SumFunctionOnSet(Costs, R) = SumFunctionOnSet(f, P)
  <2>1. IntegerOn(Costs, {m[t] : t \in P})
        /\ SumFunctionOnSet(Costs, {m[t] : t \in P}) = SumFunctionOnSet(f, P)
    BY <1>9, SumOfImage
  <2> QED
    BY <1>9, <2>1
<1>11. IntegerOn(Costs, P) /\ IntegerOn(Fundings, P) /\ IntegerOn(Costs, Q)
       /\ FundingPaid(book, present) = SumFunctionOnSet(Fundings, P)
  BY <1>1, <1>3, <1>4, TradeSums DEF FundingPaid
<1>12. SumFunctionOnSet(f, P) = SumFunctionOnSet(Costs, P) + SumFunctionOnSet(Fundings, P)
  <2>1. \A t \in P : f[t] = Costs[t] + Fundings[t]
    BY <1>7
  <2> QED
    BY <1>11, <2>1, SumOfSum
<1>13. SumFunctionOnSet(Costs, T) = SumFunctionOnSet(Costs, P) + SumFunctionOnSet(Costs, Q)
  BY <1>4, <1>11, SumOfDisjoint
<1>14. SumFunctionOnSet(Costs, Q \cup R) = SumFunctionOnSet(Costs, Q) + SumFunctionOnSet(Costs, R)
  BY <1>5, <1>10, <1>11, SumOfDisjoint
<1>15. SumFunctionOnSet(Costs, P) \in Int /\ SumFunctionOnSet(Costs, Q) \in Int
       /\ SumFunctionOnSet(Fundings, P) \in Int
  BY <1>11, SumIsInteger
<1>16. IsFiniteSet(Q \cup R)
  BY <1>4, <1>10, FS_Union DEF IntegerOn
<1> QED
  BY <1>1, <1>2, <1>3, <1>10, <1>11, <1>12, <1>13, <1>14, <1>15, <1>16
-----------------------------------------------------------------------------
(* The trades that close: what they are credited with and what they cost   *)
(* before is what they realized.                                           *)
ClosedOf(c, t) ==
    /\ c \in ClosedType /\ c.trade = t
    /\ c.realized = c.credit - t.commission - t.funding

LEMMA ClosedFacts ==
    ASSUME NEW t \in TradeType, NEW reason \in {"STOP_LOSS", "TAKE_PROFIT", "END_OF_TEST"},
           NEW price \in Int, NEW at \in Nat
    PROVE  /\ ClosedOf(Closed(t, reason, price, at), t)
           /\ Closed(t, reason, price, at).reason = reason
           /\ Closed(t, reason, price, at).exited = at
<1>1. PICK c : c = Closed(t, reason, price, at)
  OBVIOUS
<1>2. PICK exit, fee, gross : /\ exit = ExitPrice(t.direction, price)
                              /\ fee = Commission(Amount(t)) /\ gross = Gross(t, exit)
  OBVIOUS
<1>3. c = [trade |-> t, reason |-> reason, exited |-> at, credit |-> gross - fee,
           realized |-> gross - t.commission - fee - t.funding]
  BY <1>1, <1>2 DEF Closed
<1>4. exit \in Int /\ fee \in Int /\ t.commission \in Int /\ t.funding \in Int
      /\ t.quantity \in Int /\ t.entry \in Int
  BY <1>2, TradeNumbers DEF ExitPrice, TradeType
<1>5. gross \in Int
  <2>1. \A a, b \in Int : a * b \in Int
    OBVIOUS
  <2>2. exit - t.entry \in Int /\ t.entry - exit \in Int
    BY <1>4
  <2> QED
    BY <1>2, <1>4, <2>1, <2>2 DEF Gross
<1>6. /\ gross - fee \in Int /\ gross - t.commission - fee - t.funding \in Int
      /\ gross - t.commission - fee - t.funding = gross - fee - t.commission - t.funding
  BY <1>4, <1>5
<1>7. c \in ClosedType
  BY <1>3, <1>6 DEF ClosedType
<1>8. c.trade = t /\ c.reason = reason /\ c.exited = at /\ c.credit = gross - fee
      /\ c.realized = gross - t.commission - fee - t.funding
  BY <1>3
<1> QED
  BY <1>1, <1>6, <1>7, <1>8 DEF ClosedOf

Closes(C, E, m) == C = {m[t] : t \in E} /\ \A t \in E : ClosedOf(m[t], t)

LEMMA ClosedResults ==
    ASSUME NEW E \in SUBSET TradeType, IsFiniteSet(E), NEW m, NEW C, Closes(C, E, m)
    PROVE  /\ C \in SUBSET ClosedType /\ IsFiniteSet(C) /\ Credit(C) \in Int
           /\ SumFunctionOnSet(Costs, E) \in Int
           /\ SumFunctionOnSet(Results, C) = Credit(C) - SumFunctionOnSet(Costs, E)
<1> USE DEF Closes
<1>1. PICK f, g : f = [t \in E |-> m[t].realized] /\ g = [t \in E |-> m[t].credit]
  OBVIOUS
<1>2. \A t \in E : /\ f[t] \in Int /\ g[t] \in Int /\ Costs[t] \in Int
                   /\ Results[m[t]] = f[t] /\ Credits[m[t]] = g[t]
                   /\ g[t] = f[t] + Costs[t] /\ m[t] \in ClosedType
  <2> SUFFICES ASSUME NEW t \in E
               PROVE  /\ f[t] \in Int /\ g[t] \in Int /\ Costs[t] \in Int
                      /\ Results[m[t]] = f[t] /\ Credits[m[t]] = g[t]
                      /\ g[t] = f[t] + Costs[t] /\ m[t] \in ClosedType
    OBVIOUS
  <2>1. /\ m[t] \in ClosedType /\ m[t].credit \in Int /\ m[t].realized \in Int
        /\ m[t].realized = m[t].credit - t.commission - t.funding
    BY DEF ClosedOf, ClosedType
  <2>2. t \in TradeType /\ t.commission \in Int /\ t.funding \in Int
    BY DEF TradeType
  <2>3. Costs[t] = t.commission + t.funding
    BY <2>2 DEF Costs
  <2> QED
    BY <1>1, <2>1, <2>2, <2>3 DEF Results, Credits
<1>3. \A t, u \in E : m[t] = m[u] => t = u
  BY DEF ClosedOf
<1>4. IntegerOn(f, E) /\ IntegerOn(g, E) /\ IntegerOn(Costs, E)
  BY <1>2 DEF IntegerOn
<1>5. IntegerOn(Results, C) /\ SumFunctionOnSet(Results, C) = SumFunctionOnSet(f, E)
  <2>1. \A t \in E : Results[m[t]] = f[t]
    BY <1>2
  <2>2. IntegerOn(Results, {m[t] : t \in E})
        /\ SumFunctionOnSet(Results, {m[t] : t \in E}) = SumFunctionOnSet(f, E)
    BY <1>3, <1>4, <2>1, SumOfImage
  <2> QED
    BY <1>1, <2>2
<1>6. SumFunctionOnSet(Credits, C) = SumFunctionOnSet(g, E)
  <2>1. \A t \in E : Credits[m[t]] = g[t]
    BY <1>2
  <2>2. SumFunctionOnSet(Credits, {m[t] : t \in E}) = SumFunctionOnSet(g, E)
    BY <1>3, <1>4, <2>1, SumOfImage
  <2> QED
    BY <1>1, <2>2
<1>7. SumFunctionOnSet(g, E) = SumFunctionOnSet(f, E) + SumFunctionOnSet(Costs, E)
  <2>1. \A t \in E : g[t] = f[t] + Costs[t]
    BY <1>2
  <2> QED
    BY <1>4, <2>1, SumOfSum
<1>8. C \in SUBSET ClosedType /\ IsFiniteSet(C)
  BY <1>1, <1>2, <1>5 DEF IntegerOn
<1>9. Credit(C) = SumFunctionOnSet(Credits, C)
  BY <1>8, ClosedSums
<1>10. SumFunctionOnSet(f, E) \in Int /\ SumFunctionOnSet(g, E) \in Int
       /\ SumFunctionOnSet(Costs, E) \in Int
  BY <1>4, SumIsInteger
<1> QED
  BY <1>1, <1>5, <1>6, <1>7, <1>8, <1>9, <1>10

(* Closing the trades of E, all of them open, keeps the books.             *)
ClosesAmong(C, E, m, O, R, H, G) ==
    /\ O \in SUBSET TradeType /\ IsFiniteSet(O)
    /\ E \in SUBSET O /\ R = O \ E /\ Closes(C, E, m)
    /\ H \in SUBSET ClosedType /\ IsFiniteSet(H) /\ H \cap C = {} /\ G = H \cup C

LEMMA BooksAfterClosing ==
    ASSUME NEW C, NEW E, NEW m, NEW O, NEW R, NEW H, NEW G, ClosesAmong(C, E, m, O, R, H, G)
    PROVE  /\ G \in SUBSET ClosedType /\ IsFiniteSet(G) /\ Credit(C) \in Int
           /\ SumFunctionOnSet(Results, G) - SumFunctionOnSet(Costs, R)
              = SumFunctionOnSet(Results, H) - SumFunctionOnSet(Costs, O) + Credit(C)
<1> USE DEF ClosesAmong
<1>1. E \in SUBSET TradeType /\ IsFiniteSet(E) /\ R \in SUBSET TradeType /\ IsFiniteSet(R)
      /\ O = E \cup R /\ E \cap R = {} /\ H \cap C = {}
  BY FS_Subset
<1>2. /\ C \in SUBSET ClosedType /\ IsFiniteSet(C) /\ Credit(C) \in Int
      /\ SumFunctionOnSet(Results, C) = Credit(C) - SumFunctionOnSet(Costs, E)
  BY <1>1, ClosedResults
<1>3. SumFunctionOnSet(Costs, O) = SumFunctionOnSet(Costs, E) + SumFunctionOnSet(Costs, R)
  <2>1. IntegerOn(Costs, E) /\ IntegerOn(Costs, R)
    BY <1>1, TradeSums
  <2> QED
    BY <1>1, <2>1, SumOfDisjoint
<1>4. SumFunctionOnSet(Results, G)
          = SumFunctionOnSet(Results, H) + SumFunctionOnSet(Results, C)
  <2>1. IntegerOn(Results, H) /\ IntegerOn(Results, C)
    BY <1>2, ClosedSums
  <2> QED
    BY <1>1, <2>1, SumOfDisjoint
<1>5. /\ SumFunctionOnSet(Costs, E) \in Int /\ SumFunctionOnSet(Costs, R) \in Int
      /\ SumFunctionOnSet(Results, H) \in Int
  <2>1. IntegerOn(Costs, E) /\ IntegerOn(Costs, R) /\ IntegerOn(Results, H)
    BY <1>1, TradeSums, ClosedSums
  <2> QED
    BY <2>1, SumIsInteger
<1>6. G \in SUBSET ClosedType /\ IsFiniteSet(G)
  BY <1>2, FS_Union
<1> QED
  BY <1>2, <1>3, <1>4, <1>5, <1>6
-----------------------------------------------------------------------------
(* A bar charges the trades of its symbols: the same trades otherwise.     *)
ChargedAt(T, present) == [t \in T |-> IF t.symbol \in present THEN Charge(t) ELSE t]

LEMMA ChargedAtFacts ==
    ASSUME NEW T \in SUBSET TradeType, NEW present, NEW m, m = ChargedAt(T, present),
           NEW t \in T
    PROVE  /\ m[t] \in TradeType
           /\ m[t].symbol = t.symbol /\ m[t].entered = t.entered
           /\ m[t].direction = t.direction /\ m[t].stop = t.stop
           /\ m[t].target = t.target /\ m[t].sized = t.sized
           /\ RiskCash(m[t]) = RiskCash(t) /\ Amount(m[t]) = Amount(t)
<1>1. t \in TradeType /\ m[t] = IF t.symbol \in present THEN Charge(t) ELSE t
  BY DEF ChargedAt
<1> QED
  BY <1>1, ChargeFacts

LEMMA ChargedAtIsInjective ==
    ASSUME NEW T \in SUBSET TradeType, NEW present, NEW m, m = ChargedAt(T, present),
           NEW t \in T, NEW u \in T, m[t] = m[u]
    PROVE  t = u
<1>1. t \in TradeType /\ u \in TradeType /\ t.symbol = u.symbol
  <2>1. m[t].symbol = t.symbol /\ m[u].symbol = u.symbol
    BY ChargedAtFacts
  <2> QED
    BY <2>1
<1>2. CASE t.symbol \in present
  <2>1. Charge(t) = Charge(u)
    BY <1>1, <1>2 DEF ChargedAt
  <2> QED
    BY <1>1, <2>1, ChargeIsInjective
<1>3. CASE t.symbol \notin present
  BY <1>1, <1>3 DEF ChargedAt
<1> QED
  BY <1>2, <1>3

LEMMA ChargedIsImage ==
    ASSUME NEW book, book.open \in SUBSET TradeType, NEW present
    PROVE  Charged(book, present)
               = {ChargedAt(book.open, present)[t] : t \in book.open}
<1> DEFINE T == book.open
           m == ChargedAt(T, present)
<1>1. Charged(book, present) = {t \in T : t.symbol \notin present}
                               \cup {Charge(t) : t \in {o \in T : o.symbol \in present}}
  BY ChargedIs
<1>2. \A t \in T : m[t] = IF t.symbol \in present THEN Charge(t) ELSE t
  BY DEF ChargedAt
<1> QED
  BY <1>1, <1>2

(* A sum of what charging does not change, over part of the trades.        *)
Unchanging(f, T, m) == /\ \A t \in TradeType : f[t] \in Nat
                       /\ \A t \in T : f[m[t]] = f[t]

LEMMA SumOfChargedPart ==
    ASSUME NEW T \in SUBSET TradeType, IsFiniteSet(T), NEW present,
           NEW m, m = ChargedAt(T, present), NEW A \in SUBSET T, NEW B \in SUBSET A,
           NEW E, E = {m[t] : t \in B}, NEW f, Unchanging(f, T, m)
    PROVE  /\ SumFunctionOnSet(f, E) <= SumFunctionOnSet(f, A)
           /\ SumFunctionOnSet(f, E) \in Int /\ SumFunctionOnSet(f, A) \in Int
           /\ IsFiniteSet(E)
<1>1. IntegerOn(f, A) /\ IntegerOn(f, B)
  <2>1. IsFiniteSet(A) /\ IsFiniteSet(B)
    BY FS_Subset
  <2>2. \A t \in A : f[t] \in Int
    BY DEF Unchanging
  <2> QED
    BY <2>1, <2>2 DEF IntegerOn
<1>2. SumFunctionOnSet(f, E) = SumFunctionOnSet(f, B) /\ IntegerOn(f, E)
  <2>1. \A t \in B : f[m[t]] = f[t]
    BY DEF Unchanging
  <2>2. \A t, u \in B : m[t] = m[u] => t = u
    <3> SUFFICES ASSUME NEW t \in B, NEW u \in B, m[t] = m[u]
                 PROVE  t = u
      OBVIOUS
    <3> QED
      BY ChargedAtIsInjective
  <2> QED
    BY <1>1, <2>1, <2>2, SumOfImage
<1>3. SumFunctionOnSet(f, B) <= SumFunctionOnSet(f, A)
  <2>1. \A t \in A : f[t] >= 0
    BY DEF Unchanging
  <2> QED
    BY <1>1, <2>1, SumOfPart
<1> QED
  BY <1>1, <1>2, <1>3, SumIsInteger DEF IntegerOn

(* The budgets of the trades are those of what is left of them, charged.   *)
LEMMA BudgetsOfCharged ==
    ASSUME NEW T \in SUBSET TradeType, IsFiniteSet(T), Budgeted(T), NEW present,
           NEW m, m = ChargedAt(T, present), NEW D \in SUBSET T
    PROVE  Budgeted({m[t] : t \in D})
<1>1. PICK C : C = {m[t] : t \in D}
  OBVIOUS
<1> SUFFICES ASSUME NEW x \in D
             PROVE  Affords(m[x], {o \in C : Before(o, m[x])})
  BY <1>1 DEF Budgeted
<1>2. \A t \in T : /\ m[t] \in TradeType /\ m[t].symbol = t.symbol
                   /\ m[t].entered = t.entered /\ m[t].sized = t.sized
                   /\ RiskCash(m[t]) = RiskCash(t) /\ Amount(m[t]) = Amount(t)
  BY ChargedAtFacts
<1>3. \A o \in D : Before(m[o], m[x]) <=> Before(o, x)
  BY <1>2 DEF Before
<1>4. PICK A, B, E : /\ A = {o \in T : Before(o, x)} /\ B = {o \in D : Before(o, x)}
                     /\ E = {o \in C : Before(o, m[x])}
  OBVIOUS
<1>5. E = {m[o] : o \in B}
  BY <1>1, <1>3, <1>4
<1>6. Affords(x, A)
  BY <1>4 DEF Budgeted
<1>7. PICK A1, B1, E1 : A1 = A \cup {x} /\ B1 = B \cup {x} /\ E1 = E \cup {m[x]}
  OBVIOUS
<1>8. E1 = {m[o] : o \in B1} /\ A1 \in SUBSET T /\ B1 \in SUBSET A1
  BY <1>4, <1>5, <1>7
<1>9. /\ SumFunctionOnSet(Risks, E1) <= SumFunctionOnSet(Risks, A1)
      /\ SumFunctionOnSet(Risks, E1) \in Int /\ SumFunctionOnSet(Risks, A1) \in Int
      /\ IsFiniteSet(E1)
  <2>1. Unchanging(Risks, T, m)
    BY <1>2, TradeNumbers DEF Unchanging, Risks
  <2> QED
    BY <1>8, <2>1, SumOfChargedPart
<1>10. /\ SumFunctionOnSet(Amounts, E1) <= SumFunctionOnSet(Amounts, A1)
       /\ SumFunctionOnSet(Amounts, E1) \in Int /\ SumFunctionOnSet(Amounts, A1) \in Int
  <2>1. Unchanging(Amounts, T, m)
    BY <1>2, TradeNumbers DEF Unchanging, Amounts
  <2> QED
    BY <1>8, <2>1, SumOfChargedPart
<1>11. /\ OpenRisk(E1) <= OpenRisk(A1) /\ OpenRisk(E1) \in Int /\ OpenRisk(A1) \in Int
       /\ OpenAmount(E1) <= OpenAmount(A1) /\ OpenAmount(E1) \in Int
       /\ OpenAmount(A1) \in Int
  <2>1. IsFiniteSet(A1) /\ A1 \in SUBSET TradeType
    BY <1>8, FS_Subset
  <2>2. B1 \subseteq T
    BY <1>8
  <2>3. E1 \in SUBSET TradeType
    BY <1>2, <1>8, <2>2
  <2> QED
    BY <1>9, <1>10, <2>1, <2>3, TradeSums
<1>12. /\ m[x].sized = x.sized /\ Percent(x.sized, 3) \in Int /\ Percent(x.sized, 50) \in Int
  <2>1. x.sized \in Int
    BY DEF TradeType
  <2> QED
    BY <1>2, <2>1 DEF Percent
<1>13. /\ OpenRisk(E1) <= Percent(m[x].sized, 3)
       /\ OpenAmount(E1) <= Percent(m[x].sized, 50)
  <2>1. OpenRisk(A1) <= Percent(x.sized, 3) /\ OpenAmount(A1) <= Percent(x.sized, 50)
    BY <1>6, <1>7 DEF Affords
  <2> QED
    BY <1>11, <1>12, <2>1
<1>14. ASSUME Portfolio, NEW u \in E
       PROVE  /\ u.symbol # m[x].symbol
              /\ RiskCash(m[x]) + Percent(RiskCash(u), Correlation[{u.symbol, m[x].symbol}])
                     <= Percent(m[x].sized, 2)
  <2>1. PICK o \in B : u = m[o]
    BY <1>5
  <2>2. o \in A /\ o \in T
    BY <1>4
  <2>3. /\ o.symbol # x.symbol
        /\ RiskCash(x) + Percent(RiskCash(o), Correlation[{o.symbol, x.symbol}])
               <= Percent(x.sized, 2)
    BY <1>6, <1>14, <2>2 DEF Affords
  <2>4. u.symbol = o.symbol /\ RiskCash(u) = RiskCash(o) /\ m[x].symbol = x.symbol
        /\ RiskCash(m[x]) = RiskCash(x) /\ m[x].sized = x.sized
    BY <1>2, <2>1, <2>2
  <2> QED
    BY <2>3, <2>4
<1> QED
  BY <1>4, <1>7, <1>13, <1>14 DEF Affords
-----------------------------------------------------------------------------
(* The cursor finds the first candle that is not complete.                 *)
LEMMA AdvanceFinds ==
    ASSUME NEW rows \in Seq(Int), NEW index \in 0..Len(rows), NEW duration \in Int,
           NEW decision \in Int, NEW i, i = Advance(rows, index, duration, decision)
    PROVE  /\ i \in index..Len(rows)
           /\ \A k \in (index + 1)..i : rows[k] + duration <= decision
           /\ i < Len(rows) => rows[i + 1] + duration > decision
<1> DEFINE Found(j) == /\ \A k \in (index + 1)..j : rows[k] + duration <= decision
                       /\ j < Len(rows) => rows[j + 1] + duration > decision
<1>1. \E j \in index..Len(rows) : Found(j)
  <2> SUFFICES ASSUME \A j \in index..Len(rows) : ~Found(j)
               PROVE  FALSE
    OBVIOUS
  <2> DEFINE Good == {n \in Nat : index + n <= Len(rows) =>
                          \A k \in (index + 1)..(index + n) : rows[k] + duration <= decision}
  <2>1. 0 \in Good
    OBVIOUS
  <2>2. ASSUME NEW n \in Nat, n \in Good
        PROVE  n + 1 \in Good
    <3> SUFFICES ASSUME index + n + 1 <= Len(rows)
                 PROVE  \A k \in (index + 1)..(index + n + 1) : rows[k] + duration <= decision
      BY <2>2
    <3>1. index + n \in index..Len(rows) /\ index + n < Len(rows) /\ index + n + 1 \in 1..Len(rows)
      OBVIOUS
    <3>2. \A k \in (index + 1)..(index + n) : rows[k] + duration <= decision
      BY <2>2, <3>1
    <3>3. ~(rows[index + n + 1] + duration > decision)
      BY <3>1, <3>2
    <3>4. rows[index + n + 1] \in Int
      BY <3>1
    <3> QED
      BY <3>2, <3>3, <3>4
  <2>3. Nat \subseteq Good
    <3> HIDE DEF Good
    <3> QED
      BY <2>1, <2>2, Counting
  <2>4. Len(rows) - index \in Nat /\ index + (Len(rows) - index) = Len(rows)
    OBVIOUS
  <2>5. Found(Len(rows))
    <3>1. Len(rows) - index \in Good
      BY <2>3, <2>4
    <3> QED
      BY <2>4, <3>1
  <2> QED
    BY <2>4, <2>5
<1> QED
  BY <1>1 DEF Advance

(* Of sorted candles the complete ones are the first: as many as the       *)
(* cursor pushed, if it pushed complete ones only.                         *)
LEMMA AdvanceCounts ==
    ASSUME NEW rows \in Seq(Int), \A i, j \in DOMAIN rows : i <= j => rows[i] <= rows[j],
           NEW index \in 0..Len(rows), NEW duration \in Int, NEW decision \in Int,
           \A k \in 1..index : rows[k] + duration <= decision,
           NEW i, i = Advance(rows, index, duration, decision)
    PROVE  /\ i \in 0..Len(rows) /\ \A k \in 1..i : rows[k] + duration <= decision
           /\ i = CompletedAt(rows, duration, decision)
<1>1. /\ i \in index..Len(rows)
      /\ \A k \in (index + 1)..i : rows[k] + duration <= decision
      /\ i < Len(rows) => rows[i + 1] + duration > decision
  BY AdvanceFinds
<1>2. DOMAIN rows = 1..Len(rows) /\ \A k \in 1..Len(rows) : rows[k] \in Int
  OBVIOUS
<1>3. i \in Nat /\ i <= Len(rows)
  BY <1>1
<1>4. \A k \in 1..i : rows[k] + duration <= decision
  <2> SUFFICES ASSUME NEW k \in 1..i
               PROVE  rows[k] + duration <= decision
    OBVIOUS
  <2>1. k \in 1..index \/ k \in (index + 1)..i
    BY <1>3
  <2> QED
    BY <1>1, <2>1
<1>5. \A k \in DOMAIN rows : rows[k] + duration <= decision => k \in 1..i
  <2> SUFFICES ASSUME NEW k \in 1..Len(rows), rows[k] + duration <= decision, ~(k \in 1..i)
               PROVE  FALSE
    BY <1>2
  <2>1. i < Len(rows) /\ i + 1 \in 1..Len(rows) /\ i + 1 <= k
    BY <1>3
  <2>2. rows[i + 1] <= rows[k]
    BY <1>2, <2>1
  <2> QED
    BY <1>1, <1>2, <2>1, <2>2
<1>6. PICK S : S = {k \in DOMAIN rows : rows[k] + duration <= decision}
  OBVIOUS
<1>7. S = 1..i
  <2>1. 1..i \subseteq DOMAIN rows
    BY <1>2, <1>3
  <2> QED
    BY <1>4, <1>5, <1>6, <2>1
<1>8. Cardinality(S) = i
  BY <1>3, <1>7, FS_Interval
<1>9. CompletedAt(rows, duration, decision) = Cardinality(S)
  BY <1>6 DEF CompletedAt
<1> QED
  BY <1>3, <1>4, <1>8, <1>9
-----------------------------------------------------------------------------
(* A bar comes, after all there were.                                      *)
LEMMA BarArrives ==
    ASSUME Typed, NEW present, NEW shape \in Shapes, ProcessBar(present, shape)
    PROVE  /\ now \in Nat /\ now' = now + 1 /\ present \subseteq Names
           /\ feed' \in [Names -> Seq(BarType)]
           /\ \A s \in Names :
                 /\ s \in present => /\ Bar(s) \in BarType /\ Bar(s).at = now + 1
                                     /\ ToSet(feed'[s]) = ToSet(feed[s]) \cup {Bar(s)}
                                     /\ feed'[s] # << >> /\ Len(feed'[s]) = Len(feed[s]) + 1
                                     /\ Len(feed'[s]) = Len(feed[s]) + 1
                 /\ s \notin present => feed'[s] = feed[s]
<1>1. now \in Nat /\ now' = now + 1 /\ present = config.calendar[now + 1] /\ now < Length
  BY DEF ProcessBar, Typed
<1>2. present \subseteq Names
  <2>1. now + 1 \in 1..Len(config.calendar)
    BY <1>1, ConfigFacts DEF Length
  <2> QED
    BY <1>1, <2>1, ConfigFacts
<1>3. PICK bar : bar = At(now + 1, shape)
  OBVIOUS
<1>4. bar \in BarType /\ bar.at = now + 1
  BY <1>1, <1>3, ShapesAssumption DEF At, BarType
<1>5. feed' = [s \in Names |-> IF s \in present THEN Append(feed[s], bar) ELSE feed[s]]
  BY <1>3 DEF ProcessBar, Typed
<1>6. ASSUME NEW s \in Names, s \in present
      PROVE  /\ Bar(s) = bar /\ ToSet(feed'[s]) = ToSet(feed[s]) \cup {bar}
             /\ feed'[s] # << >> /\ Len(feed'[s]) = Len(feed[s]) + 1
  <2>1. PICK f, g : f = feed[s] /\ g = Append(f, bar) /\ f \in Seq(BarType)
    BY DEF Typed
  <2>2. feed'[s] = g
    BY <1>5, <1>6, <2>1
  <2>3. /\ g \in Seq(BarType) /\ Len(f) \in Nat /\ Len(g) = Len(f) + 1
        /\ g[Len(f) + 1] = bar /\ \A k \in 1..Len(f) : g[k] = f[k]
        /\ DOMAIN g = 1..Len(f) + 1 /\ DOMAIN f = 1..Len(f)
    BY <1>4, <2>1
  <2>4. Last(g) = bar
    BY <2>3 DEF Last
  <2>5. ToSet(g) = ToSet(f) \cup {bar}
    <3>1. \A k \in 1..Len(f) + 1 : k \in 1..Len(f) \/ k = Len(f) + 1
      BY <2>3
    <3>2. \A k \in 1..Len(f) : k \in 1..Len(f) + 1
      BY <2>3
    <3>3. Len(f) + 1 \in 1..Len(f) + 1
      BY <2>3
    <3> QED
      BY <2>3, <3>1, <3>2, <3>3 DEF ToSet
  <2>6. g # << >>
    BY <2>3
  <2> QED
    BY <2>1, <2>2, <2>3, <2>4, <2>5, <2>6 DEF Bar
<1>7. feed' \in [Names -> Seq(BarType)]
  BY <1>4, <1>5 DEF Typed
<1>8. \A s \in Names : s \notin present => feed'[s] = feed[s]
  BY <1>5
<1> QED
  BY <1>1, <1>2, <1>4, <1>6, <1>7, <1>8

LEMMA ClosedAtBarFacts ==
    ASSUME NEW present, NEW O \in SUBSET TradeType, NEW t \in Exits(O, present), now' \in Nat
    PROVE  /\ ClosedOf(ClosedAtBar(t), t) /\ ClosedAtBar(t).exited = now'
           /\ ClosedAtBar(t).reason = IntrabarExit(t, Bar(t.symbol))
           /\ ClosedAtBar(t).reason \in {"STOP_LOSS", "TAKE_PROFIT"}
<1>1. PICK reason : reason = IntrabarExit(t, Bar(t.symbol))
  OBVIOUS
<1>2. t \in TradeType /\ reason \in {"STOP_LOSS", "TAKE_PROFIT"}
  BY <1>1 DEF Exits, IntrabarExit
<1>3. PICK price : price = IF reason = "STOP_LOSS" THEN t.stop ELSE t.target
  OBVIOUS
<1>4. price \in Int
  BY <1>2, <1>3 DEF TradeType
<1>5. ClosedAtBar(t) = Closed(t, reason, price, now')
  BY <1>1, <1>3 DEF ClosedAtBar
<1>6. reason \in {"STOP_LOSS", "TAKE_PROFIT", "END_OF_TEST"}
  BY <1>2
<1> QED
  BY <1>1, <1>2, <1>4, <1>5, <1>6, ClosedFacts

LEMMA SameExit ==
    ASSUME NEW t, NEW u, t.direction = u.direction, t.stop = u.stop, t.target = u.target
    PROVE  \A b : /\ IntrabarExit(t, b) = IntrabarExit(u, b)
                  /\ Stopped(t, b) <=> Stopped(u, b)
BY DEF IntrabarExit, Stopped, Reached

(* What a bar does to the books: the trades T that it finds after the      *)
(* entries are charged by m, and those of E close as C.                    *)
Settlement(present, book, T, m, E, C) ==
    /\ book = EnterAll(present) /\ T = book.open /\ m = ChargedAt(T, present)
    /\ Entered(book, Len(Traded), present)
    /\ T \in SUBSET TradeType /\ IsFiniteSet(T)
    /\ {m[t] : t \in T} \in SUBSET TradeType /\ IsFiniteSet({m[t] : t \in T})
    /\ Charged(book, present) = {m[t] : t \in T}
    /\ E = Exits({m[t] : t \in T}, present) /\ C = {ClosedAtBar(t) : t \in E}
    /\ open' = {m[t] : t \in T} \ E /\ trades' = trades \cup C
    /\ equity' = book.equity - FundingPaid(book, present) + Credit(C)

LEMMA BarSettles ==
    ASSUME Typed, Dated, WithinBudgets,
           NEW present, NEW shape \in Shapes, ProcessBar(present, shape)
    PROVE  \E book, T, m, E, C : Settlement(present, book, T, m, E, C)
<1>1. PICK book : book = EnterAll(present)
  OBVIOUS
<1>2. Entered(book, Len(Traded), present)
  <2>1. now' = now + 1 /\ ~BudgetRaises(present)
    BY DEF ProcessBar
  <2>2. \A s \in Names : s \in present => Bar(s) \in BarType
    BY BarArrives
  <2> QED
    BY <1>1, <2>1, <2>2, AllEntered
<1>3. PICK T, m, E, C : /\ T = book.open /\ m = ChargedAt(T, present)
                        /\ E = Exits({m[t] : t \in T}, present)
                        /\ C = {ClosedAtBar(t) : t \in E}
  OBVIOUS
<1>4. T \in SUBSET TradeType /\ IsFiniteSet(T)
  BY <1>2, <1>3 DEF Entered
<1>5. Charged(book, present) = {m[t] : t \in T}
  <2>1. T = book.open /\ m = ChargedAt(T, present)
    BY <1>3
  <2> QED
    BY <1>4, <2>1, ChargedIsImage
<1>6. {m[t] : t \in T} \in SUBSET TradeType /\ IsFiniteSet({m[t] : t \in T})
  <2>1. Charged(book, present) \in SUBSET TradeType /\ IsFiniteSet(Charged(book, present))
    BY <1>3, <1>4, ChargedCosts
  <2> QED
    BY <1>5, <2>1
<1>7. /\ open' = Charged(book, present) \ Exits(Charged(book, present), present)
      /\ trades' = trades \cup {ClosedAtBar(t) : t \in Exits(Charged(book, present), present)}
      /\ equity' = book.equity - FundingPaid(book, present)
                   + Credit({ClosedAtBar(t) : t \in Exits(Charged(book, present), present)})
  BY <1>1 DEF ProcessBar
<1>8. Settlement(present, book, T, m, E, C)
  BY <1>1, <1>2, <1>3, <1>4, <1>5, <1>6, <1>7 DEF Settlement
<1> QED
  BY <1>8

(* The books balance after a bar.                                          *)
LEMMA BarKeepsBooks ==
    ASSUME Typed, Dated, Conservation,
           NEW present, NEW shape \in Shapes, ProcessBar(present, shape),
           NEW book, NEW T, NEW m, NEW E, NEW C, Settlement(present, book, T, m, E, C)
    PROVE  /\ equity' \in Int /\ open' \in SUBSET TradeType /\ IsFiniteSet(open')
           /\ trades' \in SUBSET ClosedType /\ IsFiniteSet(trades')
           /\ Conservation'
<1>1. PICK O : O = {m[t] : t \in T}
  OBVIOUS
<1>2. O \in SUBSET TradeType /\ IsFiniteSet(O) /\ E = Exits(O, present)
      /\ E \in SUBSET O /\ open' = O \ E /\ trades' = trades \cup C
      /\ equity' = book.equity - FundingPaid(book, present) + Credit(C)
  BY <1>1 DEF Settlement, Exits
<1>3. PICK c, R, G : c = [t \in E |-> ClosedAtBar(t)] /\ R = O \ E /\ G = trades \cup C
  OBVIOUS
<1>4. C = {c[t] : t \in E}
  BY <1>3 DEF Settlement
<1>5. now \in Nat /\ now' = now + 1
  BY BarArrives
<1>6. \A t \in E : ClosedOf(c[t], t) /\ c[t].exited = now + 1
  BY <1>2, <1>3, <1>5, ClosedAtBarFacts
<1>7. trades \cap C = {}
  <2>1. \A d \in trades : d.exited \in Nat /\ d.exited <= now
    BY DEF Typed, Dated, ClosedType
  <2>2. \A d \in trades : d.exited # now + 1
    BY <1>5, <2>1
  <2> QED
    BY <1>4, <1>6, <2>2
<1>8. /\ G \in SUBSET ClosedType /\ IsFiniteSet(G)
      /\ Credit(C) \in Int
      /\ SumFunctionOnSet(Results, G) - SumFunctionOnSet(Costs, R)
         = SumFunctionOnSet(Results, trades) - SumFunctionOnSet(Costs, O) + Credit(C)
  <2>1. trades \in SUBSET ClosedType /\ IsFiniteSet(trades)
    BY DEF Typed
  <2>2. Closes(C, E, c)
    BY <1>4, <1>6 DEF Closes
  <2>3. ClosesAmong(C, E, c, O, R, trades, G)
    BY <1>2, <1>3, <1>7, <2>1, <2>2 DEF ClosesAmong
  <2> QED
    BY <2>3, BooksAfterClosing
<1>9. open' \in SUBSET TradeType /\ IsFiniteSet(open')
      /\ trades' \in SUBSET ClosedType /\ IsFiniteSet(trades')
  BY <1>2, <1>3, <1>8, FS_Subset
<1>10. /\ FundingPaid(book, present) \in Int
       /\ SumFunctionOnSet(Costs, O)
              = SumFunctionOnSet(Costs, T) + FundingPaid(book, present)
  <2>1. T = book.open /\ T \in SUBSET TradeType /\ IsFiniteSet(T)
        /\ Charged(book, present) = O
    BY <1>1 DEF Settlement
  <2> QED
    BY <2>1, ChargedCosts
<1>11. /\ book.equity \in Int
       /\ book.equity + SumFunctionOnSet(Costs, T) = equity + SumFunctionOnSet(Costs, open)
  BY DEF Settlement, Entered
<1>12. equity = Initial + SumFunctionOnSet(Results, trades) - SumFunctionOnSet(Costs, open)
  BY TradeSums, ClosedSums DEF Conservation, Typed
<1>13. /\ SumFunctionOnSet(Costs, T) \in Int /\ SumFunctionOnSet(Costs, open) \in Int
       /\ SumFunctionOnSet(Costs, R) \in Int
       /\ SumFunctionOnSet(Results, trades) \in Int
       /\ SumFunctionOnSet(Results, G) \in Int
  <2>1. IntegerOn(Costs, T) /\ IntegerOn(Costs, open) /\ IntegerOn(Costs, R)
    BY <1>2, <1>3, <1>9, TradeSums DEF Settlement, Typed
  <2>2. IntegerOn(Results, trades) /\ IntegerOn(Results, G)
    BY <1>8, ClosedSums DEF Typed
  <2> QED
    BY <2>1, <2>2, SumIsInteger
<1>14. equity' = Initial + SumFunctionOnSet(Results, G)
                         - SumFunctionOnSet(Costs, R)
  BY <1>2, <1>8, <1>10, <1>11, <1>12, <1>13, NumbersAssumption
<1>15. /\ SumFunction([x \in trades' |-> x.realized]) = SumFunctionOnSet(Results, trades')
       /\ SumFunction([t \in open' |-> t.commission + t.funding])
              = SumFunctionOnSet(Costs, open')
  BY <1>9, TradeSums, ClosedSums
<1>16. Conservation'
  BY <1>2, <1>3, <1>14, <1>15 DEF Conservation
<1>17. equity' \in Int
  BY <1>2, <1>8, <1>10, <1>11
<1> QED
  BY <1>9, <1>16, <1>17

(* What a bar leaves open is what the book had, charged, and not an exit.  *)
LEMMA WhatIsOpen ==
    ASSUME NEW present, NEW book, NEW T, NEW m, NEW E, NEW C,
           Settlement(present, book, T, m, E, C)
    PROVE  /\ open \subseteq T
           /\ \A t \in T \ open : t.entered = now + 1 /\ t.symbol \in present
           /\ \A t \in T : /\ t \in TradeType /\ m[t] \in TradeType
                           /\ m[t].symbol = t.symbol /\ m[t].entered = t.entered
                           /\ m[t].direction = t.direction /\ m[t].stop = t.stop
                           /\ m[t].target = t.target
           /\ open' = {m[t] : t \in {x \in T : m[x] \notin E}}
           /\ E \subseteq {m[t] : t \in T}
           /\ \A x \in {m[t] : t \in T} :
                 x \in E <=> x.symbol \in present /\ IntrabarExit(x, Bar(x.symbol)) # "NONE"
<1>1. /\ open \subseteq T
      /\ \A t \in T \ open : t.entered = now + 1 /\ t.symbol \in present
  BY DEF Settlement, Entered
<1>2. /\ T \in SUBSET TradeType /\ m = ChargedAt(T, present)
      /\ open' = {m[t] : t \in T} \ E /\ E = Exits({m[t] : t \in T}, present)
  BY DEF Settlement
<1>3. \A t \in T : /\ t \in TradeType /\ m[t] \in TradeType
                   /\ m[t].symbol = t.symbol /\ m[t].entered = t.entered
                   /\ m[t].direction = t.direction /\ m[t].stop = t.stop
                   /\ m[t].target = t.target
  BY <1>2, ChargedAtFacts
<1>4. open' = {m[t] : t \in {x \in T : m[x] \notin E}}
  BY <1>2
<1>5. /\ E \subseteq {m[t] : t \in T}
      /\ \A x \in {m[t] : t \in T} :
            x \in E <=> x.symbol \in present /\ IntrabarExit(x, Bar(x.symbol)) # "NONE"
  BY <1>2 DEF Exits
<1> QED
  BY <1>1, <1>3, <1>4, <1>5

LEMMA BarKeepsBudgets ==
    ASSUME NEW present, NEW shape \in Shapes, ProcessBar(present, shape),
           NEW book, NEW T, NEW m, NEW E, NEW C, Settlement(present, book, T, m, E, C)
    PROVE  WithinBudgets'
<1>1. PICK D : D = {x \in T : m[x] \notin E}
  OBVIOUS
<1>2. T \in SUBSET TradeType /\ IsFiniteSet(T) /\ Budgeted(T) /\ m = ChargedAt(T, present)
  BY DEF Settlement, Entered
<1>3. D \in SUBSET T
  BY <1>1
<1>4. Budgeted({m[t] : t \in D})
  BY <1>2, <1>3, BudgetsOfCharged
<1>5. PICK P : P = {m[t] : t \in D}
  OBVIOUS
<1>6. open' = P
  BY <1>1, <1>5, WhatIsOpen
<1>7. Budgeted(P)
  BY <1>4, <1>5
<1>8. Portfolio' <=> Portfolio
  BY DEF ProcessBar, market, Portfolio
<1> QED
  BY <1>6, <1>7, <1>8 DEF WithinBudgets, Budgeted, Affords

LEMMA BarKeepsDates ==
    ASSUME Typed, Dated, NEW present, NEW shape \in Shapes, ProcessBar(present, shape),
           NEW book, NEW T, NEW m, NEW E, NEW C, Settlement(present, book, T, m, E, C)
    PROVE  Dated'
<1>1. /\ now \in Nat /\ now' = now + 1 /\ present \subseteq Names
      /\ feed' \in [Names -> Seq(BarType)]
      /\ \A s \in Names :
            /\ s \in present => /\ Bar(s) \in BarType /\ Bar(s).at = now + 1
                                /\ ToSet(feed'[s]) = ToSet(feed[s]) \cup {Bar(s)}
                                /\ feed'[s] # << >>
            /\ s \notin present => feed'[s] = feed[s]
  BY BarArrives
<1>2. \A s \in Names : \A b \in ToSet(feed'[s]) : b.at <= now'
  <2> SUFFICES ASSUME NEW s \in Names, NEW b \in ToSet(feed'[s])
               PROVE  b.at <= now + 1
    BY <1>1
  <2>1. \A k \in 1..Len(feed[s]) : feed[s][k] \in BarType
    BY DEF Typed
  <2>2. \A x \in ToSet(feed[s]) : x.at \in Nat /\ x.at <= now
    <3>1. DOMAIN feed[s] = 1..Len(feed[s])
      BY DEF Typed
    <3> QED
      BY <2>1, <3>1 DEF ToSet, BarType, Dated
  <2>3. b \in ToSet(feed[s]) \/ b.at = now + 1
    BY <1>1
  <2> QED
    BY <1>1, <2>2, <2>3
<1>3. \A x \in open' : x.entered <= now' /\ feed'[x.symbol] # << >>
  <2> SUFFICES ASSUME NEW t \in T
               PROVE  m[t].entered <= now + 1 /\ feed'[m[t].symbol] # << >>
    BY <1>1, WhatIsOpen
  <2>1. /\ t \in TradeType /\ m[t].symbol = t.symbol /\ m[t].entered = t.entered
        /\ t \in open \/ (t.entered = now + 1 /\ t.symbol \in present)
    BY WhatIsOpen
  <2>2. t.symbol \in Names /\ t.entered \in Nat
    BY <2>1 DEF TradeType
  <2>3. CASE t \in open
    <3>1. t.entered <= now /\ feed[t.symbol] # << >>
      BY <2>3 DEF Dated
    <3> QED
      BY <1>1, <2>1, <2>2, <3>1
  <2>4. CASE t.entered = now + 1 /\ t.symbol \in present
    BY <1>1, <2>1, <2>2, <2>4
  <2> QED
    BY <2>1, <2>3, <2>4
<1>4. \A c \in trades' : c.exited <= now' /\ (c.reason = "END_OF_TEST" => done')
  <2>1. trades' = trades \cup {ClosedAtBar(t) : t \in E}
    BY DEF Settlement
  <2>2. \A t \in E : ClosedAtBar(t).exited = now'
                     /\ ClosedAtBar(t).reason \in {"STOP_LOSS", "TAKE_PROFIT"}
    <3>1. now' \in Nat /\ {m[t] : t \in T} \in SUBSET TradeType
          /\ E = Exits({m[t] : t \in T}, present)
      BY <1>1 DEF Settlement
    <3> QED
      BY <3>1, ClosedAtBarFacts
  <2>3. \A c \in trades : c.exited \in Nat /\ c.exited <= now
                          /\ (c.reason = "END_OF_TEST" => done)
    BY DEF Dated, Typed, ClosedType
  <2>4. done' = done
    BY DEF ProcessBar
  <2> QED
    BY <1>1, <2>1, <2>2, <2>3, <2>4
<1> QED
  BY <1>2, <1>3, <1>4 DEF Dated

(* Of the bars a trade held, a new one is the last: the trade stays open   *)
(* only if it is no exit, and takes a profit only if it reached no stop.   *)
LEMMA BarKeepsStops ==
    ASSUME Typed, Dated, StopsAreKept,
           NEW present, NEW shape \in Shapes, ProcessBar(present, shape),
           NEW book, NEW T, NEW m, NEW E, NEW C, Settlement(present, book, T, m, E, C)
    PROVE  StopsAreKept'
<1>1. /\ now \in Nat /\ now' = now + 1 /\ present \subseteq Names
      /\ \A s \in Names :
            /\ s \in present => /\ Bar(s) \in BarType /\ Bar(s).at = now + 1
                                /\ ToSet(feed'[s]) = ToSet(feed[s]) \cup {Bar(s)}
            /\ s \notin present => feed'[s] = feed[s]
  BY BarArrives
<1>2. \A s \in Names : \A b \in ToSet(feed[s]) : b.at \in Nat /\ b.at <= now
  <2> SUFFICES ASSUME NEW s \in Names, NEW b \in ToSet(feed[s])
               PROVE  b.at \in Nat /\ b.at <= now
    OBVIOUS
  <2>1. \A k \in 1..Len(feed[s]) : feed[s][k] \in BarType
    BY DEF Typed
  <2>2. DOMAIN feed[s] = 1..Len(feed[s])
    BY DEF Typed
  <2> QED
    BY <2>1, <2>2 DEF ToSet, BarType, Dated
<1>3. ASSUME NEW s \in Names, NEW b \in ToSet(feed'[s])
      PROVE  \/ b \in ToSet(feed[s])
             \/ s \in present /\ b = Bar(s) /\ b.at = now + 1
  BY <1>1, <1>3
<1>4. ASSUME NEW t \in T, NEW b \in ToSet(feed[t.symbol]), t.entered <= b.at
      PROVE  IntrabarExit(m[t], b) = "NONE"
  <2>1. /\ t \in open \/ t.entered = now + 1
        /\ m[t].direction = t.direction /\ m[t].stop = t.stop /\ m[t].target = t.target
        /\ t \in TradeType
    BY WhatIsOpen
  <2>2. t.symbol \in Names
    BY <2>1 DEF TradeType
  <2>3. b.at \in Nat /\ b.at <= now
    BY <1>2, <2>2
  <2>4. t \in open
    BY <1>1, <1>4, <2>1, <2>3
  <2>5. IntrabarExit(t, b) = "NONE"
    BY <1>4, <2>3, <2>4 DEF StopsAreKept, BarsHeld
  <2> QED
    BY <2>1, <2>5, SameExit
<1>5. ASSUME NEW x \in {m[t] : t \in T}
      PROVE  /\ x.symbol \in Names
             /\ \A b \in ToSet(feed[x.symbol]) : x.entered <= b.at => IntrabarExit(x, b) = "NONE"
  <2>1. PICK t \in T : x = m[t]
    BY <1>5
  <2>2. x.symbol = t.symbol /\ x.entered = t.entered /\ t.symbol \in Names
    BY <2>1, WhatIsOpen DEF TradeType
  <2> QED
    BY <1>4, <2>1, <2>2
<1>6. ASSUME NEW x \in open', NEW b \in ToSet(feed'[x.symbol]), x.entered <= b.at
      PROVE  IntrabarExit(x, b) = "NONE"
  <2>1. x \in {m[t] : t \in T} /\ x \notin E
    BY <1>6, WhatIsOpen
  <2>2. x.symbol \in Names
    BY <1>5, <2>1
  <2>3. CASE b \in ToSet(feed[x.symbol])
    BY <1>5, <1>6, <2>1, <2>3
  <2>4. CASE x.symbol \in present /\ b = Bar(x.symbol)
    BY <2>1, <2>4, WhatIsOpen
  <2> QED
    BY <1>3, <1>6, <2>2, <2>3, <2>4
<1>7. /\ trades' = trades \cup C /\ C = {ClosedAtBar(t) : t \in E}
      /\ {m[t] : t \in T} \in SUBSET TradeType /\ E = Exits({m[t] : t \in T}, present)
  BY DEF Settlement
<1>8. ASSUME NEW t \in E
      PROVE  LET c == ClosedAtBar(t) IN
             /\ \A b \in ToSet(feed'[t.symbol]) :
                   t.entered <= b.at /\ b.at <= c.exited - 1 => IntrabarExit(t, b) = "NONE"
             /\ c.reason = "TAKE_PROFIT" =>
                   \A b \in ToSet(feed'[t.symbol]) :
                       t.entered <= b.at /\ b.at <= c.exited => ~Stopped(t, b)
             /\ c.trade = t
  <2>1. now' \in Nat
    BY <1>1
  <2>2. PICK c : c = ClosedAtBar(t)
    OBVIOUS
  <2>3. /\ c.exited = now + 1 /\ c.reason = IntrabarExit(t, Bar(t.symbol)) /\ c.trade = t
    BY <1>1, <1>7, <1>8, <2>1, <2>2, ClosedAtBarFacts DEF ClosedOf
  <2>4. t \in {m[u] : u \in T} /\ t.symbol \in Names
    BY <1>5, <1>8, WhatIsOpen
  <2>5. ASSUME NEW b \in ToSet(feed'[t.symbol]), t.entered <= b.at
        PROVE  \/ IntrabarExit(t, b) = "NONE" /\ ~Stopped(t, b)
               \/ b = Bar(t.symbol) /\ b.at = now + 1
    <3>1. CASE b \in ToSet(feed[t.symbol])
      BY <1>5, <2>4, <2>5, <3>1 DEF IntrabarExit
    <3> QED
      BY <1>3, <2>4, <2>5, <3>1
  <2>6. \A b \in ToSet(feed'[t.symbol]) :
           t.entered <= b.at /\ b.at <= c.exited - 1 => IntrabarExit(t, b) = "NONE"
    BY <1>1, <2>3, <2>5
  <2>7. c.reason = "TAKE_PROFIT" =>
           \A b \in ToSet(feed'[t.symbol]) :
               t.entered <= b.at /\ b.at <= c.exited => ~Stopped(t, b)
    <3>1. c.reason = "TAKE_PROFIT" => ~Stopped(t, Bar(t.symbol))
      BY <2>3 DEF IntrabarExit
    <3> QED
      BY <2>5, <3>1
  <2> QED
    BY <2>2, <2>3, <2>6, <2>7
<1>9. ASSUME NEW c \in trades
      PROVE  /\ c.exited \in Nat
             /\ \A b \in ToSet(feed'[c.trade.symbol]) :
                   b.at \in Nat /\ (b.at <= c.exited => b \in ToSet(feed[c.trade.symbol]))
  <2>1. c.trade.symbol \in Names /\ c.exited \in Nat /\ c.exited <= now
    BY <1>9 DEF Typed, ClosedType, TradeType, Dated
  <2> SUFFICES ASSUME NEW b \in ToSet(feed'[c.trade.symbol])
               PROVE  b.at \in Nat /\ (b.at <= c.exited => b \in ToSet(feed[c.trade.symbol]))
    BY <2>1
  <2>2. CASE b \in ToSet(feed[c.trade.symbol])
    BY <1>2, <2>1, <2>2
  <2>3. CASE b.at = now + 1
    BY <1>1, <2>1, <2>3
  <2> QED
    BY <1>3, <2>1, <2>2, <2>3
<1>10. ASSUME NEW c \in trades
       PROVE  /\ \A b \in ToSet(feed'[c.trade.symbol]) :
                    c.trade.entered <= b.at /\ b.at <= c.exited - 1 =>
                        IntrabarExit(c.trade, b) = "NONE"
              /\ c.reason = "TAKE_PROFIT" =>
                    \A b \in ToSet(feed'[c.trade.symbol]) :
                        c.trade.entered <= b.at /\ b.at <= c.exited => ~Stopped(c.trade, b)
  <2>1. \A b \in ToSet(feed[c.trade.symbol]) :
           c.trade.entered <= b.at /\ b.at <= c.exited - 1 => IntrabarExit(c.trade, b) = "NONE"
    BY <1>10 DEF StopsAreKept, BarsHeld
  <2>2. c.reason = "TAKE_PROFIT" =>
           \A b \in ToSet(feed[c.trade.symbol]) :
               c.trade.entered <= b.at /\ b.at <= c.exited => ~Stopped(c.trade, b)
    BY <1>10 DEF StopsAreKept, BarsHeld
  <2>3. \A b \in ToSet(feed'[c.trade.symbol]) :
           b.at <= c.exited - 1 => b \in ToSet(feed[c.trade.symbol])
    BY <1>9, <1>10
  <2>4. \A b \in ToSet(feed'[c.trade.symbol]) :
           b.at <= c.exited => b \in ToSet(feed[c.trade.symbol])
    BY <1>9, <1>10
  <2> QED
    BY <2>1, <2>2, <2>3, <2>4
<1>11. ASSUME NEW c \in trades'
       PROVE  /\ \A b \in ToSet(feed'[c.trade.symbol]) :
                    c.trade.entered <= b.at /\ b.at <= c.exited - 1 =>
                        IntrabarExit(c.trade, b) = "NONE"
              /\ c.reason = "TAKE_PROFIT" =>
                    \A b \in ToSet(feed'[c.trade.symbol]) :
                        c.trade.entered <= b.at /\ b.at <= c.exited => ~Stopped(c.trade, b)
  <2>1. CASE c \in trades
    BY <1>10, <2>1
  <2>2. CASE c \in C
    <3>1. PICK t \in E : c = ClosedAtBar(t)
      BY <1>7, <2>2
    <3> QED
      BY <1>8, <3>1
  <2> QED
    BY <1>7, <1>11, <2>1, <2>2
<1> QED
  BY <1>6, <1>11 DEF StopsAreKept, BarsHeld
-----------------------------------------------------------------------------
(* Where all candles are complete, the cursor pushes them all.             *)
LEMMA AdvanceToEnd ==
    ASSUME NEW rows \in Seq(Int), NEW index \in 0..Len(rows), NEW duration \in Int,
           NEW decision \in Int, \A k \in 1..Len(rows) : rows[k] + duration <= decision,
           NEW i, i = Advance(rows, index, duration, decision)
    PROVE  i = Len(rows) /\ i = CompletedAt(rows, duration, decision)
<1>1. i \in index..Len(rows) /\ (i < Len(rows) => rows[i + 1] + duration > decision)
  BY AdvanceFinds
<1>2. i = Len(rows)
  <2> SUFFICES ASSUME i < Len(rows)
               PROVE  FALSE
    BY <1>1
  <2>1. i + 1 \in 1..Len(rows)
    BY <1>1
  <2>2. rows[i + 1] \in Int
    BY <2>1
  <2> QED
    BY <1>1, <2>1, <2>2
<1>3. PICK S : S = {k \in DOMAIN rows : rows[k] + duration <= decision}
  OBVIOUS
<1>4. S = 1..Len(rows)
  <2>1. DOMAIN rows = 1..Len(rows)
    OBVIOUS
  <2> QED
    BY <1>3, <2>1
<1>5. Cardinality(S) = Len(rows)
  <2>1. PICK n \in Nat : n = Len(rows)
    OBVIOUS
  <2>2. Cardinality(1..n) = n
    BY FS_Interval
  <2> QED
    BY <1>4, <2>1, <2>2
<1>6. CompletedAt(rows, duration, decision) = Cardinality(S)
  BY <1>3 DEF CompletedAt
<1> QED
  BY <1>2, <1>5, <1>6

LEMMA CursorMoves ==
    ASSUME Typed, Dated', CursorBehind, NEW present, NEW shape \in Shapes,
           ProcessBar(present, shape), NEW s \in Names, s \in present,
           NEW moved, moved = MovedCursor(s)
    PROVE  /\ moved \in [hour : Nat, bar : Nat, ready : BOOLEAN]
           /\ moved.hour \in 0..Len(hours)
           /\ \A k \in 1..moved.hour : hours[k] + 2 <= now' + 1
           /\ moved.bar \in 0..Len(feed'[s])
           /\ moved.ready =>
                 /\ moved.hour = CompletedAt(hours, 2, now' + 1)
                 /\ moved.bar = CompletedAt(Starts(feed'[s]), 1, now' + 1)
                 /\ moved.hour >= 2 /\ moved.bar >= 2
<1>1. /\ now \in Nat /\ now' = now + 1 /\ Len(feed'[s]) = Len(feed[s]) + 1
      /\ feed'[s] \in Seq(BarType) /\ feed[s] \in Seq(BarType)
  BY BarArrives DEF Typed
<1>2. PICK g, rows, bars : /\ g = feed'[s] /\ rows = Starts(g) /\ bars = Len(g)
  OBVIOUS
<1>3. /\ rows \in Seq(Int) /\ Len(rows) = bars /\ bars \in Nat
      /\ \A k \in 1..bars : rows[k] + 1 <= now' + 1
  <2>1. g \in Seq(BarType) /\ DOMAIN g = 1..Len(g) /\ Len(g) \in Nat
    BY <1>1, <1>2
  <2>2. \A k \in 1..bars : g[k] \in BarType /\ g[k] \in ToSet(g)
    BY <1>2, <2>1 DEF ToSet
  <2>3. \A k \in 1..bars : g[k].at \in Int /\ g[k].at <= now'
    BY <1>2, <2>2 DEF Dated, BarType
  <2>4. rows = [k \in 1..bars |-> g[k].at]
    BY <1>2, <2>1 DEF Starts
  <2>5. rows \in [1..bars -> Int]
    BY <2>3, <2>4
  <2>6. rows \in Seq(Int) /\ Len(rows) = bars
    BY <1>2, <2>1, <2>5
  <2>7. \A k \in 1..bars : rows[k] = g[k].at
    BY <2>4
  <2>8. \A k \in 1..bars : rows[k] + 1 <= now' + 1
    BY <1>1, <2>3, <2>7
  <2> QED
    BY <1>2, <2>1, <2>6, <2>8
<1>4. PICK index : index = cursor[s].hour
  OBVIOUS
<1>5. PICK hour : hour = Advance(hours, index, 2, now' + 1)
  OBVIOUS
<1>6. /\ hour \in 0..Len(hours) /\ \A k \in 1..hour : hours[k] + 2 <= now' + 1
      /\ hour = CompletedAt(hours, 2, now' + 1)
  <2>1. /\ hours \in Seq(Int)
        /\ \A i, j \in DOMAIN hours : i <= j => hours[i] <= hours[j]
    BY HourRowsAssumption DEF Typed
  <2>2. index \in 0..Len(hours) /\ \A k \in 1..index : hours[k] + 2 <= now + 1
    BY <1>4 DEF CursorBehind
  <2>3. \A k \in 1..index : hours[k] + 2 <= now' + 1
    <3>1. \A k \in 1..index : hours[k] \in Int
      BY <2>1, <2>2
    <3> QED
      BY <1>1, <2>2, <3>1
  <2>4. 2 \in Int /\ now' + 1 \in Int
    BY <1>1
  <2> QED
    BY <1>5, <2>1, <2>2, <2>3, <2>4, AdvanceCounts
<1>7. PICK before : before = cursor[s].bar
  OBVIOUS
<1>8. before \in 0..bars
  BY <1>1, <1>2, <1>3, <1>7 DEF CursorBehind
<1>9. PICK bar : bar = Advance(rows, before, 1, now' + 1)
  OBVIOUS
<1>10. bar = bars /\ bar = CompletedAt(rows, 1, now' + 1)
  <2>1. 1 \in Int /\ now' + 1 \in Int /\ before \in 0..Len(rows)
        /\ \A k \in 1..Len(rows) : rows[k] + 1 <= now' + 1
    BY <1>1, <1>3, <1>8
  <2> QED
    BY <1>3, <1>9, <2>1, AdvanceToEnd
<1>11. PICK ready, pushed : /\ ready = (hour >= 2 /\ bar >= 2)
                            /\ pushed = IF hour < 2 THEN before ELSE bar
                            /\ moved = [hour |-> hour, bar |-> pushed, ready |-> ready]
  BY <1>2, <1>4, <1>5, <1>7, <1>9 DEF MovedCursor
<1>12. hour \in Nat /\ bar \in Nat /\ before \in Nat
  BY <1>3, <1>6, <1>8, <1>10
<1>13. ready \in BOOLEAN /\ (ready <=> hour >= 2 /\ bar >= 2)
  BY <1>11
<1>14. moved.hour = hour /\ moved.bar = pushed /\ moved.ready = ready
       /\ pushed = IF hour < 2 THEN before ELSE bar
  BY <1>11
<1>15. moved \in [hour : Nat, bar : Nat, ready : BOOLEAN]
  <2>1. pushed \in Nat
    BY <1>12, <1>14
  <2> QED
    BY <1>11, <1>12, <1>13, <2>1
<1>16. moved.bar \in 0..Len(feed'[s])
  BY <1>2, <1>3, <1>8, <1>10, <1>14
<1>17. moved.ready =>
          /\ moved.hour = CompletedAt(hours, 2, now' + 1)
          /\ moved.bar = CompletedAt(Starts(feed'[s]), 1, now' + 1)
          /\ moved.hour >= 2 /\ moved.bar >= 2
  BY <1>2, <1>6, <1>10, <1>12, <1>13, <1>14
<1> QED
  BY <1>6, <1>14, <1>15, <1>16, <1>17

LEMMA BarMovesCursors ==
    ASSUME Typed, Dated', CursorBehind, NEW present, NEW shape \in Shapes,
           ProcessBar(present, shape)
    PROVE  CursorBehind' /\ NoLookahead'
           /\ cursor' \in [Names -> [hour : Nat, bar : Nat, ready : BOOLEAN]]
<1>1. cursor' = [s \in Names |-> IF s \in present THEN MovedCursor(s) ELSE cursor[s]]
  BY DEF ProcessBar, Typed
<1>2. hours' = hours /\ now \in Nat /\ now' = now + 1
  BY BarArrives DEF ProcessBar, market
<1>3. ASSUME NEW s \in Names
      PROVE  /\ cursor'[s] \in [hour : Nat, bar : Nat, ready : BOOLEAN]
             /\ cursor'[s].hour \in 0..Len(hours)
             /\ \A k \in 1..cursor'[s].hour : hours[k] + 2 <= now' + 1
             /\ cursor'[s].bar \in 0..Len(feed'[s])
  <2>1. CASE s \in present
    BY <1>1, <2>1, CursorMoves
  <2>2. CASE s \notin present
    <3>1. cursor'[s] = cursor[s] /\ feed'[s] = feed[s]
      BY <1>1, <2>2, BarArrives
    <3>2. /\ cursor[s].hour \in 0..Len(hours)
          /\ \A k \in 1..cursor[s].hour : hours[k] + 2 <= now + 1
          /\ cursor[s].bar \in 0..Len(feed[s])
      BY DEF CursorBehind
    <3>3. \A k \in 1..cursor[s].hour : hours[k] \in Int
      <4>1. hours \in Seq(Int)
        BY HourRowsAssumption DEF Typed
      <4> QED
        BY <3>2, <4>1
    <3>4. \A k \in 1..cursor[s].hour : hours[k] + 2 <= now' + 1
      BY <1>2, <3>2, <3>3
    <3> QED
      BY <3>1, <3>2, <3>4 DEF Typed
  <2> QED
    BY <2>1, <2>2
<1>4. CursorBehind'
  BY <1>2, <1>3 DEF CursorBehind
<1>5. NoLookahead'
  <2> SUFFICES ASSUME NEW s \in deciding'
               PROVE  /\ cursor'[s].hour = CompletedAt(hours, 2, now' + 1)
                      /\ cursor'[s].bar = CompletedAt(Starts(feed'[s]), 1, now' + 1)
                      /\ cursor'[s].hour >= 2 /\ cursor'[s].bar >= 2
    BY <1>2 DEF NoLookahead
  <2>1. s \in Names /\ s \in present /\ cursor'[s].ready
    BY TradedFacts DEF ProcessBar, Due
  <2>2. cursor'[s] = MovedCursor(s)
    BY <1>1, <2>1
  <2> QED
    BY <2>1, <2>2, CursorMoves
<1>6. cursor' \in [Names -> [hour : Nat, bar : Nat, ready : BOOLEAN]]
  BY <1>1, <1>3
<1> QED
  BY <1>4, <1>5, <1>6
-----------------------------------------------------------------------------
(* All of it together is inductive.                                        *)
Inv == /\ Typed /\ Dated /\ CursorBehind
       /\ Conservation /\ NoLookahead /\ StopsAreKept /\ WithinBudgets

LEMMA Start == Init => Inv
<1> SUFFICES ASSUME Init
             PROVE  Inv
  OBVIOUS
<1>1. /\ config \in Configs /\ hours \in HourRows /\ now = 0
      /\ feed = [s \in Names |-> << >>] /\ equity = Initial
      /\ open = {} /\ trades = {} /\ pending = [s \in Names |-> NoSignal]
      /\ cursor = [s \in Names |-> [hour |-> 0, bar |-> 0, ready |-> FALSE]]
      /\ deciding = {} /\ done = FALSE
  BY DEF Init, Names
<1>2. Typed
  <2>1. feed \in [Names -> Seq(BarType)]
    BY <1>1
  <2>2. pending \in [Names -> SignalType \cup {NoSignal}]
    BY <1>1
  <2>3. cursor \in [Names -> [hour : Nat, bar : Nat, ready : BOOLEAN]]
    BY <1>1
  <2>4. IsFiniteSet(open) /\ IsFiniteSet(trades)
    BY <1>1, FS_EmptySet
  <2> QED
    BY <1>1, <2>1, <2>2, <2>3, <2>4, NumbersAssumption DEF Typed
<1>3. Dated
  BY <1>1 DEF Dated, ToSet
<1>4. CursorBehind
  <2>1. hours \in Seq(Int)
    BY <1>1, HourRowsAssumption
  <2>2. Len(hours) \in Nat /\ 0 \in 0..Len(hours) /\ 1..0 = {}
    BY <2>1
  <2> QED
    BY <1>1, <2>2 DEF CursorBehind
<1>5. Conservation
  <2>1. SumFunction([c \in trades |-> c.realized]) = 0
        /\ SumFunction([t \in open |-> t.commission + t.funding]) = 0
    BY <1>1, <1>2, ClosedSums, TradeSums, SumOfNone DEF Typed
  <2> QED
    BY <1>1, <2>1, NumbersAssumption DEF Conservation
<1>6. NoLookahead /\ StopsAreKept /\ WithinBudgets
  BY <1>1 DEF NoLookahead, StopsAreKept, WithinBudgets
<1> QED
  BY <1>2, <1>3, <1>4, <1>5, <1>6 DEF Inv

LEMMA KeptByBar ==
    ASSUME Inv, NEW present, NEW shape \in Shapes, ProcessBar(present, shape)
    PROVE  Inv'
<1>1. PICK book, T, m, E, C : Settlement(present, book, T, m, E, C)
  BY BarSettles DEF Inv
<1>2. Dated' /\ WithinBudgets' /\ StopsAreKept'
  BY <1>1, BarKeepsDates, BarKeepsBudgets, BarKeepsStops DEF Inv
<1>3. /\ equity' \in Int /\ open' \in SUBSET TradeType /\ IsFiniteSet(open')
      /\ trades' \in SUBSET ClosedType /\ IsFiniteSet(trades') /\ Conservation'
  BY <1>1, BarKeepsBooks DEF Inv
<1>4. CursorBehind' /\ NoLookahead'
      /\ cursor' \in [Names -> [hour : Nat, bar : Nat, ready : BOOLEAN]]
  BY <1>2, BarMovesCursors DEF Inv
<1>5. Typed'
  <2>1. now' \in Nat /\ feed' \in [Names -> Seq(BarType)]
    BY BarArrives DEF Inv
  <2>2. pending' \in [Names -> SignalType \cup {NoSignal}]
    BY DEF Inv, Typed, ProcessBar
  <2>3. deciding' \in SUBSET Names
    BY TradedFacts DEF ProcessBar
  <2>4. config' = config /\ hours' = hours /\ done' = done
    BY DEF ProcessBar, market
  <2>5. config \in Configs /\ hours \in HourRows /\ done \in BOOLEAN
    BY DEF Inv, Typed
  <2> QED
    BY <1>3, <1>4, <2>1, <2>2, <2>3, <2>4, <2>5 DEF Typed
<1> QED
  BY <1>2, <1>3, <1>4, <1>5 DEF Inv

LEMMA KeptByDecision ==
    ASSUME Inv, NEW k \in DOMAIN Traded, NEW signal \in Signals \cup {NoSignal},
           EvaluateStrategy(k, signal)
    PROVE  Inv'
<1>1. /\ config' = config /\ hours' = hours /\ now' = now /\ feed' = feed
      /\ equity' = equity /\ open' = open /\ trades' = trades /\ cursor' = cursor
      /\ done' = done /\ deciding' \subseteq deciding
  BY DEF EvaluateStrategy, market
<1>2. pending' \in [Names -> SignalType \cup {NoSignal}]
  <2>1. CASE pending' = pending
    BY <2>1 DEF Inv, Typed
  <2>2. CASE signal # NoSignal /\
             pending' = [pending EXCEPT ![Traded[k]] =
                             [direction |-> signal.direction, stop |-> signal.stop,
                              target |-> signal.target]]
    <3>1. [direction |-> signal.direction, stop |-> signal.stop, target |-> signal.target]
              \in SignalType
      BY <2>2, SignalsAssumption DEF SignalType
    <3> QED
      BY <2>2, <3>1 DEF Inv, Typed
  <2> QED
    BY <2>1, <2>2 DEF EvaluateStrategy
<1>3. Typed'
  BY <1>1, <1>2 DEF Inv, Typed
<1>4. Dated' /\ CursorBehind' /\ Conservation'
  BY <1>1 DEF Inv, Dated, CursorBehind, Conservation
<1>5. NoLookahead'
  BY <1>1 DEF Inv, NoLookahead
<1>6. StopsAreKept'
  BY <1>1 DEF Inv, StopsAreKept, BarsHeld
<1>7. WithinBudgets'
  BY <1>1 DEF Inv, WithinBudgets, Portfolio
<1> QED
  BY <1>3, <1>4, <1>5, <1>6, <1>7 DEF Inv

LEMMA ClosedAtEndFacts ==
    ASSUME Typed, Dated, NEW t \in open
    PROVE  /\ ClosedOf(ClosedAtEnd(t), t) /\ ClosedAtEnd(t).reason = "END_OF_TEST"
           /\ ClosedAtEnd(t).exited \in Nat /\ ClosedAtEnd(t).exited <= now
<1>1. t \in TradeType /\ t.symbol \in Names
  BY DEF Typed, TradeType
<1>2. PICK f : f = feed[t.symbol] /\ f \in Seq(BarType) /\ f # << >>
  BY <1>1 DEF Typed, Dated
<1>3. PICK bar : bar = Last(f)
  OBVIOUS
<1>4. bar \in BarType /\ bar \in ToSet(f)
  <2>1. Len(f) \in DOMAIN f /\ bar = f[Len(f)]
    BY <1>2, <1>3 DEF Last
  <2> QED
    BY <1>2, <2>1 DEF ToSet
<1>5. bar.close \in Int /\ bar.at \in Nat /\ bar.at <= now
  <2>1. bar.close \in Nat /\ bar.at \in Nat
    BY <1>4 DEF BarType
  <2>2. bar \in ToSet(feed[t.symbol])
    BY <1>2, <1>4
  <2>3. bar.at <= now
    BY <1>1, <2>2 DEF Dated
  <2> QED
    BY <2>1, <2>3
<1>6. ClosedAtEnd(t) = Closed(t, "END_OF_TEST", bar.close, bar.at)
  BY <1>2, <1>3 DEF ClosedAtEnd
<1>7. "END_OF_TEST" \in {"STOP_LOSS", "TAKE_PROFIT", "END_OF_TEST"}
  OBVIOUS
<1> QED
  BY <1>1, <1>5, <1>6, <1>7, ClosedFacts

LEMMA KeptByEnd ==
    ASSUME Inv, EndOfTest
    PROVE  Inv'
<1>1. PICK c, C, G : /\ c = [t \in open |-> ClosedAtEnd(t)]
                     /\ C = {ClosedAtEnd(t) : t \in open} /\ G = trades \cup C
  OBVIOUS
<1>2. /\ ~done /\ done' = TRUE /\ deciding = {} /\ open' = {} /\ trades' = G
      /\ equity' = equity + Credit(C)
      /\ config' = config /\ hours' = hours /\ now' = now /\ feed' = feed
      /\ pending' = pending /\ cursor' = cursor /\ deciding' = deciding
  BY <1>1 DEF EndOfTest, market
<1>3. \A t \in open : /\ ClosedOf(c[t], t) /\ c[t].reason = "END_OF_TEST"
                      /\ c[t].exited \in Nat /\ c[t].exited <= now
  BY <1>1, ClosedAtEndFacts DEF Inv
<1>4. C = {c[t] : t \in open}
  BY <1>1
<1>5. ClosesAmong(C, open, c, open, {}, trades, G)
  <2>1. \A d \in trades : d.reason # "END_OF_TEST"
    BY <1>2 DEF Inv, Dated
  <2>2. trades \cap C = {}
    BY <1>3, <1>4, <2>1
  <2>3. Closes(C, open, c)
    BY <1>3, <1>4 DEF Closes
  <2> QED
    BY <1>1, <2>2, <2>3 DEF ClosesAmong, Inv, Typed
<1>6. /\ G \in SUBSET ClosedType /\ IsFiniteSet(G) /\ Credit(C) \in Int
      /\ SumFunctionOnSet(Results, G) - SumFunctionOnSet(Costs, {})
         = SumFunctionOnSet(Results, trades) - SumFunctionOnSet(Costs, open) + Credit(C)
  BY <1>5, BooksAfterClosing
<1>7. Typed'
  BY <1>2, <1>6, FS_EmptySet DEF Inv, Typed
<1>8. Conservation'
  <2>1. equity = Initial + SumFunctionOnSet(Results, trades) - SumFunctionOnSet(Costs, open)
    BY TradeSums, ClosedSums DEF Inv, Conservation, Typed
  <2>2. /\ SumFunctionOnSet(Results, trades) \in Int /\ SumFunctionOnSet(Costs, open) \in Int
        /\ SumFunctionOnSet(Results, G) \in Int /\ SumFunctionOnSet(Costs, {}) = 0
    <3>1. IntegerOn(Results, trades) /\ IntegerOn(Costs, open) /\ IntegerOn(Results, G)
      BY <1>6, TradeSums, ClosedSums DEF Inv, Typed
    <3> QED
      BY <3>1, SumIsInteger, SumOfNone
  <2>3. equity' = Initial + SumFunctionOnSet(Results, G) - SumFunctionOnSet(Costs, {})
    BY <1>2, <1>6, <2>1, <2>2, NumbersAssumption
  <2>4. /\ SumFunction([x \in trades' |-> x.realized]) = SumFunctionOnSet(Results, trades')
        /\ SumFunction([t \in open' |-> t.commission + t.funding])
               = SumFunctionOnSet(Costs, open')
    BY <1>7, TradeSums, ClosedSums DEF Typed
  <2> QED
    BY <1>2, <2>3, <2>4 DEF Conservation
<1>9. Dated'
  BY <1>2, <1>3, <1>4, <1>1 DEF Inv, Dated
<1>10. CursorBehind' /\ NoLookahead' /\ WithinBudgets'
  BY <1>2 DEF Inv, CursorBehind, NoLookahead, WithinBudgets
<1>11. ASSUME NEW t \in open
       PROVE  \A b \in ToSet(feed[t.symbol]) :
                 t.entered <= b.at /\ b.at <= c[t].exited - 1 => IntrabarExit(t, b) = "NONE"
  <2> SUFFICES ASSUME NEW b \in ToSet(feed[t.symbol]), t.entered <= b.at
               PROVE  IntrabarExit(t, b) = "NONE"
    OBVIOUS
  <2>1. b.at <= now
    BY DEF Inv, Dated, Typed, TradeType
  <2> QED
    BY <2>1 DEF Inv, StopsAreKept, BarsHeld
<1>12. StopsAreKept'
  <2> SUFFICES ASSUME NEW x \in trades'
               PROVE  /\ \A b \in BarsHeld(x.trade, x.exited - 1) :
                            IntrabarExit(x.trade, b) = "NONE"
                      /\ x.reason = "TAKE_PROFIT" =>
                            \A b \in BarsHeld(x.trade, x.exited) : ~Stopped(x.trade, b)
    BY <1>2 DEF StopsAreKept, BarsHeld
  <2>1. CASE x \in trades
    BY <2>1 DEF Inv, StopsAreKept
  <2>2. CASE x \in C
    <3>1. PICK t \in open : x = c[t]
      BY <1>4, <2>2
    <3>2. x.trade = t /\ x.reason = "END_OF_TEST"
      BY <1>3, <3>1 DEF ClosedOf
    <3> QED
      BY <1>11, <3>1, <3>2 DEF BarsHeld
  <2> QED
    BY <1>1, <1>2, <2>1, <2>2
<1> QED
  BY <1>7, <1>8, <1>9, <1>10, <1>12 DEF Inv

LEMMA Step == Inv /\ [Next]_vars => Inv'
<1> SUFFICES ASSUME Inv, [Next]_vars
             PROVE  Inv'
  OBVIOUS
<1>1. CASE \E present \in SUBSET ToSet(Symbols), shape \in Shapes : ProcessBar(present, shape)
  BY <1>1, KeptByBar
<1>2. CASE \E k \in DOMAIN Traded, signal \in Signals \cup {NoSignal} :
              EvaluateStrategy(k, signal)
  BY <1>2, KeptByDecision
<1>3. CASE EndOfTest
  BY <1>3, KeptByEnd
<1>4. CASE UNCHANGED vars
  <2>1. /\ config' = config /\ hours' = hours /\ now' = now /\ feed' = feed
        /\ equity' = equity /\ open' = open /\ trades' = trades /\ cursor' = cursor
        /\ done' = done /\ deciding' = deciding /\ pending' = pending
    BY <1>4 DEF vars, market
  <2>2. Typed' /\ Dated' /\ CursorBehind' /\ Conservation'
    BY <2>1 DEF Inv, Typed, Dated, CursorBehind, Conservation
  <2>3. NoLookahead' /\ StopsAreKept' /\ WithinBudgets'
    BY <2>1 DEF Inv, NoLookahead, StopsAreKept, BarsHeld, WithinBudgets, Portfolio
  <2> QED
    BY <2>2, <2>3 DEF Inv
<1> QED
  BY <1>1, <1>2, <1>3, <1>4 DEF Next

(* In every run, for any symbols, calendar, bars, signals and candles.     *)
THEOREM Invariance == Spec => []Inv
<1>1. Init => Inv
  BY Start
<1>2. Inv /\ [Next]_vars => Inv'
  BY Step
<1> QED
  BY <1>1, <1>2, PTL DEF Spec

(* No money appears or disappears: equity is the initial equity, with what *)
(* the closed trades realized, less what the open ones have cost so far.   *)
THEOREM MoneyIsConserved == Spec => []Conservation
<1>1. Inv => Conservation
  BY DEF Inv
<1> QED
  BY <1>1, Invariance, PTL

(* A strategy decides on exactly the candles that are complete.            *)
THEOREM DecisionsLookNowhereAhead == Spec => []NoLookahead
<1>1. Inv => NoLookahead
  BY DEF Inv
<1> QED
  BY <1>1, Invariance, PTL

(* No trade outlives a bar that reached its stop or target, and none takes *)
(* a profit from a bar that reached its stop, or after one.                *)
THEOREM StopsBeforeProfits == Spec => []StopsAreKept
<1>1. Inv => StopsAreKept
  BY DEF Inv
<1> QED
  BY <1>1, Invariance, PTL

(* The symbols' trades share the budgets in whatever order they open.      *)
THEOREM BudgetsAreShared == Spec => []WithinBudgets
<1>1. Inv => WithinBudgets
  BY DEF Inv
<1> QED
  BY <1>1, Invariance, PTL
=============================================================================
